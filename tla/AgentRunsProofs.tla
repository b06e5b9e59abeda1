-------------------------- MODULE AgentRunsProofs ---------------------------
(***************************************************************************)
(* Proofs about AgentRuns, for any number of runs and reversals, any       *)
(* answers of the planner and either assembly of the graph.  What carries  *)
(* them is that a decided Fuck has its tagged snapshot wherever it is: in  *)
(* the state of a run, in the snapshot a run starts from, and in every     *)
(* snapshot of the store, from which a later reversal may bring it back.   *)
(***************************************************************************)
EXTENDS AgentRuns, SequenceTheorems, TLAPS

(* Decision d of flow f has its tagged snapshot among tg, or f is in un,   *)
(* the flows for which the store refused one.                              *)
Covered(tg, un, f, d) ==
  IsFuck(d) => \/ f \in un
               \/ \E i \in DOMAIN tg : tg[i].flow = f /\ tg[i].state.decision = d

\* A state a reversal by flow may bring back.
Clean(s) == IsFuck(s.decision) /\ ~s.error /\ ~s.done

InGraph == {"execute", "fallback", "reflect"}

Step(t) == \/ Start(t) \/ Identify(t) \/ IdentifiesNothing(t) \/ Choose(t)
           \/ Proceed(t)

-----------------------------------------------------------------------------
(* States, snapshots and what covers them.                                 *)

LEMMA StateFields ==
  ASSUME NEW s \in State
  PROVE  /\ s.decision \in Decision \cup {None}
         /\ s.error \in BOOLEAN /\ s.done \in BOOLEAN
BY DEF State

LEMMA StateOf ==
  ASSUME NEW s \in State, NEW d \in Decision \cup {None},
         NEW e \in BOOLEAN, NEW b \in BOOLEAN
  PROVE  LET a1 == [s EXCEPT !.decision = d]
             a2 == [s EXCEPT !.error = e]
             a3 == [s EXCEPT !.decision = d, !.error = e]
             a4 == [s EXCEPT !.error = e, !.done = b] IN
         /\ a1 \in State /\ a2 \in State /\ a3 \in State /\ a4 \in State
         /\ a1.decision = d /\ a2.decision = s.decision
         /\ a3.decision = d /\ a4.decision = s.decision
         /\ a1.error = s.error /\ a2.error = e /\ a3.error = e /\ a4.error = e
         /\ a1.done = s.done
BY DEF State

LEMMA DecisionOf ==
  ASSUME NEW s \in State, NEW d, NEW e, NEW b
  PROVE  /\ [s EXCEPT !.error = e, !.done = b].decision = s.decision
         /\ [s EXCEPT !.decision = d].decision = d
         /\ [s EXCEPT !.decision = d, !.error = e].decision = d
BY DEF State

LEMMA Answers ==
  /\ NoAnswer(TRUE) \in Decision /\ NoAnswer(FALSE) \in Decision
  /\ Rejected \in Decision
  /\ \A i \in BOOLEAN : ~IsFuck(NoAnswer(i))
  /\ ~IsFuck(Rejected) /\ ~IsFuck(None)
BY DEF NoAnswer, Rejected, Decision, IsFuck

LEMMA FreshIsState == Fresh \in State /\ Fresh.decision = None
BY DEF Fresh, State

LEMMA CoveredGrows ==
  ASSUME NEW tg \in Seq(Snapshot), NEW un, NEW un2, un \subseteq un2,
         NEW s \in Snapshot, NEW f, NEW d, Covered(tg, un, f, d)
  PROVE  Covered(Append(tg, s), un2, f, d) /\ Covered(tg, un2, f, d)
<1>1. DOMAIN tg \subseteq DOMAIN Append(tg, s)
      /\ \A i \in DOMAIN tg : Append(tg, s)[i] = tg[i]
  OBVIOUS
<1>2. QED BY <1>1 DEF Covered

LEMMA CoveredByTag ==
  ASSUME NEW tg \in Seq(Snapshot), NEW un, NEW s \in Snapshot
  PROVE  Covered(Append(tg, s), un, s.flow, s.state.decision)
<1>1. Len(tg) + 1 \in DOMAIN Append(tg, s) /\ Append(tg, s)[Len(tg) + 1] = s
  OBVIOUS
<1>2. QED BY <1>1 DEF Covered

LEMMA UncoveredFucks ==
  ASSUME NEW tg, NEW un, NEW f, NEW d, ~IsFuck(d)
  PROVE  Covered(tg, un, f, d)
BY DEF Covered
-----------------------------------------------------------------------------
(* What an action does to the pieces of a run.                             *)

LEMMA SnapshotOf ==
  ASSUME TypeOK, NEW t \in Tasks, entry[t] # None, NEW s \in State
  PROVE  Of(t, s) \in Snapshot /\ Of(t, s).flow = entry[t].flow
         /\ Of(t, s).state = s
BY DEF TypeOK, Of, Snapshot

LEMMA StoredStates ==
  ASSUME NEW n \in {0, 1}, NEW s \in Snapshot
  PROVE  Stored(n, s) \subseteq Snapshot /\ \A x \in Stored(n, s) : x = s
BY DEF Stored

LEMMA KeepsType ==
  ASSUME TypeOK, NEW got \in SUBSET Snapshot, NEW n \in 0 .. 2, Keeps(got, n)
  PROVE  saved' \subseteq Snapshot /\ refusals' \in 0 .. MaxRefusals
BY AgentAssumption DEF TypeOK, Keeps
-----------------------------------------------------------------------------
(* Types, with the bound on the rounds that makes them inductive.          *)

RoundsLeft == \A t \in Tasks : pc[t] \in InGraph => loops[t] < MaxLoops

TInv == TypeOK /\ RoundsLeft

LEMMA TypeInit == Init => TInv
<1>1. SUFFICES ASSUME Init PROVE TInv
  OBVIOUS
<1>2. QED
  BY <1>1, FreshIsState, AgentAssumption
  DEF Init, TInv, TypeOK, RoundsLeft, InGraph, Nodes

LEMMA TypeRequests ==
  ASSUME TInv, NEW t \in Tasks,
         Start(t) \/ Identify(t) \/ IdentifiesNothing(t) \/ Choose(t)
  PROVE  TInv'
<1> USE DEF TInv, TypeOK, RoundsLeft, InGraph, Nodes
<1>1. CASE Start(t)
  <2>1. [flow |-> t, state |-> Fresh] \in Snapshot
    BY <1>1, FreshIsState DEF Start, Snapshot
  <2>2. QED
    BY <1>1, <2>1, FreshIsState, AgentAssumption
    DEF Start, Enter, Go, Becomes, run, store
<1>2. CASE Identify(t)
  <2>1. PICK f \in Flows, i \in DOMAIN tagged, n \in {0, 1} :
          Asks(t, f) /\ Keeps({}, n) /\ entry' = [entry EXCEPT ![t] = tagged[i]]
    BY <1>2 DEF Identify, Matching
  <2>2. tagged[i] \in Snapshot
    OBVIOUS
  <2>3. saved' \subseteq Snapshot /\ refusals' \in 0 .. MaxRefusals
    BY <2>1, KeepsType
  <2>4. QED
    BY <1>2, <2>1, <2>2, <2>3, AgentAssumption DEF Identify, Asks, Go
<1>3. CASE IdentifiesNothing(t)
  <2>1. PICK f \in Flows, n \in {0, 1} : Asks(t, f) /\ Keeps({}, n)
    BY <1>3 DEF IdentifiesNothing, NothingToRestore
  <2>2. saved' \subseteq Snapshot /\ refusals' \in 0 .. MaxRefusals
    BY <2>1, KeepsType
  <2>3. QED
    BY <1>3, <2>1, <2>2, AgentAssumption DEF IdentifiesNothing, Asks, Answer, Go
<1>4. CASE Choose(t)
  BY <1>4, AgentAssumption DEF Choose, Asks, Go, store
<1>5. QED BY <1>1, <1>2, <1>3, <1>4

LEMMA TypeControl ==
  ASSUME TInv, NEW t \in Tasks,
         \/ Restore(t) \/ RestoreFails(t) \/ MonitorRaises(t)
         \/ TooManySteps(t) \/ Again(t) \/ RunAgain(t) \/ Return(t)
  PROVE  TInv'
<1> USE DEF TInv, TypeOK, RoundsLeft, InGraph, Nodes
<1>0. entry[t] # None => entry[t] \in Snapshot /\ entry[t].state \in State
  BY DEF Snapshot
<1>1. CASE Restore(t)
  BY <1>0, <1>1, AgentAssumption DEF Restore, Enter, Go, Becomes, store
<1>2. CASE RestoreFails(t)
  <2>1. saved' \subseteq Snapshot /\ refusals' \in 0 .. MaxRefusals
    BY <1>2, KeepsType DEF RestoreFails
  <2>2. QED BY <1>2, <2>1 DEF RestoreFails, Answer, Go
<1>3. CASE MonitorRaises(t)
  <2>1. Of(t, state[t]) \in Snapshot
    BY <1>3, SnapshotOf DEF MonitorRaises
  <2>2. saved' \subseteq Snapshot /\ refusals' \in 0 .. MaxRefusals
    BY <1>3, <2>1, KeepsType DEF MonitorRaises
  <2>3. QED
    BY <1>3, <2>2 DEF MonitorRaises, Answer, Go, SameStart, SameTags
<1>4. CASE TooManySteps(t)
  BY <1>4 DEF TooManySteps, Answer, Go, SameStart, store
<1>5. CASE Again(t)
  BY <1>5, AgentAssumption DEF Again, Go, store
<1>6. CASE RunAgain(t)
  BY <1>0, <1>6, AgentAssumption DEF RunAgain, Enter, Go, Becomes, store
<1>7. CASE Return(t)
  BY <1>7 DEF Return, Answer, Go, SameStart, store
<1>8. QED BY <1>1, <1>2, <1>3, <1>4, <1>5, <1>6, <1>7

LEMMA TypeNodes ==
  ASSUME TInv, NEW t \in Tasks,
         \/ Monitor(t) \/ DecideSkips(t) \/ Decide(t) \/ PlannerRaises(t)
         \/ Execute(t) \/ Fallback(t)
  PROVE  TInv'
<1> USE DEF TInv, TypeOK, RoundsLeft, InGraph, Nodes
<1>0. state[t] \in State
  OBVIOUS
<1>1. CASE Monitor(t)
  <2>1. PICK n \in {0, 1}, e \in BOOLEAN, b \in BOOLEAN :
          /\ Keeps(Stored(n, Of(t, state[t])), n)
          /\ Becomes(t, [state[t] EXCEPT !.error = e, !.done = b])
    BY <1>0, <1>1, StateFields DEF Monitor
  <2>2. [state[t] EXCEPT !.error = e, !.done = b] \in State
    BY <1>0, StateOf, StateFields
  <2>3. saved' \subseteq Snapshot /\ refusals' \in 0 .. MaxRefusals
    BY <1>0, <1>1, <2>1, SnapshotOf, StoredStates, KeepsType DEF Monitor
  <2>4. QED
    BY <1>1, <2>1, <2>2, <2>3 DEF Monitor, Becomes, Go, SameStart, SameTags
<1>2. CASE DecideSkips(t)
  <2>1. PICK n \in {0, 1}, e \in BOOLEAN, d \in Decision \cup {None} :
          /\ Keeps(Stored(n, Of(t, state[t])), n)
          /\ Becomes(t, [state[t] EXCEPT !.decision = d, !.error = e])
          /\ Routed(t, d)
    BY <1>0, <1>2, StateFields, Answers DEF DecideSkips
  <2>2. [state[t] EXCEPT !.decision = d, !.error = e] \in State
    BY <1>0, StateOf
  <2>3. saved' \subseteq Snapshot /\ refusals' \in 0 .. MaxRefusals
    BY <1>0, <1>2, <2>1, SnapshotOf, StoredStates, KeepsType DEF DecideSkips
  <2>4. QED
    BY <1>2, <2>1, <2>2, <2>3
    DEF DecideSkips, Becomes, Routed, Go, SameStart, SameTags
<1>3. CASE Decide(t)
  <2>1. PICK d \in Decisions, m \in {0, 1}, n \in {0, 1} :
          LET after == [state[t] EXCEPT !.decision = d] IN
          /\ Keeps(Stored(m, Of(t, state[t])) \cup Stored(n, Of(t, after)), m + n)
          /\ Tag(t, d, n) /\ Becomes(t, after) /\ Routed(t, d)
    BY <1>3 DEF Decide
  <2>2. [state[t] EXCEPT !.decision = d] \in State
    BY <1>0, StateOf, AgentAssumption
  <2>3. Of(t, state[t]) \in Snapshot
        /\ Of(t, [state[t] EXCEPT !.decision = d]) \in Snapshot
    BY <1>0, <1>3, <2>2, SnapshotOf DEF Decide
  <2>4. saved' \subseteq Snapshot /\ refusals' \in 0 .. MaxRefusals
    <3> DEFINE after == [state[t] EXCEPT !.decision = d]
    <3>1. Stored(m, Of(t, state[t])) \cup Stored(n, Of(t, after)) \in SUBSET Snapshot
      BY <2>3, StoredStates
    <3>2. m + n \in 0 .. 2
      OBVIOUS
    <3>3. QED BY <2>1, <3>1, <3>2, KeepsType
  <2>5. entry[t].flow \in Starts
    BY <1>3 DEF Decide, Snapshot
  <2>6. tagged' \in Seq(Snapshot) /\ untagged' \subseteq Starts
    BY <2>1, <2>3, <2>5 DEF Tag
  <2>7. QED
    BY <1>3, <2>1, <2>2, <2>4, <2>6 DEF Decide, Becomes, Routed, Go, SameStart
<1>4. CASE PlannerRaises(t)
  <2>1. PICK m \in {0, 1}, n \in {0, 1} :
          LET after == [state[t] EXCEPT !.decision = NoAnswer(TRUE)] IN
          /\ Keeps(Stored(m, Of(t, state[t]))
                     \cup Stored(n, Of(t, [after EXCEPT !.error = TRUE])), m + n)
          /\ Becomes(t, after) /\ Routed(t, NoAnswer(TRUE))
    BY <1>4 DEF PlannerRaises
  <2> DEFINE after == [state[t] EXCEPT !.decision = NoAnswer(TRUE)]
  <2>2. after \in State /\ [after EXCEPT !.error = TRUE] \in State
    BY <1>0, StateOf, Answers
  <2>3. Of(t, state[t]) \in Snapshot
        /\ Of(t, [after EXCEPT !.error = TRUE]) \in Snapshot
    BY <1>0, <1>4, <2>2, SnapshotOf DEF PlannerRaises
  <2>4. saved' \subseteq Snapshot /\ refusals' \in 0 .. MaxRefusals
    <3>1. Stored(m, Of(t, state[t])) \cup Stored(n, Of(t, [after EXCEPT !.error = TRUE]))
            \in SUBSET Snapshot
      BY <2>3, StoredStates
    <3>2. m + n \in 0 .. 2
      OBVIOUS
    <3>3. QED BY <2>1, <3>1, <3>2, KeepsType
  <2>5. QED
    BY <1>4, <2>1, <2>2, <2>4
    DEF PlannerRaises, Becomes, Routed, Go, SameStart, SameTags
<1>5. CASE Execute(t)
  <2> DEFINE after == [state[t] EXCEPT !.error = TRUE, !.done = TRUE]
  <2>1. PICK pre \in {0, 1}, post \in {0, 1} :
          Keeps(Stored(pre, Of(t, state[t])) \cup Stored(post, Of(t, after)),
                pre + post)
    BY <1>5 DEF Execute, ExceptionHandled
  <2>2. after \in State
    BY <1>0, StateOf
  <2>3. Of(t, state[t]) \in Snapshot /\ Of(t, after) \in Snapshot
    BY <1>0, <1>5, <2>2, SnapshotOf DEF Execute
  <2>4. saved' \subseteq Snapshot /\ refusals' \in 0 .. MaxRefusals
    <3>1. Stored(pre, Of(t, state[t])) \cup Stored(post, Of(t, after))
            \in SUBSET Snapshot
      BY <2>3, StoredStates
    <3>2. pre + post \in 0 .. 2
      OBVIOUS
    <3>3. QED BY <2>1, <3>1, <3>2, KeepsType
  <2>5. active' \in Registered \cup {Nobody}
    BY <1>5 DEF Execute, Applied
  <2>6. QED
    BY <1>5, <2>2, <2>4, <2>5 DEF Execute, ExceptionHandled, Becomes, Go, SameStart, SameTags
<1>6. CASE Fallback(t)
  <2>1. [state[t] EXCEPT !.decision = Rejected] \in State
    BY <1>0, StateOf, Answers
  <2>2. QED
    BY <1>0, <1>6, <2>1 DEF Fallback, Becomes, Go, SameStart, store
<1>7. QED BY <1>1, <1>2, <1>3, <1>4, <1>5, <1>6

LEMMA TypeStep == TInv /\ [Next]_vars => TInv'
<1>1. ASSUME TInv, UNCHANGED vars PROVE TInv'
  BY <1>1 DEF vars, run, store, TInv, TypeOK, RoundsLeft
<1>2. ASSUME TInv, Next PROVE TInv'
  BY <1>2, TypeRequests, TypeControl, TypeNodes DEF Next, Proceed
<1>3. QED BY <1>1, <1>2

(* Every variable keeps its type, for any runs, reversals and planner.     *)
THEOREM TypeCorrect == Spec => []TypeOK
<1>1. TInv => TypeOK
  BY DEF TInv
<1>2. QED BY <1>1, TypeInit, TypeStep, PTL DEF Spec
-----------------------------------------------------------------------------
(* A step of one task leaves the run of every other as it is.              *)

LEMMA Elsewhere ==
  ASSUME TInv, NEW t \in Tasks, NEW u \in Tasks, u # t, Step(t)
  PROVE  /\ pc'[u] = pc[u] /\ pass'[u] = pass[u] /\ state'[u] = state[u]
         /\ entry'[u] = entry[u] /\ reply'[u] = reply[u]
         /\ request'[u] = request[u]
<1> USE DEF TInv, TypeOK, Go, Answer, Becomes, Enter
<1>1. CASE Start(t)
  BY <1>1 DEF Start
<1>2. CASE Identify(t)
  BY <1>2 DEF Identify, Asks
<1>3. CASE IdentifiesNothing(t)
  BY <1>3 DEF IdentifiesNothing, NothingToRestore, Asks
<1>4. CASE Choose(t)
  BY <1>4 DEF Choose, Asks
<1>5. CASE Restore(t) \/ RestoreFails(t) \/ TooManySteps(t) \/ MonitorRaises(t)
  BY <1>5 DEF Restore, RestoreFails, TooManySteps, MonitorRaises, SameStart
<1>6. CASE Monitor(t) \/ Execute(t) \/ Fallback(t)
  BY <1>6 DEF Monitor, Execute, Fallback, SameStart
<1>7. CASE DecideSkips(t) \/ Decide(t) \/ PlannerRaises(t)
  BY <1>7 DEF DecideSkips, Decide, PlannerRaises, Routed, SameStart
<1>8. CASE Again(t) \/ RunAgain(t) \/ Return(t)
  BY <1>8 DEF Again, RunAgain, Return, SameStart
<1>9. QED
  BY <1>1, <1>2, <1>3, <1>4, <1>5, <1>6, <1>7, <1>8 DEF Step, Proceed
-----------------------------------------------------------------------------
(* Only vetted actions.                                                    *)

VettedInv == \A t \in Tasks : pc[t] = "execute" => Vetted(state[t].decision)

LEMMA RoutesVetted ==
  ASSUME TInv, NEW t \in Tasks, Step(t), pc'[t] = "execute"
  PROVE  Vetted(state'[t].decision)
<1> USE DEF TInv, TypeOK, Go, Answer, Becomes, Enter
<1>0. state[t] \in State
  OBVIOUS
<1>1. CASE DecideSkips(t)
  <2>1. PICK e \in BOOLEAN, d \in Decision \cup {None} :
          /\ Becomes(t, [state[t] EXCEPT !.decision = d, !.error = e])
          /\ Routed(t, d)
    BY <1>0, <1>1, StateFields, Answers DEF DecideSkips
  <2>2. Vetted(d)
    BY <2>1 DEF Routed, Vetted
  <2>3. state'[t].decision = d
    <3>1. [state[t] EXCEPT !.decision = d, !.error = e].decision = d
      BY <1>0, DecisionOf
    <3>2. state'[t] = [state[t] EXCEPT !.decision = d, !.error = e]
      BY <2>1
    <3>3. QED BY <3>1, <3>2
  <2>4. QED BY <2>2, <2>3
<1>2. CASE Decide(t)
  <2>1. PICK d \in Decisions : /\ Becomes(t, [state[t] EXCEPT !.decision = d])
                               /\ Routed(t, d)
    BY <1>2 DEF Decide
  <2>2. Vetted(d)
    BY <2>1 DEF Routed, Vetted
  <2>3. state'[t].decision = d
    <3>1. [state[t] EXCEPT !.decision = d].decision = d
      BY <1>0, DecisionOf
    <3>2. state'[t] = [state[t] EXCEPT !.decision = d]
      BY <2>1
    <3>3. QED BY <3>1, <3>2
  <2>4. QED BY <2>2, <2>3
<1>3. CASE PlannerRaises(t)
  BY <1>3 DEF PlannerRaises, Routed, Vetted, NoAnswer
<1>4. CASE \/ Start(t) \/ Identify(t) \/ IdentifiesNothing(t) \/ Choose(t)
           \/ Restore(t) \/ RestoreFails(t) \/ MonitorRaises(t) \/ TooManySteps(t)
  BY <1>4 DEF Start, Identify, IdentifiesNothing, Choose, Restore, RestoreFails,
              MonitorRaises, TooManySteps
<1>5. CASE \/ Monitor(t) \/ Execute(t) \/ Fallback(t)
           \/ Again(t) \/ RunAgain(t) \/ Return(t)
  BY <1>5 DEF Monitor, Execute, Fallback, Again, RunAgain, Return
<1>6. QED BY <1>1, <1>2, <1>3, <1>4, <1>5 DEF Step, Proceed

LEMMA VettedStep == TInv /\ VettedInv /\ [Next]_vars => VettedInv'
<1>1. ASSUME VettedInv, UNCHANGED vars PROVE VettedInv'
  BY <1>1 DEF vars, run, VettedInv
<1>2. ASSUME TInv, VettedInv, NEW t \in Tasks, Step(t) PROVE VettedInv'
  <2>1. SUFFICES ASSUME NEW u \in Tasks, pc'[u] = "execute"
                 PROVE  Vetted(state'[u].decision)
    BY DEF VettedInv
  <2>2. CASE u = t
    BY <1>2, <2>1, <2>2, RoutesVetted
  <2>3. CASE u # t
    BY <1>2, <2>1, <2>3, Elsewhere DEF VettedInv
  <2>4. QED BY <2>2, <2>3
<1>3. QED BY <1>1, <1>2 DEF Next, Step

LEMMA ActiveChanges ==
  ASSUME TInv, NEW t \in Tasks, Step(t), active' # active
  PROVE  Executes(t)
<1> USE DEF TInv, TypeOK
<1>1. Execute(t)
  BY DEF Step, Proceed, Start, Identify, IdentifiesNothing, Choose, Restore,
         RestoreFails, Monitor, MonitorRaises, TooManySteps, DecideSkips, Decide,
         PlannerRaises, Fallback, Again, RunAgain, Return
<1>2. QED BY <1>1 DEF Execute, Executes, Go

(* Whatever the engine is given has passed should_fallback: no low         *)
(* confidence, no error beside the decision; nothing else changes the      *)
(* active component.                                                       *)
THEOREM VettedOnly == Spec => OnlyVettedActions
<1>1. Init => VettedInv
  BY DEF Init, VettedInv
<1>2. ASSUME TInv, VettedInv, [Next]_vars
      PROVE  [/\ \A t \in Tasks : Executes(t) => Vetted(state[t].decision)
              /\ active' # active => \E t \in Tasks : Executes(t)]_vars
  <2>1. \A t \in Tasks : Executes(t) => Vetted(state[t].decision)
    BY <1>2 DEF VettedInv, Executes
  <2>2. ASSUME active' # active PROVE \E t \in Tasks : Executes(t)
    <3>1. PICK t \in Tasks : Step(t)
      BY <1>2, <2>2 DEF Next, Step, vars
    <3>2. QED BY <1>2, <2>2, <3>1, ActiveChanges
  <2>3. QED BY <2>1, <2>2
<1>3. QED
  BY <1>1, <1>2, TypeInit, TypeStep, VettedStep, PTL DEF Spec, OnlyVettedActions
-----------------------------------------------------------------------------
(* Fucks are reversible: every decision that can reach the engine, now or  *)
(* after a reversal, is covered.                                           *)

InTags(f, d) == Covered(tagged, untagged, f, d)

RunsCovered == \A t \in Tasks :
  pc[t] \in Nodes => InTags(entry[t].flow, state[t].decision)
EntriesCovered == \A t \in Tasks :
  entry[t] # None => InTags(entry[t].flow, entry[t].state.decision)
StoreCovered == \A s \in saved : InTags(s.flow, s.state.decision)

CoveredInv == RunsCovered /\ EntriesCovered /\ StoreCovered

LEMMA TagKeepsCover ==
  ASSUME TInv, NEW t \in Tasks, entry[t] # None, NEW d \in Decision,
         NEW n \in {0, 1}, Tag(t, d, n), NEW f, NEW e, InTags(f, e)
  PROVE  InTags(f, e)'
<1>1. tagged \in Seq(Snapshot) /\ state[t] \in State
  BY DEF TInv, TypeOK
<1>2. Of(t, [state[t] EXCEPT !.decision = d]) \in Snapshot
  BY <1>1, SnapshotOf, StateOf DEF TInv
<1>3. Covered(tagged, untagged', f, e)
      /\ Covered(Append(tagged, Of(t, [state[t] EXCEPT !.decision = d])),
                 untagged', f, e)
  BY <1>1, <1>2, CoveredGrows DEF InTags, Tag
<1>4. QED BY <1>3 DEF InTags, Tag

LEMMA TagCovers ==
  ASSUME TInv, NEW t \in Tasks, entry[t] # None, NEW d \in Decision,
         NEW n \in {0, 1}, Tag(t, d, n)
  PROVE  Covered(tagged', untagged', entry[t].flow, d)
<1>1. tagged \in Seq(Snapshot) /\ state[t] \in State
  BY DEF TInv, TypeOK
<1> DEFINE s == Of(t, [state[t] EXCEPT !.decision = d])
<1>2. s \in Snapshot /\ s.flow = entry[t].flow /\ s.state.decision = d
  <2>1. [state[t] EXCEPT !.decision = d] \in State
    BY <1>1, StateOf
  <2>2. [state[t] EXCEPT !.decision = d].decision = d
    BY <1>1, DecisionOf
  <2>3. QED BY <2>1, <2>2, SnapshotOf DEF TInv
<1>3. CASE IsFuck(d) /\ n = 0
  <2>1. Covered(Append(tagged, s), untagged', s.flow, s.state.decision)
    BY <1>1, <1>2, CoveredByTag
  <2>2. QED BY <1>2, <1>3, <2>1 DEF Tag
<1>4. CASE IsFuck(d) /\ n = 1
  BY <1>4 DEF Tag, Covered
<1>5. CASE ~IsFuck(d)
  BY <1>5 DEF Covered
<1>6. QED BY <1>3, <1>4, <1>5

(* Only a decision changes the tagged snapshots, and it adds to them.      *)
LEMMA OnlyDecideTags ==
  ASSUME NEW t \in Tasks, Step(t), ~Decide(t)
  PROVE  UNCHANGED <<tagged, untagged>>
<1> USE DEF SameTags, store
<1>1. CASE Start(t) \/ Choose(t) \/ Restore(t) \/ TooManySteps(t)
           \/ Fallback(t) \/ Again(t) \/ RunAgain(t) \/ Return(t)
  BY <1>1 DEF Start, Choose, Restore, TooManySteps, Fallback, Again,
              RunAgain, Return
<1>2. CASE \/ Identify(t) \/ IdentifiesNothing(t) \/ RestoreFails(t)
           \/ MonitorRaises(t)
  BY <1>2 DEF Identify, IdentifiesNothing, RestoreFails, MonitorRaises
<1>3. CASE Monitor(t)
  BY <1>3 DEF Monitor
<1>4. CASE DecideSkips(t)
  BY <1>4 DEF DecideSkips
<1>5. CASE PlannerRaises(t)
  BY <1>5 DEF PlannerRaises
<1>6. CASE Execute(t)
  BY <1>6 DEF Execute
<1>7. QED
  BY <1>1, <1>2, <1>3, <1>4, <1>5, <1>6 DEF Step, Proceed

LEMMA CoverGrows ==
  ASSUME TInv, NEW t \in Tasks, Step(t), NEW f, NEW d, InTags(f, d)
  PROVE  InTags(f, d)'
<1>1. CASE Decide(t)
  <2>1. PICK a \in Decisions, n \in {0, 1} : Tag(t, a, n)
    BY <1>1 DEF Decide
  <2>2. a \in Decision /\ entry[t] # None
    BY <1>1, <2>1, AgentAssumption DEF Decide, TInv, TypeOK, Nodes
  <2>3. QED BY <2>1, <2>2, TagKeepsCover
<1>2. CASE ~Decide(t)
  <2>1. UNCHANGED <<tagged, untagged>>
    BY <1>2, OnlyDecideTags
  <2>2. QED BY <2>1 DEF InTags
<1>3. QED BY <1>1, <1>2

LEMMA EntriesStep ==
  ASSUME TInv, CoveredInv, NEW t \in Tasks, Step(t), entry'[t] # None
  PROVE  InTags(entry'[t].flow, entry'[t].state.decision)
<1> USE DEF TInv, TypeOK
<1>1. CASE Start(t)
  <2>1. entry'[t].state = Fresh
    BY <1>1 DEF Start
  <2>2. QED BY <2>1, FreshIsState, Answers, UncoveredFucks DEF InTags
<1>2. CASE Identify(t)
  <2>1. PICK i \in DOMAIN tagged : entry' = [entry EXCEPT ![t] = tagged[i]]
    BY <1>2 DEF Identify, Matching
  <2>2. entry'[t] = tagged[i]
    BY <2>1
  <2>3. QED BY <2>2 DEF InTags, Covered
<1>3. CASE Choose(t)
  BY <1>3 DEF Choose, CoveredInv, StoreCovered
<1>4. CASE ~Start(t) /\ ~Identify(t) /\ ~Choose(t)
  BY <1>4 DEF CoveredInv, EntriesCovered, Step, Proceed, IdentifiesNothing,
     Restore, RestoreFails, Monitor, MonitorRaises, TooManySteps, DecideSkips,
     Decide, PlannerRaises, Execute, Fallback, Again, RunAgain, Return, SameStart
<1>5. QED BY <1>1, <1>2, <1>3, <1>4

(* A node keeps the decision it finds, or puts a new one in its place that *)
(* is covered; a new execution of the graph starts from a covered one.     *)
LEMMA RunsStep ==
  ASSUME TInv, CoveredInv, NEW t \in Tasks, Step(t), pc'[t] \in Nodes
  PROVE  Covered(tagged', untagged', entry'[t].flow, state'[t].decision)
<1> USE DEF TInv, TypeOK, Go, Becomes, Nodes
<1>0. state[t] \in State
  OBVIOUS
<1>1. CASE state'[t].decision = state[t].decision /\ entry'[t] = entry[t]
           /\ pc[t] \in Nodes
  <2>1. InTags(entry[t].flow, state[t].decision)
    BY <1>1 DEF CoveredInv, RunsCovered
  <2>2. QED BY <1>1, <2>1, CoverGrows DEF InTags
<1>2. CASE ~IsFuck(state'[t].decision)
  BY <1>2, UncoveredFucks
<1>3. CASE Start(t)
  BY <1>2, <1>3, FreshIsState, Answers DEF Start, Enter
<1>4. CASE Restore(t) \/ RunAgain(t)
  <2>1. entry' = entry /\ entry[t] # None /\ state'[t] = entry[t].state
    BY <1>4 DEF Restore, RunAgain, Enter
  <2>2. InTags(entry[t].flow, entry[t].state.decision)
    BY <2>1 DEF CoveredInv, EntriesCovered
  <2>3. QED BY <2>1, <2>2, CoverGrows DEF InTags
<1>5. CASE Decide(t)
  <2>1. PICK d \in Decisions, n \in {0, 1} :
          Tag(t, d, n) /\ Becomes(t, [state[t] EXCEPT !.decision = d])
    BY <1>5 DEF Decide
  <2>2. entry' = entry /\ entry[t] # None /\ d \in Decision
    BY <1>5, AgentAssumption DEF Decide, SameStart
  <2>3. state'[t] = [state[t] EXCEPT !.decision = d]
    BY <2>1
  <2>4. state'[t].decision = d
    BY <1>0, <2>3, DecisionOf
  <2>5. QED BY <2>1, <2>2, <2>4, TagCovers
<1>6. CASE PlannerRaises(t)
  <2>1. state'[t] = [state[t] EXCEPT !.decision = NoAnswer(TRUE)]
    BY <1>6 DEF PlannerRaises
  <2>2. state'[t].decision = NoAnswer(TRUE)
    BY <1>0, <2>1, DecisionOf
  <2>3. QED BY <1>2, <2>2, Answers
<1>7. CASE DecideSkips(t)
  <2>1. PICK e \in BOOLEAN, d \in Decision \cup {None} :
          /\ d = IF state[t].decision = None THEN NoAnswer(e)
                                             ELSE state[t].decision
          /\ Becomes(t, [state[t] EXCEPT !.decision = d, !.error = e])
    BY <1>0, <1>7, StateFields, Answers DEF DecideSkips
  <2>2. state'[t] = [state[t] EXCEPT !.decision = d, !.error = e]
    BY <2>1
  <2>3. state'[t].decision = d
    BY <1>0, <2>2, DecisionOf
  <2>4. CASE state[t].decision = None
    BY <1>2, <2>1, <2>3, <2>4, Answers
  <2>5. CASE state[t].decision # None
    BY <1>1, <1>7, <2>1, <2>3, <2>5 DEF DecideSkips, SameStart
  <2>6. QED BY <2>4, <2>5
<1>8. CASE Monitor(t)
  <2>1. PICK e \in BOOLEAN, b \in BOOLEAN :
          state'[t] = [state[t] EXCEPT !.error = e, !.done = b]
    BY <1>0, <1>8, StateFields DEF Monitor
  <2>2. state'[t].decision = state[t].decision
    BY <1>0, <2>1, DecisionOf
  <2>3. QED BY <1>1, <1>8, <2>2 DEF Monitor, SameStart
<1>9. CASE Execute(t)
  <2>1. state'[t] = [state[t] EXCEPT !.error = TRUE, !.done = TRUE]
    BY <1>9 DEF Execute, ExceptionHandled
  <2>2. state'[t].decision = state[t].decision
    BY <1>0, <2>1, DecisionOf
  <2>3. QED BY <1>1, <1>9, <2>2 DEF Execute, SameStart
<1>10. CASE Fallback(t)
  <2>1. CASE state'[t] = state[t]
    BY <1>1, <1>10, <2>1 DEF Fallback, SameStart
  <2>2. CASE state'[t] = [state[t] EXCEPT !.decision = Rejected]
    <3>1. state'[t].decision = Rejected
      BY <1>0, <2>2, DecisionOf
    <3>2. QED BY <1>2, <3>1, Answers
  <2>3. QED BY <1>10, <2>1, <2>2 DEF Fallback
<1>11. CASE Again(t)
  BY <1>1, <1>11 DEF Again
<1>12. CASE \/ Identify(t) \/ IdentifiesNothing(t) \/ Choose(t) \/ RestoreFails(t)
            \/ MonitorRaises(t) \/ TooManySteps(t) \/ Return(t)
  BY <1>12 DEF Identify, IdentifiesNothing, Choose, RestoreFails, MonitorRaises,
               TooManySteps, Return, Answer
<1>13. QED
  BY <1>3, <1>4, <1>5, <1>6, <1>7, <1>8, <1>9, <1>10, <1>11, <1>12
  DEF Step, Proceed

(* What a node stores holds the decision it found or the one it left.      *)
LEMMA StoreStep ==
  ASSUME TInv, CoveredInv, NEW t \in Tasks, Step(t), NEW s \in saved'
  PROVE  Covered(tagged', untagged', s.flow, s.state.decision)
<1> USE DEF TInv, TypeOK
<1>0. state[t] \in State
  OBVIOUS
<1>1. CASE s \in saved
  BY <1>1, CoverGrows DEF CoveredInv, StoreCovered, InTags
<1>2. ASSUME s = Of(t, state[t]), pc[t] \in Nodes
      PROVE  Covered(tagged', untagged', s.flow, s.state.decision)
  <2>1. s.flow = entry[t].flow /\ s.state.decision = state[t].decision
    BY <1>2 DEF Of
  <2>2. QED BY <1>2, <2>1, CoverGrows DEF CoveredInv, RunsCovered, InTags
<1>3. ASSUME s.flow = entry'[t].flow, s.state.decision = state'[t].decision,
             pc'[t] \in Nodes
      PROVE  Covered(tagged', untagged', s.flow, s.state.decision)
  BY <1>3, RunsStep
<1>4. CASE Monitor(t) \/ MonitorRaises(t) \/ DecideSkips(t)
  <2>1. s \in saved \/ s = Of(t, state[t])
    BY <1>4 DEF Monitor, MonitorRaises, DecideSkips, Keeps, Stored
  <2>2. QED BY <1>1, <1>2, <1>4, <2>1 DEF Monitor, MonitorRaises, DecideSkips, Nodes
<1>5. CASE Decide(t)
  <2>1. s \in saved \/ s = Of(t, state[t]) \/ s = Of(t, state'[t])
    BY <1>5 DEF Decide, Keeps, Stored, Becomes
  <2>2. entry' = entry /\ pc[t] \in Nodes /\ pc'[t] \in Nodes
    BY <1>5 DEF Decide, SameStart, Routed, Go, Nodes
  <2>3. CASE s = Of(t, state'[t])
    BY <1>3, <2>2, <2>3 DEF Of
  <2>4. QED BY <1>1, <1>2, <2>1, <2>2, <2>3
<1>6. CASE PlannerRaises(t)
  <2>1. entry' = entry /\ pc[t] \in Nodes /\ pc'[t] \in Nodes
    BY <1>6 DEF PlannerRaises, SameStart, Routed, Go, Nodes
  <2> DEFINE after == [state[t] EXCEPT !.decision = NoAnswer(TRUE)]
  <2>2. after \in State /\ state'[t] = after
    <3>1. after \in State
      BY <1>0, StateOf, Answers
    <3>2. QED BY <1>6, <3>1 DEF PlannerRaises, Becomes
  <2>3. s \in saved \/ s = Of(t, state[t]) \/ s = Of(t, [after EXCEPT !.error = TRUE])
    <3>1. PICK m \in {0, 1}, n \in {0, 1} :
            saved' = saved \cup (Stored(m, Of(t, state[t]))
                       \cup Stored(n, Of(t, [after EXCEPT !.error = TRUE])))
      BY <1>6 DEF PlannerRaises, Keeps
    <3> HIDE DEF after
    <3>2. QED BY <3>1 DEF Stored
  <2>4. CASE s = Of(t, [after EXCEPT !.error = TRUE])
    <3>1. [after EXCEPT !.error = TRUE].decision = after.decision
      BY <2>2, StateOf
    <3>2. QED BY <1>3, <2>1, <2>2, <2>4, <3>1 DEF Of
  <2>5. QED BY <1>1, <1>2, <2>1, <2>3, <2>4
<1>7. CASE Execute(t)
  <2>1. entry' = entry /\ pc[t] \in Nodes /\ pc'[t] \in Nodes
    BY <1>7 DEF Execute, SameStart, Go, Nodes
  <2>2. s \in saved \/ s = Of(t, state[t]) \/ s = Of(t, state'[t])
    BY <1>7 DEF Execute, Keeps, Stored, Becomes
  <2>3. CASE s = Of(t, state'[t])
    BY <1>3, <2>1, <2>3 DEF Of
  <2>4. QED BY <1>1, <1>2, <2>1, <2>2, <2>3
<1>8. CASE \/ Start(t) \/ Choose(t) \/ Restore(t) \/ TooManySteps(t)
           \/ Fallback(t) \/ Again(t) \/ RunAgain(t) \/ Return(t)
  BY <1>1, <1>8 DEF Start, Choose, Restore, TooManySteps, Fallback, Again,
     RunAgain, Return, store
<1>9. CASE Identify(t) \/ IdentifiesNothing(t) \/ RestoreFails(t)
  BY <1>1, <1>9 DEF Identify, IdentifiesNothing, NothingToRestore, RestoreFails,
     Keeps
<1>10. QED
  BY <1>4, <1>5, <1>6, <1>7, <1>8, <1>9 DEF Step, Proceed

LEMMA CoveredStep == TInv /\ CoveredInv /\ [Next]_vars => CoveredInv'
<1>1. ASSUME CoveredInv, UNCHANGED vars PROVE CoveredInv'
  BY <1>1 DEF vars, run, store, CoveredInv, RunsCovered, EntriesCovered,
     StoreCovered, InTags
<1>2. ASSUME TInv, CoveredInv, NEW t \in Tasks, Step(t) PROVE CoveredInv'
  <2>1. RunsCovered'
    <3>1. SUFFICES ASSUME NEW u \in Tasks, pc'[u] \in Nodes
                   PROVE  Covered(tagged', untagged', entry'[u].flow,
                                  state'[u].decision)
      BY DEF RunsCovered, InTags
    <3>2. CASE u = t
      BY <1>2, <3>1, <3>2, RunsStep
    <3>3. CASE u # t
      BY <1>2, <3>1, <3>3, Elsewhere, CoverGrows
      DEF CoveredInv, RunsCovered, InTags
    <3>4. QED BY <3>2, <3>3
  <2>2. EntriesCovered'
    <3>1. SUFFICES ASSUME NEW u \in Tasks, entry'[u] # None
                   PROVE  Covered(tagged', untagged', entry'[u].flow,
                                  entry'[u].state.decision)
      BY DEF EntriesCovered, InTags
    <3>2. CASE u = t
      BY <1>2, <3>1, <3>2, EntriesStep, CoverGrows DEF InTags
    <3>3. CASE u # t
      BY <1>2, <3>1, <3>3, Elsewhere, CoverGrows
      DEF CoveredInv, EntriesCovered, InTags
    <3>4. QED BY <3>2, <3>3
  <2>3. StoreCovered'
    BY <1>2, StoreStep DEF StoreCovered, InTags
  <2>4. QED BY <2>1, <2>2, <2>3 DEF CoveredInv
<1>3. QED BY <1>1, <1>2 DEF Next, Step

(* A Fuck the engine is given has its tagged snapshot, or the store has    *)
(* refused one of its flow: for any runs and reversals in any order.       *)
THEOREM AlwaysReversible == Spec => FucksAreReversible
<1>1. Init => CoveredInv
  BY DEF Init, CoveredInv, RunsCovered, EntriesCovered, StoreCovered, Nodes
<1>2. ASSUME TInv, CoveredInv
      PROVE  \A t \in Tasks : Executes(t) /\ IsFuck(state[t].decision)
                => Before(t) # {} \/ entry[t].flow \in untagged
  BY <1>2 DEF CoveredInv, RunsCovered, InTags, Covered, Executes, Before, Nodes
<1>3. QED
  BY <1>1, <1>2, TypeInit, TypeStep, CoveredStep, PTL DEF Spec, FucksAreReversible
-----------------------------------------------------------------------------
(* Reversals restart from a Fuck of their flow in which nothing had failed.*)

CleanTags == \A i \in DOMAIN tagged : Clean(tagged[i].state)
IdleHasNone == \A t \in Tasks : pc[t] = "idle" => entry[t] = None

RevertInv == CleanTags /\ IdleHasNone /\ RevertsOwnFuck

LEMMA CleanTagsStep ==
  ASSUME TInv, CleanTags, NEW t \in Tasks, Step(t)
  PROVE  CleanTags'
<1> USE DEF TInv, TypeOK
<1>1. CASE Decide(t)
  <2>1. PICK d \in Decisions, n \in {0, 1} : Tag(t, d, n)
    BY <1>1 DEF Decide
  <2> DEFINE s == Of(t, [state[t] EXCEPT !.decision = d])
  <2>2. d \in Decision /\ entry[t] # None /\ ~state[t].error /\ ~state[t].done
    BY <1>1, <2>1, AgentAssumption DEF Decide, Nodes
  <2>3. s \in Snapshot /\ s.state = [state[t] EXCEPT !.decision = d]
    <3>1. state[t] \in State
      OBVIOUS
    <3>2. [state[t] EXCEPT !.decision = d] \in State
      BY <2>2, <3>1, StateOf
    <3>3. QED BY <2>2, <3>2, SnapshotOf
  <2>4. s.state.error = state[t].error /\ s.state.done = state[t].done
        /\ s.state.decision = d
    <3>1. ASSUME NEW x \in State
          PROVE  LET y == [x EXCEPT !.decision = d] IN
                 y.error = x.error /\ y.done = x.done /\ y.decision = d
      BY DEF State
    <3>2. QED BY <2>3, <3>1
  <2>5. CASE IsFuck(d) /\ n = 0
    <3>1. tagged' = Append(tagged, s)
      BY <2>1, <2>5 DEF Tag
    <3>2. Clean(s.state)
      BY <2>2, <2>4, <2>5 DEF Clean
    <3> HIDE DEF s
    <3>3. QED BY <2>3, <3>1, <3>2 DEF CleanTags
  <2>6. CASE ~(IsFuck(d) /\ n = 0)
    BY <2>1, <2>6 DEF Tag, CleanTags
  <2>7. QED BY <2>5, <2>6
<1>2. CASE ~Decide(t)
  BY <1>2, OnlyDecideTags DEF CleanTags
<1>3. QED BY <1>1, <1>2

LEMMA NeverIdleAgain ==
  ASSUME TInv, NEW t \in Tasks, Step(t)
  PROVE  pc'[t] # "idle"
<1> USE DEF TInv, TypeOK, Go, Answer, Enter
<1>1. CASE Start(t) \/ Identify(t) \/ Choose(t) \/ Restore(t)
  BY <1>1 DEF Start, Identify, Choose, Restore
<1>2. CASE IdentifiesNothing(t) \/ RestoreFails(t) \/ MonitorRaises(t)
  BY <1>2 DEF IdentifiesNothing, RestoreFails, MonitorRaises
<1>3. CASE Monitor(t)
  BY <1>3 DEF Monitor
<1>4. CASE DecideSkips(t)
  BY <1>4 DEF DecideSkips, Routed
<1>5. CASE Decide(t)
  BY <1>5 DEF Decide, Routed
<1>6. CASE PlannerRaises(t)
  BY <1>6 DEF PlannerRaises, Routed
<1>7. CASE Execute(t)
  BY <1>7 DEF Execute
<1>8. CASE TooManySteps(t) \/ Fallback(t)
  BY <1>8 DEF TooManySteps, Fallback
<1>9. CASE Again(t) \/ RunAgain(t) \/ Return(t)
  BY <1>9 DEF Again, RunAgain, Return
<1>10. QED
  BY <1>1, <1>2, <1>3, <1>4, <1>5, <1>6, <1>7, <1>8, <1>9
  DEF Step, Proceed

LEMMA RevertStep == TInv /\ RevertInv /\ [Next]_vars => RevertInv'
<1>1. ASSUME RevertInv, UNCHANGED vars PROVE RevertInv'
  BY <1>1 DEF vars, run, store, RevertInv, CleanTags, IdleHasNone, RevertsOwnFuck
<1>2. ASSUME TInv, RevertInv, NEW t \in Tasks, Step(t) PROVE RevertInv'
  <2>1. CleanTags'
    BY <1>2, CleanTagsStep DEF RevertInv
  <2>2. pc'[t] # "idle"
    BY <1>2, NeverIdleAgain
  <2>3. IdleHasNone'
    BY <1>2, <2>2, Elsewhere DEF RevertInv, IdleHasNone
  <2>4. ASSUME t \in Reverts, request'[t] \notin {ById, None}, entry'[t] # None
        PROVE  /\ entry'[t].flow = request'[t]
               /\ IsFuck(entry'[t].state.decision)
               /\ ~entry'[t].state.error /\ ~entry'[t].state.done
    <3> USE DEF TInv, TypeOK
    <3>1. CASE Identify(t)
      <4>1. PICK f \in Flows, i \in DOMAIN tagged :
              /\ Asks(t, f) /\ i \in Matching(f)
              /\ entry' = [entry EXCEPT ![t] = tagged[i]]
        BY <3>1 DEF Identify, Matching
      <4>2. entry'[t] = tagged[i] /\ request'[t] = f /\ tagged[i].flow = f
            /\ i \in DOMAIN tagged
        BY <1>2, <4>1 DEF Asks, Matching
      <4>3. QED BY <1>2, <4>2 DEF RevertInv, CleanTags, Clean
    <3>2. CASE IdentifiesNothing(t)
      BY <1>2, <2>4, <3>2
      DEF IdentifiesNothing, NothingToRestore, Asks, RevertInv, IdleHasNone
    <3>3. CASE Start(t)
      BY <2>4, <3>3, AgentAssumption DEF Start
    <3>4. CASE Choose(t)
      BY <1>2, <2>4, <3>4 DEF Choose, Asks
    <3>5. CASE Proceed(t)
      <4>1. entry' = entry /\ request' = request
        BY <3>5 DEF Proceed, Restore, RestoreFails, Monitor, MonitorRaises,
           TooManySteps, DecideSkips, Decide, PlannerRaises, Execute, Fallback,
           Again, RunAgain, Return, SameStart
      <4>2. QED BY <1>2, <2>4, <4>1 DEF RevertInv, RevertsOwnFuck
    <3>6. QED BY <1>2, <3>1, <3>2, <3>3, <3>4, <3>5 DEF Step
  <2>5. RevertsOwnFuck'
    BY <1>2, <2>4, Elsewhere DEF RevertInv, RevertsOwnFuck, Tasks
  <2>6. QED BY <2>1, <2>3, <2>5 DEF RevertInv
<1>3. QED BY <1>1, <1>2 DEF Next, Step

(* A reversal of a flow's last Fuck starts from that flow, from a decided  *)
(* Fuck without an error, whatever is stored, refused or tagged meanwhile. *)
THEOREM RevertsCorrectly == Spec => []RevertsOwnFuck
<1>1. Init => RevertInv
  BY DEF Init, RevertInv, CleanTags, IdleHasNone, RevertsOwnFuck, Tasks
<1>2. RevertInv => RevertsOwnFuck
  BY DEF RevertInv
<1>3. QED
  BY <1>1, <1>2, TypeInit, TypeStep, RevertStep, PTL DEF Spec
-----------------------------------------------------------------------------
(* Errors surface.                                                         *)

Unanswered == \A t \in Tasks : pc[t] # "ended" => reply[t] = "none"

LEMMA StateWithError ==
  ASSUME NEW s \in State, NEW d, NEW e, NEW b
  PROVE  /\ [s EXCEPT !.decision = d, !.error = e].error = e
         /\ [s EXCEPT !.error = e, !.done = b].error = e
BY DEF State

LEMMA AnswersOnce ==
  ASSUME TInv, Unanswered, NEW t \in Tasks, Step(t)
  PROVE  pc'[t] = "ended" \/ reply'[t] = "none"
<1> USE DEF TInv, TypeOK, Unanswered, Answer, Go, Enter, Nodes
<1>1. CASE Start(t) \/ Identify(t) \/ Choose(t) \/ Restore(t)
  BY <1>1 DEF Start, Identify, Choose, Asks, Restore
<1>2. CASE \/ IdentifiesNothing(t) \/ RestoreFails(t) \/ MonitorRaises(t)
           \/ TooManySteps(t) \/ Return(t)
  BY <1>2 DEF IdentifiesNothing, RestoreFails, MonitorRaises, TooManySteps, Return
<1>3. CASE Monitor(t) \/ Execute(t) \/ Fallback(t)
  BY <1>3 DEF Monitor, Execute, Fallback
<1>4. CASE DecideSkips(t) \/ Decide(t) \/ PlannerRaises(t)
  BY <1>4 DEF DecideSkips, Decide, PlannerRaises
<1>5. CASE Again(t) \/ RunAgain(t)
  BY <1>5 DEF Again, RunAgain
<1>6. QED
  BY <1>1, <1>2, <1>3, <1>4, <1>5 DEF Step, Proceed

LEMMA UnansweredStep == TInv /\ Unanswered /\ [Next]_vars => Unanswered'
<1>1. ASSUME Unanswered, UNCHANGED vars PROVE Unanswered'
  BY <1>1 DEF vars, run, Unanswered
<1>2. ASSUME TInv, Unanswered, NEW t \in Tasks, Step(t) PROVE Unanswered'
  BY <1>2, AnswersOnce, Elsewhere DEF Unanswered
<1>3. QED BY <1>1, <1>2 DEF Next, Step

LEMMA ErrorStays ==
  ASSUME TInv, Unanswered, NEW t \in Tasks, Step(t), state[t].error, pc[t] \in Nodes
  PROVE  /\ pass'[t] = pass[t] => state'[t].error
         /\ reply'[t] # "success"
<1> USE DEF TInv, TypeOK, Unanswered, Answer, Go, Becomes, Nodes
<1>0. state[t] \in State
  OBVIOUS
<1>1. CASE Monitor(t)
  <2>1. PICK e \in BOOLEAN, b \in BOOLEAN :
          /\ state[t].error => e
          /\ state'[t] = [state[t] EXCEPT !.error = e, !.done = b]
    BY <1>0, <1>1, StateFields DEF Monitor
  <2>2. state'[t].error = e
    BY <1>0, <2>1, StateWithError
  <2>3. reply' = reply
    BY <1>1 DEF Monitor
  <2>4. QED BY <2>1, <2>2, <2>3
<1>2. CASE DecideSkips(t)
  <2> DEFINE e(n) == state[t].error \/ n = 1
             d(n) == IF state[t].decision = None THEN NoAnswer(e(n))
                                                 ELSE state[t].decision
  <2>1. PICK n \in {0, 1} :
          state'[t] = [state[t] EXCEPT !.decision = d(n), !.error = e(n)]
    BY <1>2 DEF DecideSkips
  <2>2. state'[t].error = e(n)
    <3> HIDE DEF e, d
    <3>1. QED BY <1>0, <2>1, StateWithError
  <2>3. reply' = reply
    BY <1>2 DEF DecideSkips
  <2>4. QED BY <2>1, <2>2, <2>3
<1>3. CASE Execute(t)
  <2>1. state'[t] = [state[t] EXCEPT !.error = TRUE, !.done = TRUE]
    BY <1>3 DEF Execute, ExceptionHandled
  <2>2. state'[t].error = TRUE
    BY <1>0, <2>1, StateWithError
  <2>3. reply' = reply
    BY <1>3 DEF Execute
  <2>4. QED BY <2>2, <2>3
<1>4. CASE Fallback(t)
  <2>1. state'[t] = state[t] \/ state'[t] = [state[t] EXCEPT !.decision = Rejected]
    BY <1>4 DEF Fallback
  <2>2. [state[t] EXCEPT !.decision = Rejected].error = state[t].error
    <3>1. ASSUME NEW x \in State
          PROVE  [x EXCEPT !.decision = Rejected].error = x.error
      BY DEF State
    <3>2. QED BY <1>0, <3>1
  <2>3. state'[t].error = state[t].error
    BY <2>1, <2>2
  <2>4. QED BY <1>4, <2>3 DEF Fallback
<1>5. CASE RunAgain(t)
  BY <1>5 DEF RunAgain, Enter
<1>6. CASE MonitorRaises(t) \/ TooManySteps(t) \/ Again(t) \/ Return(t)
  BY <1>6 DEF MonitorRaises, TooManySteps, Again, Return, SameStart
<1>7. CASE \/ Start(t) \/ Identify(t) \/ IdentifiesNothing(t) \/ Choose(t)
           \/ Restore(t) \/ RestoreFails(t) \/ Decide(t) \/ PlannerRaises(t)
  BY <1>7 DEF Start, Identify, IdentifiesNothing, NothingToRestore, Choose, Asks,
              Restore, RestoreFails, Decide, PlannerRaises
<1>8. QED
  BY <1>1, <1>2, <1>3, <1>4, <1>5, <1>6, <1>7 DEF Step, Proceed

(* An error that a node has handed on stays until the execution of the     *)
(* graph ends, and a run that ends with one is not reported as a success.  *)
THEOREM ErrorsAreKept == Spec => ErrorsSurface
<1>1. Init => Unanswered
  BY DEF Init, Unanswered
<1>2. ASSUME TInv, Unanswered, [Next]_vars
      PROVE  [\A t \in Tasks :
               /\ state[t].error /\ pc[t] \in Nodes /\ pass'[t] = pass[t]
                    => state'[t].error
               /\ state[t].error /\ pc[t] \in Nodes => reply'[t] # "success"]_vars
  <2>1. SUFFICES ASSUME NEW u \in Tasks, Next, state[u].error, pc[u] \in Nodes
                 PROVE  /\ pass'[u] = pass[u] => state'[u].error
                        /\ reply'[u] # "success"
    BY <1>2
  <2>2. PICK t \in Tasks : Step(t)
    BY <2>1 DEF Next, Step
  <2>3. CASE u = t
    BY <1>2, <2>1, <2>2, <2>3, ErrorStays
  <2>4. CASE u # t
    BY <1>2, <2>1, <2>2, <2>4, Elsewhere DEF Unanswered, Nodes
  <2>5. QED BY <2>3, <2>4
<1>3. QED
  BY <1>1, <1>2, TypeInit, TypeStep, UnansweredStep, PTL DEF Spec, ErrorsSurface
-----------------------------------------------------------------------------
(* Runs and reversals implement RunPromise.                                *)

\* A request that has not been taken up has not failed.
NotFailedBefore == \A t \in Tasks : pc[t] \in {"idle", "restore"} => ~state[t].error

LEMMA PromiseInit == Init => Promise!Init
  BY AgentAssumption
  DEF Init, Promise!Init, Stages, Executions, Rooms, Choices, Failures, Fresh

\* A step of one task changes what the promise sees of that task only.
LEMMA SeenElsewhere ==
  ASSUME TInv, TInv', NEW t \in Tasks, Step(t)
  PROVE  /\ Stages' = [Stages EXCEPT ![t] = Stages'[t]]
         /\ Executions' = [Executions EXCEPT ![t] = Executions'[t]]
         /\ Rooms' = [Rooms EXCEPT ![t] = Rooms'[t]]
         /\ Choices' = [Choices EXCEPT ![t] = Choices'[t]]
         /\ Failures' = [Failures EXCEPT ![t] = Failures'[t]]
         /\ reply' = [reply EXCEPT ![t] = reply'[t]]
         /\ Stages'[t] = Stages[t] => Stages' = Stages
         /\ Executions'[t] = Executions[t] => Executions' = Executions
         /\ Rooms'[t] = Rooms[t] => Rooms' = Rooms
         /\ Choices'[t] = Choices[t] => Choices' = Choices
         /\ Failures'[t] = Failures[t] => Failures' = Failures
         /\ reply'[t] = reply[t] => reply' = reply
<1>1. assembly' = assembly
  BY DEF Step, Proceed, Start, Identify, IdentifiesNothing, Choose, Restore,
         RestoreFails, Monitor, MonitorRaises, TooManySteps, DecideSkips, Decide,
         PlannerRaises, Execute, Fallback, Again, RunAgain, Return
<1>2. \A u \in Tasks \ {t} :
        /\ pc'[u] = pc[u] /\ pass'[u] = pass[u] /\ state'[u] = state[u]
        /\ reply'[u] = reply[u]
  BY Elsewhere
<1>3. Stages' = [Stages EXCEPT ![t] = Stages'[t]]
  BY <1>2 DEF Stages
<1>4. Executions' = [Executions EXCEPT ![t] = Executions'[t]]
  BY <1>2 DEF Executions
<1>5. Rooms' = [Rooms EXCEPT ![t] = Rooms'[t]]
  BY <1>1, <1>2 DEF Rooms, GoesBack
<1>6. Choices' = [Choices EXCEPT ![t] = Choices'[t]]
  BY <1>2 DEF Choices
<1>7. Failures' = [Failures EXCEPT ![t] = Failures'[t]]
  BY <1>2 DEF Failures
<1>8. reply' = [reply EXCEPT ![t] = reply'[t]]
  BY <1>2 DEF TInv, TypeOK
<1>9. \A F \in {Stages, Executions, Rooms, Choices, Failures, reply} :
        [F EXCEPT ![t] = F[t]] = F
  BY DEF Stages, Executions, Rooms, Choices, Failures, TInv, TypeOK
<1> QED
  BY <1>3, <1>4, <1>5, <1>6, <1>7, <1>8, <1>9

\* Steps inside an execution keep its failure, if it has failed.
LEMMA MayFailSeen ==
  ASSUME TInv, TInv', NEW t \in Tasks, Step(t), Failures'[t] \in {Failures[t], TRUE}
  PROVE  Promise!MayFail(t)
<1>1. CASE Failures'[t] = Failures[t]
  BY <1>1, SeenElsewhere DEF Promise!MayFail
<1>2. CASE Failures'[t] = TRUE
  BY <1>2, SeenElsewhere DEF Promise!MayFail
<1> QED
  BY <1>1, <1>2

\* A node, or an edge, that neither chooses nor applies anything.
LEMMA GoesOn ==
  ASSUME TInv, TInv', NEW t \in Tasks, Step(t),
         Stages[t] = "running", Stages'[t] = "running",
         Executions'[t] = Executions[t], Rooms'[t] = Rooms[t],
         Choices'[t] = Choices[t], reply'[t] = reply[t], active' = active,
         Failures'[t] \in {Failures[t], TRUE}
  PROVE  Promise!Next
<1>1. Promise!Fail(t)
  BY SeenElsewhere, MayFailSeen DEF Promise!Fail
<1> QED
  BY <1>1 DEF Promise!Next

\* An answer that is no success, from anywhere in a run.
LEMMA EndsInFailure ==
  ASSUME TInv, TInv', NEW t \in Tasks, Step(t), Answer(t, "failure"),
         pc[t] \notin {"idle", "execute", "ended"},
         pass'[t] = pass[t], state'[t] = state[t], active' = active
  PROVE  Promise!Next
<1>1. /\ Stages[t] = "running" /\ Stages'[t] = "answered"
      /\ Executions'[t] = Executions[t] /\ Rooms'[t] = 0
      /\ Choices[t] = None /\ Choices'[t] = None /\ Failures'[t] = Failures[t]
      /\ reply'[t] = "failure"
  BY DEF Answer, Go, TInv, TypeOK, Stages, Executions, Rooms, Choices, Failures
<1>2. Promise!Answer(t)
  BY <1>1, SeenElsewhere DEF Promise!Answer
<1> QED
  BY <1>2 DEF Promise!Next

\* Start, Identify and Choose take a request up, IdentifiesNothing refuses one.
LEMMA RequestSeen ==
  ASSUME TInv, TInv', NotFailedBefore, NEW t \in Tasks,
         Start(t) \/ Identify(t) \/ IdentifiesNothing(t) \/ Choose(t)
  PROVE  Promise!Next
<1> USE DEF TInv, TypeOK
<1>0. Step(t) /\ pc[t] = "idle" /\ ~state[t].error
  BY DEF Step, Start, Identify, IdentifiesNothing, NothingToRestore, Choose, Asks,
         NotFailedBefore
<1>1. CASE Start(t) \/ Identify(t) \/ Choose(t)
  <2>1. /\ pc'[t] \in {"monitor", "restore"} /\ pass'[t] = pass[t]
        /\ reply'[t] = reply[t] /\ active' = active
        /\ state'[t] = state[t] \/ state'[t] = Fresh
    BY <1>1 DEF Start, Identify, Choose, Asks, Enter, Go, Becomes
  <2>2. state[t].error = FALSE /\ state'[t].error = FALSE
    BY <1>0, <2>1, StateFields DEF Fresh
  <2>3. /\ Stages[t] = "waiting" /\ Stages'[t] = "running"
        /\ Executions'[t] = Executions[t] /\ Rooms'[t] = 1
        /\ Choices'[t] = Choices[t] /\ Failures'[t] = Failures[t]
    BY <1>0, <2>1, <2>2 DEF Stages, Executions, Rooms, Choices, Failures
  <2>4. Promise!TakeUp(t)
    BY <1>0, <2>1, <2>3, SeenElsewhere DEF Promise!TakeUp
  <2> QED
    BY <2>4 DEF Promise!Next
<1>2. CASE IdentifiesNothing(t)
  <2>1. /\ pc'[t] = "ended" /\ pass'[t] = pass[t] /\ reply'[t] = "failure"
        /\ state' = state /\ active' = active
    BY <1>2 DEF IdentifiesNothing, Answer, Go
  <2>2. /\ Stages[t] = "waiting" /\ Stages'[t] = "answered"
        /\ Executions'[t] = Executions[t] /\ Rooms'[t] = Rooms[t]
        /\ Choices'[t] = Choices[t] /\ Failures'[t] = Failures[t]
    BY <1>0, <2>1 DEF Stages, Executions, Rooms, Choices, Failures
  <2>3. Promise!Refuse(t)
    BY <1>0, <2>1, <2>2, SeenElsewhere DEF Promise!Refuse
  <2> QED
    BY <2>3 DEF Promise!Next
<1> QED
  BY <1>1, <1>2

\* A node that routes to execute has chosen a decision that should_fallback lets
\* by; routing to fallback chooses nothing.
LEMMA RoutedSeen ==
  ASSUME TInv, TInv', NEW t \in Tasks, Step(t), pc[t] = "decide",
         pc'[t] \in {"execute", "fallback"}, pass'[t] = pass[t],
         reply'[t] = reply[t], active' = active,
         state'[t].error \in {state[t].error, TRUE}
  PROVE  Promise!Next
<1> USE DEF TInv, TypeOK
<1>1. /\ Stages[t] = "running" /\ Stages'[t] = "running"
      /\ Executions'[t] = Executions[t] /\ Rooms[t] = 1 /\ Rooms'[t] = 1
      /\ Choices[t] = None /\ Failures'[t] \in {Failures[t], TRUE}
  BY DEF Stages, Executions, Rooms, Choices, Failures
<1>2. CASE pc'[t] = "fallback"
  BY <1>1, <1>2, GoesOn DEF Choices
<1>3. CASE pc'[t] = "execute"
  <2>1. Vetted(state'[t].decision) /\ state'[t].decision \in Decision
    BY <1>3, RoutesVetted, StateFields DEF Vetted
  <2>2. Choices'[t] \in {d \in Decision : Vetted(d)}
    BY <1>3, <2>1 DEF Choices
  <2>3. Promise!MayFail(t)
    BY <1>1, MayFailSeen
  <2>4. Promise!Choose(t)
    BY <1>1, <2>2, <2>3, SeenElsewhere DEF Promise!Choose
  <2> QED
    BY <2>4 DEF Promise!Next
<1> QED
  BY <1>2, <1>3

\* monitor and the three ways through decide.
LEMMA BeforeSeen ==
  ASSUME TInv, TInv', NotFailedBefore, NEW t \in Tasks,
         Restore(t) \/ Monitor(t) \/ DecideSkips(t) \/ Decide(t) \/ PlannerRaises(t)
  PROVE  Promise!Next
<1> USE DEF TInv, TypeOK, Go, Becomes
<1>0. Step(t) /\ state[t] \in State /\ state'[t] \in State
  BY DEF Step, Proceed
<1>1. CASE Restore(t)
  <2>1. /\ pc[t] = "restore" /\ pc'[t] = "monitor" /\ pass'[t] = pass[t]
        /\ reply'[t] = reply[t] /\ active' = active /\ ~state[t].error
    BY <1>1 DEF Restore, Enter, NotFailedBefore
  <2>2. state[t].error = FALSE /\ state'[t].error \in BOOLEAN
    BY <1>0, <2>1, StateFields
  <2> QED
    BY <1>0, <2>1, <2>2, GoesOn DEF Stages, Executions, Rooms, Choices, Failures
<1>2. CASE Monitor(t)
  <2>1. PICK n \in {0, 1} :
          LET e == state[t].error \/ n = 1
          IN  Becomes(t, [state[t] EXCEPT !.error = e, !.done = e /\ @])
    BY <1>2 DEF Monitor
  <2>2. state'[t].error \in {state[t].error, TRUE}
    <3> DEFINE e == state[t].error \/ n = 1
               b == e /\ state[t].done
    <3>1. e \in {state[t].error, TRUE}
      BY <1>0, StateFields
    <3>2. state'[t].error = e
      <4>1. state'[t] = [state[t] EXCEPT !.error = e, !.done = b]
        BY <2>1
      <4> HIDE DEF e, b
      <4> QED
        BY <1>0, <4>1, StateWithError
    <3> QED
      BY <3>1, <3>2
  <2> QED
    BY <1>0, <1>2, <2>2, GoesOn
    DEF Monitor, SameStart, Stages, Executions, Rooms, Choices, Failures
<1>3. CASE DecideSkips(t)
  <2> DEFINE e(n) == state[t].error \/ n = 1
             d(n) == IF state[t].decision = None THEN NoAnswer(e(n))
                                                 ELSE state[t].decision
  <2>1. PICK n \in {0, 1} :
          state'[t] = [state[t] EXCEPT !.decision = d(n), !.error = e(n)]
    BY <1>3 DEF DecideSkips
  <2>2. e(n) \in {state[t].error, TRUE}
    BY <1>0, StateFields
  <2>3. state'[t].error = e(n)
    <3> HIDE DEF e, d
    <3> QED
      BY <1>0, <2>1, StateWithError
  <2> QED
    BY <1>0, <1>3, <2>2, <2>3, RoutedSeen DEF DecideSkips, Routed, SameStart
<1>4. CASE Decide(t)
  <2>1. PICK d \in Decisions : state'[t] = [state[t] EXCEPT !.decision = d]
    BY <1>4 DEF Decide
  <2>2. state'[t].error = state[t].error
    BY <1>0, <2>1 DEF State
  <2> QED
    BY <1>0, <1>4, <2>2, RoutedSeen DEF Decide, Routed, SameStart
<1>5. CASE PlannerRaises(t)
  <2>1. state'[t] = [state[t] EXCEPT !.decision = NoAnswer(TRUE)]
    BY <1>5 DEF PlannerRaises
  <2>2. state'[t].error = state[t].error
    BY <1>0, <2>1 DEF State
  <2> QED
    BY <1>0, <1>5, <2>2, RoutedSeen DEF PlannerRaises, Routed, SameStart
<1> QED
  BY <1>1, <1>2, <1>3, <1>4, <1>5

\* execute applies what was chosen, and that is all this execution applies: the
\* exception it always handles keeps the graph from going back.
LEMMA ExecuteSeen ==
  ASSUME TInv, TInv', VettedInv, NEW t \in Tasks, Execute(t)
  PROVE  Promise!Next
<1> USE DEF TInv, TypeOK
<1>0. Step(t) /\ pc[t] = "execute" /\ pc'[t] = "reflect" /\ state[t] \in State
  BY DEF Step, Proceed, Execute, Go
<1>1. state[t].decision \in Decision
  BY <1>0, StateFields DEF VettedInv, Vetted
<1>2. state'[t].error = TRUE
  <2>1. state'[t] = [state[t] EXCEPT !.error = TRUE, !.done = TRUE]
    BY DEF Execute, ExceptionHandled, Becomes
  <2> QED
    BY <1>0, <2>1, StateWithError
<1>3. active' \in {active, state[t].decision.component}
  BY DEF Execute, Applied
<1>4. state[t].decision # None
  BY <1>1, AgentAssumption
<1>5. /\ Stages[t] = "running" /\ Stages'[t] = "running"
      /\ Executions'[t] = Executions[t] /\ Rooms[t] = 1 /\ Rooms'[t] = 0
      /\ Choices[t] = state[t].decision /\ Choices'[t] = None
      /\ Failures'[t] = TRUE /\ reply'[t] = reply[t]
  BY <1>0, <1>2
  DEF Execute, SameStart, GoesBack, Stages, Executions, Rooms, Choices, Failures
<1>6. Promise!MayFail(t)
  BY <1>0, <1>5, MayFailSeen
<1>7. Promise!Apply(t)
  BY <1>0, <1>3, <1>4, <1>5, <1>6, SeenElsewhere DEF Promise!Apply
<1> QED
  BY <1>7 DEF Promise!Next

\* fallback applies nothing; the execution may end there or go back.
LEMMA FallbackSeen ==
  ASSUME TInv, TInv', NEW t \in Tasks, Fallback(t)
  PROVE  Promise!Next
<1> USE DEF TInv, TypeOK
<1>0. Step(t) /\ pc[t] = "fallback" /\ pc'[t] = "reflect" /\ state[t] \in State
  BY DEF Step, Proceed, Fallback, Go
<1>1. state'[t].error = state[t].error
  <2>1. state'[t] = state[t] \/ state'[t] = [state[t] EXCEPT !.decision = Rejected]
    BY DEF Fallback, Becomes
  <2>2. [state[t] EXCEPT !.decision = Rejected].error = state[t].error
    BY <1>0 DEF State
  <2> QED
    BY <2>1, <2>2
<1>2. /\ Stages[t] = "running" /\ Stages'[t] = "running"
      /\ Executions'[t] = Executions[t] /\ Rooms[t] = 1 /\ Rooms'[t] \in {0, 1}
      /\ Choices[t] = None /\ Choices'[t] = Choices[t]
      /\ Failures'[t] = Failures[t] /\ reply'[t] = reply[t] /\ active' = active
  BY <1>0, <1>1
  DEF Fallback, SameStart, Stages, Executions, Rooms, Choices, Failures
<1>3. CASE Rooms'[t] = Rooms[t]
  BY <1>0, <1>2, <1>3, GoesOn
<1>4. CASE Rooms'[t] = 0
  <2>1. Promise!MayFail(t)
    BY <1>0, <1>2, MayFailSeen
  <2>2. Promise!PassUp(t)
    BY <1>0, <1>2, <1>4, <2>1, SeenElsewhere DEF Promise!PassUp
  <2> QED
    BY <2>2 DEF Promise!Next
<1> QED
  BY <1>2, <1>3, <1>4

\* What follows reflect.
LEMMA AfterSeen ==
  ASSUME TInv, TInv', NEW t \in Tasks, Again(t) \/ RunAgain(t) \/ Return(t)
  PROVE  Promise!Next
<1> USE DEF TInv, TypeOK, Go
<1>0. Step(t) /\ pc[t] = "reflect" /\ state[t] \in State /\ state'[t] \in State
  BY DEF Step, Proceed, Again, RunAgain, Return
<1>1. CASE Again(t)
  BY <1>0, <1>1, GoesOn DEF Again, Stages, Executions, Rooms, Choices, Failures
<1>2. CASE RunAgain(t)
  <2>1. /\ Stages[t] = "running" /\ Stages'[t] = "running"
        /\ Executions[t] = 1 /\ Executions'[t] = 2 /\ Rooms[t] = 0 /\ Rooms'[t] = 1
        /\ Choices'[t] = Choices[t] /\ reply'[t] = reply[t] /\ active' = active
    BY <1>0, <1>2 DEF RunAgain, Enter, Stages, Executions, Rooms, Choices
  <2>2. Failures'[t] \in BOOLEAN
    BY <1>0, StateFields DEF Failures
  <2>3. Promise!ExecuteAgain(t)
    BY <1>0, <2>1, <2>2, SeenElsewhere DEF Promise!ExecuteAgain
  <2> QED
    BY <2>3 DEF Promise!Next
<1>3. CASE Return(t)
  <2>1. /\ Stages[t] = "running" /\ Stages'[t] = "answered"
        /\ Executions[t] = 2 /\ Executions'[t] = Executions[t] /\ Rooms'[t] = 0
        /\ Choices[t] = None /\ Choices'[t] = Choices[t]
        /\ Failures'[t] = Failures[t] /\ active' = active
    BY <1>0, <1>3
    DEF Return, Answer, SameStart, Stages, Executions, Rooms, Choices, Failures
  <2>2. reply'[t] \in {"success", "failure"} /\ (reply'[t] = "success" => ~Failures[t])
    BY <1>3 DEF Return, Answer, Failures
  <2>3. Promise!Answer(t)
    BY <1>0, <2>1, <2>2, SeenElsewhere DEF Promise!Answer
  <2> QED
    BY <2>3 DEF Promise!Next
<1> QED
  BY <1>1, <1>2, <1>3

\* Every step is one that the promise allows.
LEMMA PromiseStep ==
  TInv /\ VettedInv /\ NotFailedBefore /\ [Next]_vars
    => [Promise!Next]_(Promise!vars)
<1>1. ASSUME UNCHANGED vars PROVE UNCHANGED Promise!vars
  BY <1>1 DEF vars, run, Promise!vars, Stages, Executions, Rooms, Choices, Failures,
              GoesBack
<1>2. ASSUME TInv, TInv', NEW t \in Tasks,
             RestoreFails(t) \/ MonitorRaises(t) \/ TooManySteps(t)
      PROVE  Promise!Next
  <2>1. /\ Step(t) /\ Answer(t, "failure") /\ pc[t] \in {"restore", "monitor", "decide"}
        /\ pass' = pass /\ state' = state /\ active' = active
    BY <1>2 DEF Step, Proceed, RestoreFails, MonitorRaises, TooManySteps, SameStart
  <2> QED
    BY <1>2, <2>1, EndsInFailure
<1>3. ASSUME TInv, VettedInv, NotFailedBefore, Next PROVE Promise!Next
  <2>1. TInv'
    BY <1>3, TypeStep
  <2>2. PICK t \in Tasks : Step(t)
    BY <1>3 DEF Next, Step
  <2> QED
    BY <1>2, <1>3, <2>1, <2>2, RequestSeen, BeforeSeen, ExecuteSeen, FallbackSeen,
       AfterSeen DEF Step, Proceed
<1> QED
  BY <1>1, <1>3

LEMMA NotFailedStep == TInv /\ NotFailedBefore /\ [Next]_vars => NotFailedBefore'
<1>1. ASSUME NotFailedBefore, UNCHANGED vars PROVE NotFailedBefore'
  BY <1>1 DEF vars, run, NotFailedBefore
<1>2. ASSUME TInv, NotFailedBefore, NEW t \in Tasks, Step(t),
             pc'[t] \in {"idle", "restore"}
      PROVE  ~state'[t].error
  <2> USE <1>2 DEF TInv, TypeOK, Go, Answer, Enter
  <2>1. CASE Identify(t) \/ Choose(t)
    BY <2>1 DEF Identify, Choose, Asks, NotFailedBefore
  <2>2. CASE Start(t) \/ IdentifiesNothing(t) \/ Restore(t) \/ RestoreFails(t)
    BY <2>2 DEF Start, IdentifiesNothing, Restore, RestoreFails
  <2>3. CASE Monitor(t) \/ MonitorRaises(t) \/ TooManySteps(t) \/ Execute(t)
             \/ Fallback(t) \/ Again(t) \/ RunAgain(t) \/ Return(t)
    BY <2>3 DEF Monitor, MonitorRaises, TooManySteps, Execute, Fallback, Again,
                RunAgain, Return
  <2>4. CASE DecideSkips(t) \/ Decide(t) \/ PlannerRaises(t)
    BY <2>4 DEF DecideSkips, Decide, PlannerRaises, Routed
  <2> QED
    BY <2>1, <2>2, <2>3, <2>4 DEF Step, Proceed
<1>3. ASSUME TInv, NotFailedBefore, NEW t \in Tasks, Step(t) PROVE NotFailedBefore'
  BY <1>2, <1>3, Elsewhere DEF NotFailedBefore
<1> QED
  BY <1>1, <1>3 DEF Next, Step

(* Any number of runs and reversals, in either assembly of the graph, with *)
(* any planner and any refused snapshots, implement the promise.           *)
THEOREM RefinesPromise == Spec => KeepsPromise
<1>1. Init => VettedInv /\ NotFailedBefore
  BY DEF Init, VettedInv, NotFailedBefore, Fresh
<1> QED
  BY <1>1, TypeInit, TypeStep, VettedStep, NotFailedStep, PromiseInit, PromiseStep, PTL
  DEF Spec, KeepsPromise, Promise!Spec
=============================================================================
