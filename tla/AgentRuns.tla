------------------------------ MODULE AgentRuns -----------------------------
(***************************************************************************)
(* Runs and reversals of the agent: the five nodes of its graph            *)
(* (src/langgraph_nodes.py), the controller that runs the graph            *)
(* (src/core/agent_lifecycle_controller.py), the manager that restarts it  *)
(* from a snapshot (src/core/reversibility/reversal_manager.py) and the    *)
(* engine that applies an action (src/core/execution_engine.py).           *)
(*                                                                         *)
(* A task is one request: a start of the agent, or a reversal.  Tasks      *)
(* share the event loop, the snapshot store and the engine; a node is one  *)
(* step of one task.  What a node awaits in the middle changes nothing     *)
(* that another task reads there, the snapshot before the engine's call    *)
(* excepted: no request of this model tells it from one taken a step       *)
(* later.                                                                  *)
(*                                                                         *)
(* A state of the graph is what routing and execution read: the decision   *)
(* (kfm_action), error and done.  A snapshot is the state it holds and the *)
(* flow (original_correlation_id) it was taken in; of the order in which   *)
(* snapshots were stored only that of the tagged ones is read.             *)
(***************************************************************************)
EXTENDS Integers, Sequences

CONSTANTS
  Starts,        \* requests to start the agent; each is the name of its flow
  Flows,         \* the flows a reversal may be asked for, started or not
  Reverts,       \* requests to revert
  ById,          \* the request to revert to a snapshot given by its name
  Components,    \* what a decision may name
  Registered,    \* those the engine's registry has
  Default,       \* the one active at first: the default, or the first of them
  Decisions,     \* what the planner may answer
  Nobody,        \* no component
  None,          \* kfm_action not set; no snapshot chosen
  MaxLoops,      \* rounds after which the graph's step limit is reached
  MaxRefusals,   \* bound on the snapshots that cannot be stored or read
  MaxFucks       \* bound: with this many tagged snapshots no Fuck is decided

Tasks == Starts \cup Reverts

(* A confidence is below the threshold ("low", and 0.0) or not ("high").   *)
Decision == [action     : {"Kill", "Fuck", "Marry", "No Action"},
             component  : Components \cup {Nobody},
             confidence : {"missing", "low", "high"},
             errorInfo  : BOOLEAN]

State == [decision : Decision \cup {None}, error : BOOLEAN, done : BOOLEAN]

Snapshot == [flow : Starts, state : State]

ASSUME AgentAssumption ==
  /\ Starts \cap Reverts = {} /\ Starts \subseteq Flows /\ ById \notin Flows
  /\ Registered \subseteq Components /\ Nobody \notin Components
  /\ Default \in Registered \cup {Nobody}
  /\ Decisions \subseteq Decision /\ None \notin Decision \cup Snapshot
  /\ MaxLoops \in Nat \ {0} /\ MaxRefusals \in Nat /\ MaxFucks \in Nat

VARIABLES
  assembly,   \* the edges after reflect: "single" ends, "looping" may go back
  request,    \* what a reversal asks for: the last Fuck of a flow, or ById
  pc,         \* the node a task is about to run
  pass,       \* which of the two executions of the graph a run is in
  state,      \* the state of the graph in that execution
  entry,      \* the snapshot a run starts from
  loops,      \* rounds completed in that execution
  planned,    \* history: was the planner asked in that execution?
  reply,      \* the outcome a task has reported
  active,     \* the component the engine has active
  saved,      \* the snapshots stored
  tagged,     \* those tagged as taken before a Fuck, oldest first
  untagged,   \* history: flows in which such a snapshot was refused
  refusals    \* the snapshots refused so far

run   == <<pc, pass, state, entry, loops, planned, reply>>
store == <<saved, tagged, untagged, refusals>>
vars  == <<assembly, request, run, active, store>>

Nodes == {"monitor", "decide", "execute", "fallback", "reflect"}
-----------------------------------------------------------------------------
Fresh == [decision |-> None, error |-> FALSE, done |-> FALSE]

\* What the nodes put in place of a decision: no planner answer, a rejected one.
NoAnswer(info) == [action |-> "No Action", component |-> Nobody,
                   confidence |-> "low", errorInfo |-> info]
Rejected == [action |-> "No Action", component |-> Nobody,
             confidence |-> "high", errorInfo |-> FALSE]

IsFuck(d) == d # None /\ d.action = "Fuck"

(* should_fallback answers "execute".                                      *)
Vetted(d) == d # None /\ d.confidence = "high" /\ ~d.errorInfo

Of(t, s) == [flow |-> entry[t].flow, state |-> s]

Init == /\ assembly \in {"single", "looping"}
        /\ request = [t \in Tasks |-> None]
        /\ pc = [t \in Tasks |-> "idle"]
        /\ pass = [t \in Tasks |-> "stream"]
        /\ state = [t \in Tasks |-> Fresh]
        /\ entry = [t \in Tasks |-> None]
        /\ loops = [t \in Tasks |-> 0]
        /\ planned = [t \in Tasks |-> FALSE]
        /\ reply = [t \in Tasks |-> "none"]
        /\ active = Default
        /\ saved = {} /\ tagged = <<>> /\ untagged = {} /\ refusals = 0
-----------------------------------------------------------------------------
(* Steps of a run that several actions share.                              *)

Go(t, node) == pc' = [pc EXCEPT ![t] = node]

Answer(t, outcome) == /\ Go(t, "ended")
                      /\ reply' = [reply EXCEPT ![t] = outcome]

Becomes(t, s) == state' = [state EXCEPT ![t] = s]

(* An execution of the graph begins, with the state the run starts from.   *)
Enter(t, s) == /\ Go(t, "monitor")
               /\ Becomes(t, s)
               /\ loops' = [loops EXCEPT ![t] = 0]
               /\ planned' = [planned EXCEPT ![t] = FALSE]

(* n of the snapshots a node takes are refused, those of got are stored.   *)
Keeps(got, n) == /\ refusals + n <= MaxRefusals
                 /\ refusals' = refusals + n
                 /\ saved' = saved \cup got

Stored(n, s) == IF n = 0 THEN {s} ELSE {}

SameStart == UNCHANGED <<pass, entry, loops>>
SameTags  == UNCHANGED <<tagged, untagged>>
-----------------------------------------------------------------------------
(* Requests: start_new_run, and the two requests for a reversal.           *)

Start(t) ==
  /\ t \in Starts /\ pc[t] = "idle"
  /\ entry' = [entry EXCEPT ![t] = [flow |-> t, state |-> Fresh]]
  /\ Enter(t, Fresh)
  /\ UNCHANGED <<assembly, request, pass, reply, active, store>>

\* Defect: the flow of a snapshot is not compared.
MatchingAny(f) == DOMAIN tagged

Matching(f) == {i \in DOMAIN tagged : tagged[i].flow = f}

Asks(t, what) == /\ t \in Reverts /\ pc[t] = "idle"
                 /\ request' = [request EXCEPT ![t] = what]

(* The newest match is taken, or an older one when the manifests after it  *)
(* cannot be read.                                                         *)
Identify(t) ==
  /\ \E f \in Flows :
       /\ Asks(t, f)
       /\ \E i \in Matching(f), n \in {0, 1} :
            /\ n = 0 => \A j \in Matching(f) : j <= i
            /\ Keeps({}, n)
            /\ entry' = [entry EXCEPT ![t] = tagged[i]]
  /\ Go(t, "restore")
  /\ UNCHANGED <<assembly, pass, state, loops, planned, reply, active,
                 tagged, untagged>>

NothingToRestore(t) ==
  \E f \in Flows, n \in {0, 1} :
    /\ Asks(t, f)
    /\ n = 0 => Matching(f) = {}
    /\ Keeps({}, n)

(* No match, or the manifests cannot be listed or read.                    *)
IdentifiesNothing(t) ==
  /\ NothingToRestore(t)
  /\ Answer(t, "failure")
  /\ UNCHANGED <<assembly, pass, state, entry, loops, planned, active,
                 tagged, untagged>>

Choose(t) ==
  /\ Asks(t, ById)
  /\ \E s \in saved : entry' = [entry EXCEPT ![t] = s]
  /\ Go(t, "restore")
  /\ UNCHANGED <<assembly, pass, state, loops, planned, reply, active, store>>

(* Nothing is stopped: current_execution_task is never assigned.           *)
Restore(t) ==
  /\ pc[t] = "restore"
  /\ Enter(t, entry[t].state)
  /\ UNCHANGED <<assembly, request, pass, entry, reply, active, store>>

RestoreFails(t) ==
  /\ pc[t] = "restore"
  /\ Keeps({}, 1)
  /\ Answer(t, "failure")
  /\ UNCHANGED <<assembly, request, pass, state, entry, loops, planned,
                 active, tagged, untagged>>
-----------------------------------------------------------------------------
(* The nodes.                                                              *)

Monitor(t) ==
  /\ pc[t] = "monitor"
  /\ \E n \in {0, 1} :
       LET error == state[t].error \/ n = 1 IN
       /\ Keeps(Stored(n, Of(t, state[t])), n)
       /\ Becomes(t, [state[t] EXCEPT !.error = error,
                                      !.done = error /\ @])
  /\ Go(t, "decide")
  /\ SameStart /\ SameTags
  /\ UNCHANGED <<assembly, request, planned, reply, active>>

(* An exception that leaves a node (here StateMonitor's) ends the run.     *)
MonitorRaises(t) ==
  /\ pc[t] = "monitor" /\ ~state[t].error
  /\ Keeps({Of(t, state[t])}, 0)
  /\ Answer(t, "failure")
  /\ SameStart /\ SameTags
  /\ UNCHANGED <<assembly, request, state, planned, active>>

(* LangGraph's limit on the steps of one execution.                        *)
TooManySteps(t) ==
  /\ pc[t] = "decide" /\ loops[t] = MaxLoops
  /\ Answer(t, "failure")
  /\ SameStart
  /\ UNCHANGED <<assembly, request, state, planned, active, store>>

\* Defect: an error the planner reports beside a confident decision is let by.
RoutedByConfidence(t, d) ==
  Go(t, IF d # None /\ d.confidence = "high" THEN "execute" ELSE "fallback")

Routed(t, d) == Go(t, IF Vetted(d) THEN "execute" ELSE "fallback")

\* Defect: the copy made before the entry snapshot failed is returned.
DecideSkipsWithOldCopy(t) ==
  /\ pc[t] = "decide" /\ loops[t] < MaxLoops
  /\ \E n \in {0, 1} :
       LET error == state[t].error \/ n = 1
           d == IF state[t].decision = None THEN NoAnswer(error)
                                            ELSE state[t].decision IN
       /\ error \/ state[t].done
       /\ Keeps(Stored(n, Of(t, state[t])), n)
       /\ Becomes(t, [state[t] EXCEPT !.decision = d, !.error = FALSE])
       /\ Routed(t, d)
  /\ SameStart /\ SameTags
  /\ UNCHANGED <<assembly, request, planned, reply, active>>

(* After an error the planner is not asked, and a decision that the state  *)
(* came with stays.  An entry snapshot that raises is such an error.       *)
DecideSkips(t) ==
  /\ pc[t] = "decide" /\ loops[t] < MaxLoops
  /\ \E n \in {0, 1} :
       LET error == state[t].error \/ n = 1
           d == IF state[t].decision = None THEN NoAnswer(error)
                                            ELSE state[t].decision IN
       /\ error \/ state[t].done
       /\ Keeps(Stored(n, Of(t, state[t])), n)
       /\ Becomes(t, [state[t] EXCEPT !.decision = d, !.error = error])
       /\ Routed(t, d)
  /\ SameStart /\ SameTags
  /\ UNCHANGED <<assembly, request, planned, reply, active>>

\* Defect: a flow that has a tagged snapshot gets no other.
TagOnce(t, d, n) ==
  LET s == Of(t, [state[t] EXCEPT !.decision = d])
      first == Matching(entry[t].flow) = {} IN
  /\ tagged' = IF IsFuck(d) /\ n = 0 /\ first THEN Append(tagged, s)
                                              ELSE tagged
  /\ untagged' = IF IsFuck(d) /\ n = 1 THEN untagged \cup {entry[t].flow}
                                       ELSE untagged

(* The snapshot after the planner, when it has decided a Fuck.             *)
Tag(t, d, n) ==
  LET s == Of(t, [state[t] EXCEPT !.decision = d]) IN
  /\ tagged' = IF IsFuck(d) /\ n = 0 THEN Append(tagged, s) ELSE tagged
  /\ untagged' = IF IsFuck(d) /\ n = 1 THEN untagged \cup {entry[t].flow}
                                       ELSE untagged

(* For an entry snapshot that is refused with None there is only a warning. *)
Decide(t) ==
  /\ pc[t] = "decide" /\ loops[t] < MaxLoops
  /\ ~state[t].error /\ ~state[t].done
  /\ \E d \in Decisions, m, n \in {0, 1} :
       LET after == [state[t] EXCEPT !.decision = d] IN
       /\ IsFuck(d) => Len(tagged) < MaxFucks
       /\ Keeps(Stored(m, Of(t, state[t])) \cup Stored(n, Of(t, after)), m + n)
       /\ Tag(t, d, n)
       /\ Becomes(t, after)
       /\ Routed(t, d)
  /\ planned' = [planned EXCEPT ![t] = TRUE]
  /\ SameStart
  /\ UNCHANGED <<assembly, request, reply, active>>

(* The planner raises: the snapshot has the error, the node's result not.  *)
PlannerRaises(t) ==
  /\ pc[t] = "decide" /\ loops[t] < MaxLoops
  /\ ~state[t].error /\ ~state[t].done
  /\ \E m, n \in {0, 1} :
       LET after == [state[t] EXCEPT !.decision = NoAnswer(TRUE)] IN
       /\ Keeps(Stored(m, Of(t, state[t]))
                  \cup Stored(n, Of(t, [after EXCEPT !.error = TRUE])), m + n)
       /\ Becomes(t, after)
       /\ Routed(t, NoAnswer(TRUE))
  /\ planned' = [planned EXCEPT ![t] = TRUE]
  /\ SameStart /\ SameTags
  /\ UNCHANGED <<assembly, request, reply, active>>

(* apply_kfm_action: only these two actions name a new active component.   *)
Applied(d) == IF d.action \in {"Fuck", "Marry"} /\ d.component \in Registered
              THEN d.component ELSE active

\* Defect: the exception is logged and the state goes on as it was.
ExceptionSwallowed(s) == s

(* The engine answers with a dict, of which the node reads the attribute   *)
(* status: whatever the engine did, the node goes on to handle an          *)
(* exception.                                                              *)
ExceptionHandled(s) == [s EXCEPT !.error = TRUE, !.done = TRUE]

Execute(t) ==
  /\ pc[t] = "execute"
  /\ LET after == ExceptionHandled(state[t]) IN
       /\ \E pre, post \in {0, 1} :
            Keeps(Stored(pre, Of(t, state[t])) \cup Stored(post, Of(t, after)),
                  pre + post)
       /\ Becomes(t, after)
  /\ active' = Applied(state[t].decision)
  /\ Go(t, "reflect")
  /\ SameStart /\ SameTags
  /\ UNCHANGED <<assembly, request, planned, reply>>

Fallback(t) ==
  /\ pc[t] = "fallback"
  /\ Becomes(t, IF state[t].decision # None
                   /\ state[t].decision.action = "No Action"
                THEN state[t] ELSE [state[t] EXCEPT !.decision = Rejected])
  /\ Go(t, "reflect")
  /\ SameStart
  /\ UNCHANGED <<assembly, request, planned, reply, active, store>>
-----------------------------------------------------------------------------
(* After reflect.                                                          *)

GoesBack(t) == assembly = "looping" /\ ~state[t].done /\ ~state[t].error

\* Defect: the rounds are not counted.
AgainUncounted(t) ==
  /\ pc[t] = "reflect" /\ GoesBack(t)
  /\ Go(t, "monitor")
  /\ UNCHANGED <<assembly, request, pass, state, entry, loops, planned, reply,
                 active, store>>

Again(t) ==
  /\ pc[t] = "reflect" /\ GoesBack(t)
  /\ Go(t, "monitor")
  /\ loops' = [loops EXCEPT ![t] = @ + 1]
  /\ UNCHANGED <<assembly, request, pass, state, entry, planned, reply,
                 active, store>>

(* The controller runs the graph for its events, then for its result.      *)
RunAgain(t) ==
  /\ pc[t] = "reflect" /\ ~GoesBack(t) /\ pass[t] = "stream"
  /\ pass' = [pass EXCEPT ![t] = "invoke"]
  /\ Enter(t, entry[t].state)
  /\ UNCHANGED <<assembly, request, entry, reply, active, store>>

Return(t) ==
  /\ pc[t] = "reflect" /\ ~GoesBack(t) /\ pass[t] = "invoke"
  /\ Answer(t, IF state[t].error THEN "failure" ELSE "success")
  /\ SameStart
  /\ UNCHANGED <<assembly, request, state, planned, active, store>>

Proceed(t) ==
  \/ Restore(t) \/ RestoreFails(t)
  \/ Monitor(t) \/ MonitorRaises(t) \/ TooManySteps(t)
  \/ DecideSkips(t) \/ Decide(t) \/ PlannerRaises(t)
  \/ Execute(t) \/ Fallback(t)
  \/ Again(t) \/ RunAgain(t) \/ Return(t)

Next == \E t \in Tasks :
          \/ Start(t) \/ Identify(t) \/ IdentifiesNothing(t) \/ Choose(t)
          \/ Proceed(t)

(* Nothing asks for a run or a reversal; a run once begun is driven on by  *)
(* the event loop.                                                         *)
Spec == Init /\ [][Next]_vars /\ \A t \in Tasks : WF_vars(Proceed(t))
-----------------------------------------------------------------------------
(* Every variable has its type; a task has a snapshot to start from as     *)
(* soon as it is past its request.                                         *)
TypeOK ==
  /\ assembly \in {"single", "looping"}
  /\ request \in [Tasks -> Flows \cup {ById, None}]
  /\ pc \in [Tasks -> Nodes \cup {"idle", "restore", "ended"}]
  /\ pass \in [Tasks -> {"stream", "invoke"}]
  /\ state \in [Tasks -> State]
  /\ entry \in [Tasks -> Snapshot \cup {None}]
  /\ loops \in [Tasks -> 0 .. MaxLoops]
  /\ planned \in [Tasks -> BOOLEAN]
  /\ reply \in [Tasks -> {"none", "success", "failure"}]
  /\ active \in Registered \cup {Nobody}
  /\ saved \subseteq Snapshot
  /\ tagged \in Seq(Snapshot)
  /\ untagged \subseteq Starts
  /\ refusals \in 0 .. MaxRefusals
  /\ \A t \in Tasks : pc[t] \in Nodes \cup {"restore"} => entry[t] # None

(* Requests as their promise sees them.  An execution of the graph may     *)
(* apply a decision until it has come to reflect and does not go back.     *)
Stages == [t \in Tasks |-> CASE pc[t] = "idle"  -> "waiting"
                             [] pc[t] = "ended" -> "answered"
                             [] OTHER           -> "running"]

Executions == [t \in Tasks |-> IF pass[t] = "stream" THEN 1 ELSE 2]

Rooms == [t \in Tasks |->
            IF pc[t] \in {"idle", "ended"} \/ (pc[t] = "reflect" /\ ~GoesBack(t))
            THEN 0 ELSE 1]

Choices == [t \in Tasks |-> IF pc[t] = "execute" THEN state[t].decision
                                                 ELSE None]

Failures == [t \in Tasks |-> state[t].error]

Promise == INSTANCE RunPromise WITH
  Requests <- Tasks, MaxExecutions <- 2, Initial <- Default, Nothing <- None,
  Fit <- {d \in Decision : Vetted(d)}, stage <- Stages, execution <- Executions,
  room <- Rooms, chosen <- Choices, failed <- Failures, answer <- reply

(* Runs and reversals implement the promise: two executions of the graph   *)
(* (_execute_run_internal), each of which gives the engine one decision at *)
(* most and only one that should_fallback lets by; no success after a      *)
(* failure.                                                                *)
KeepsPromise == Promise!Spec

Executes(t) == pc[t] = "execute" /\ pc'[t] # "execute"

(* No decision reaches the engine with a low confidence, with an error of  *)
(* the planner's or missing, wherever the state came from: the planner,    *)
(* a snapshot or a failed node; and nothing else changes the active        *)
(* component (should_fallback).                                            *)
OnlyVettedActions ==
  [][/\ \A t \in Tasks : Executes(t) => Vetted(state[t].decision)
     /\ active' # active => \E t \in Tasks : Executes(t)]_vars

Before(t) == {i \in DOMAIN tagged : /\ tagged[i].flow = entry[t].flow
                                    /\ tagged[i].state.decision
                                         = state[t].decision}

(* When the engine is given a Fuck, its flow has a tagged snapshot with    *)
(* that very decision, which a reversal can find, unless the store refused *)
(* to take one (kfm_decision_node's snapshot after the planner).           *)
FucksAreReversible ==
  [][\A t \in Tasks : Executes(t) /\ IsFuck(state[t].decision)
       => Before(t) # {} \/ entry[t].flow \in untagged]_vars

(* An error a node has handed on is not lost before the execution of the   *)
(* graph ends, and a run that ends with one is not reported as a success.  *)
ErrorsSurface ==
  [][\A t \in Tasks :
       /\ state[t].error /\ pc[t] \in Nodes /\ pass'[t] = pass[t]
            => state'[t].error
       /\ state[t].error /\ pc[t] \in Nodes => reply'[t] # "success"]_vars

(* A request to revert the last Fuck of a flow restarts the agent from a   *)
(* state of that flow in which a Fuck was decided and nothing had failed   *)
(* (identify_pre_fuck_action_snapshot_id).                                 *)
RevertsOwnFuck ==
  \A t \in Reverts : request[t] \notin {ById, None} /\ entry[t] # None
     => /\ entry[t].flow = request[t]
        /\ IsFuck(entry[t].state.decision)
        /\ ~entry[t].state.error /\ ~entry[t].state.done

(* Every request that has been taken up is answered: no assembly of the    *)
(* graph keeps a run going for ever.                                       *)
Answered == \A t \in Tasks : pc[t] # "idle" ~> pc[t] = "ended"

(* A reversal evaluates its restored state anew: what it executes the      *)
(* planner has decided in the same execution of the graph.                 *)
ReversalsReplan ==
  [][\A t \in Reverts : Executes(t) => planned[t]]_vars
=============================================================================
