----------------------------- MODULE RunPromise -----------------------------
(***************************************************************************)
(* What the agent promises about a request, a start or a reversal,         *)
(* whatever nodes, edges and snapshots its runs are made of: a request is  *)
(* refused or taken up; its graph is executed a bounded number of times;   *)
(* each execution applies at most one decision, and none that is not fit;  *)
(* nothing else touches the engine; the request is answered once, and not  *)
(* as a success when the last execution has failed.                        *)
(***************************************************************************)
EXTENDS Naturals

CONSTANTS
  Requests,       \* the requests that may be made
  MaxExecutions,  \* executions of the graph for one request
  Fit,            \* the decisions the engine may be given
  Initial,        \* the component that is active at first
  Nothing         \* no decision

VARIABLES
  stage,      \* where a request is: waiting, running, or answered
  execution,  \* which execution of the graph it is in
  room,       \* how many decisions this execution may still apply
  chosen,     \* the decision about to be applied
  failed,     \* has this execution failed?
  answer,     \* what was answered
  active      \* the engine's component

vars == <<stage, execution, room, chosen, failed, answer, active>>

Init == /\ stage = [r \in Requests |-> "waiting"]
        /\ execution = [r \in Requests |-> 1]
        /\ room = [r \in Requests |-> 0]
        /\ chosen = [r \in Requests |-> Nothing]
        /\ failed = [r \in Requests |-> FALSE]
        /\ answer = [r \in Requests |-> "none"]
        /\ active = Initial

\* An execution may fail at any step; only the next one starts without that.
MayFail(r) == failed' \in {failed, [failed EXCEPT ![r] = TRUE]}

Refuse(r) == /\ stage[r] = "waiting"
             /\ stage' = [stage EXCEPT ![r] = "answered"]
             /\ answer' = [answer EXCEPT ![r] = "failure"]
             /\ UNCHANGED <<execution, room, chosen, failed, active>>

TakeUp(r) == /\ stage[r] = "waiting"
             /\ stage' = [stage EXCEPT ![r] = "running"]
             /\ room' = [room EXCEPT ![r] = 1]
             /\ UNCHANGED <<execution, chosen, failed, answer, active>>

Fail(r) == /\ stage[r] = "running" /\ MayFail(r)
           /\ UNCHANGED <<stage, execution, room, chosen, answer, active>>

Choose(r) == /\ stage[r] = "running" /\ room[r] > 0 /\ chosen[r] = Nothing
             /\ \E d \in Fit : chosen' = [chosen EXCEPT ![r] = d]
             /\ MayFail(r)
             /\ UNCHANGED <<stage, execution, room, answer, active>>

\* The engine has the decision's component afterwards, or the one it had.
Apply(r) == /\ stage[r] = "running" /\ room[r] > 0 /\ chosen[r] # Nothing
            /\ active' \in {active, chosen[r].component}
            /\ room' = [room EXCEPT ![r] = 0]
            /\ chosen' = [chosen EXCEPT ![r] = Nothing]
            /\ MayFail(r)
            /\ UNCHANGED <<stage, execution, answer>>

\* An execution comes to its end without having applied anything.
PassUp(r) == /\ stage[r] = "running" /\ chosen[r] = Nothing
             /\ room' = [room EXCEPT ![r] = 0]
             /\ MayFail(r)
             /\ UNCHANGED <<stage, execution, chosen, answer, active>>

ExecuteAgain(r) == /\ stage[r] = "running" /\ room[r] = 0
                   /\ execution[r] < MaxExecutions
                   /\ execution' = [execution EXCEPT ![r] = @ + 1]
                   /\ room' = [room EXCEPT ![r] = 1]
                   /\ \E b \in BOOLEAN : failed' = [failed EXCEPT ![r] = b]
                   /\ UNCHANGED <<stage, chosen, answer, active>>

Answer(r) == /\ stage[r] = "running" /\ chosen[r] = Nothing
             /\ stage' = [stage EXCEPT ![r] = "answered"]
             /\ \E a \in {"success", "failure"} :
                  /\ a = "success" => ~failed[r] /\ execution[r] = MaxExecutions
                  /\ answer' = [answer EXCEPT ![r] = a]
             /\ room' = [room EXCEPT ![r] = 0]
             /\ UNCHANGED <<execution, chosen, failed, active>>

Next == \E r \in Requests :
          \/ Refuse(r) \/ TakeUp(r) \/ Fail(r) \/ Choose(r) \/ Apply(r)
          \/ PassUp(r) \/ ExecuteAgain(r) \/ Answer(r)

Spec == Init /\ [][Next]_vars
=============================================================================
