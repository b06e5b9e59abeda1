-------------------------- MODULE ExecutionRecovery ---------------------------
(***************************************************************************)
(* Running a graph with recovery: with_recovery and                        *)
(* resume_execution_from_node of src/recovery.py, RecoveryManager's        *)
(* handle_error, and the snapshots of src/tracing.py that a rollback       *)
(* returns to.                                                             *)
(*                                                                         *)
(* The nodes 1..N run in order on one state.  Of the state only this is    *)
(* kept: what each node has made of its part, the node named in the error  *)
(* fields, and whether a value in it cannot be written as JSON.  A         *)
(* rollback hands out the checkpoint's own dictionary: `alias` says that   *)
(* the current state is that very object.  The checkpoint is the one that  *)
(* the caller made before the runs and named in the policies.              *)
(***************************************************************************)
EXTENDS Integers

CONSTANTS N,         \* how many nodes the graph has
          Policies,  \* recovery policies, see PolicyType
          InPlace,   \* the nodes that write into the state they are given
          Odd,       \* the nodes whose result JSON may be unable to write
          None,      \* no node, no custom handler
          Missing,   \* the checkpoint is not there
          MaxRuns    \* bound: runs and resumptions

Nodes == 1..N
Modes == {"abort", "retry", "rollback", "skip", "substitute", "partial"}

PolicyType ==
  [mode : Modes,
   max : Nat,              \* max_retries
   categories : BOOLEAN,   \* error_categories is not empty
   target : BOOLEAN,       \* rollback_checkpoint_id is given
   fallback : BOOLEAN,     \* fallback_function is given
   custom : Modes \cup {None}]  \* what custom_handler answers

ASSUME RecoveryAssumption == /\ N \in Nat \ {0} /\ MaxRuns \in Nat
                             /\ Policies \subseteq PolicyType
                             /\ InPlace \subseteq Nodes /\ Odd \subseteq Nodes
                             /\ None \notin Modes /\ None \notin Nodes

VARIABLES policy,   \* recovery_policies, in effect of each node
          default,  \* the run uses them; a resumption has the default policy
          pc,       \* where the run stands
          at, first,  \* the node at hand, and the one the run began with
          cur,      \* current_state
          before,   \* node_state_before
          alias,    \* current_state is the dictionary of the checkpoint
          ckpt, file,  \* the checkpoint in the tracker's memory and on disk
          tries,    \* retry_count of the loop
          counter,  \* retry_counters of the manager
          mode,     \* the recovery mode that handle_error answered
          handled,  \* what became of each node's last failure
          rolled,   \* the tracker has handed out the checkpoint it holds
          runs

runVars == <<at, first, default>>
stateVars == <<cur, before, alias>>
retryVars == <<tries, counter>>
vars == <<policy, default, pc, at, first, cur, before, alias, ckpt, file, tries,
          counter, mode, handled, rolled, runs>>

States == [made : [Nodes -> {"nothing", "half", "full", "substitute"}],
           err : Nodes \cup {None}, raw : BOOLEAN]

ASSUME MissingAssumption == Missing \notin States

Empty == [made |-> [n \in Nodes |-> "nothing"], err |-> None, raw |-> FALSE]

\* The caller has made the checkpoint; writing its file may have failed.
Init == /\ policy \in [Nodes -> Policies] /\ default = FALSE
        /\ pc = "idle" /\ at = 1 /\ first = 1
        /\ cur = Empty /\ before = Empty /\ alias = FALSE
        /\ ckpt = Empty /\ file \in {Empty, Missing}
        /\ tries = 0 /\ counter = [n \in Nodes |-> 0]
        /\ mode = None /\ handled = [n \in Nodes |-> "none"]
        /\ rolled = FALSE /\ runs = 0

\* get_policy: a resumption has a manager of its own, without any policy.
AbortPolicy == [mode |-> "abort", max |-> 0, categories |-> FALSE, target |-> FALSE,
                fallback |-> FALSE, custom |-> None]
Policy(n) == IF default THEN AbortPolicy ELSE policy[n]

\* The current state becomes another object, or is written where it stands.
Becomes(c) == cur' = c /\ alias' = FALSE /\ UNCHANGED ckpt
Written(c) == /\ cur' = c /\ UNCHANGED alias
              /\ ckpt' = IF alias THEN c ELSE ckpt

\* A checkpoint of a state that JSON cannot write raises out of the run.
CheckpointThen(c, where) == pc' = IF c.raw THEN "raised" ELSE where
-----------------------------------------------------------------------------
(* Starting, and going from node to node.                                  *)

Ended == pc \in {"idle", "complete", "aborted", "raised"}

\* with_recovery on a fresh state: a new manager and its first checkpoints.
Start == /\ Ended /\ runs < MaxRuns /\ runs' = runs + 1
         /\ default' = FALSE /\ at' = 1 /\ first' = 1 /\ pc' = "node"
         /\ Becomes(Empty) /\ UNCHANGED before
         /\ tries' = 0 /\ counter' = [n \in Nodes |-> 0]
         /\ handled' = [n \in Nodes |-> "none"]
         /\ UNCHANGED <<policy, file, mode, rolled>>

\* resume_execution_from_node on what the last run returned.
Resume(n) == /\ pc \in {"complete", "aborted"} /\ runs < MaxRuns /\ runs' = runs + 1
             /\ default' = TRUE /\ at' = n /\ first' = n
             /\ CheckpointThen(cur, "node")
             /\ Becomes(cur) /\ UNCHANGED before
             /\ tries' = 0 /\ counter' = [m \in Nodes |-> 0]
             /\ handled' = [m \in Nodes |-> IF m < n THEN handled[m] ELSE "none"]
             /\ UNCHANGED <<policy, file, mode, rolled>>

\* After the node: its checkpoint, and the next node's, or the final one.  A
\* resumption makes none.
Advance == /\ pc = "executed"
           /\ IF default THEN pc' = IF at = N THEN "complete" ELSE "node"
              ELSE CheckpointThen(cur, IF at = N THEN "complete" ELSE "node")
           /\ at' = IF at = N THEN at ELSE at + 1
           /\ tries' = 0
           /\ counter' = [counter EXCEPT ![at'] = IF default \/ at = N THEN @ ELSE 0]
           /\ UNCHANGED <<policy, default, first, stateVars, ckpt, file, mode, handled,
                          rolled, runs>>
-----------------------------------------------------------------------------
(* One try of the node.                                                    *)

\* What the node may make of the state when it returns.
Results(n) == {[cur EXCEPT !.made[n] = "full", !.raw = odd] :
                 odd \in {cur.raw} \cup {o \in {TRUE} : n \in Odd}}

NodeReturns(n) == /\ before' = cur
                  /\ \E c \in Results(n) : IF n \in InPlace THEN Written(c) ELSE Becomes(c)

\* A node that writes in place may be half way when it raises.
NodeRaises(n) == /\ before' = cur
                 /\ \/ Written(cur)
                    \/ n \in InPlace /\ Written([cur EXCEPT !.made[n] = "half"])

\* The failed try is put on record with the state before it, or, in a
\* resumption, with the current one; recording an odd state raises again.
Failed == IF (IF default THEN cur' ELSE before').raw
          THEN pc' = "raised" ELSE pc' = "failed"

\* The result is on record, and so is whether the node failed before.
Succeeded == /\ ~cur'.raw /\ pc' = "executed" /\ UNCHANGED tries
             /\ handled' = [handled EXCEPT ![at] = IF tries = 0 THEN "none" ELSE "recovered"]

\* Defect: a try is counted only when the node's result was refused.
TryUncounted ==
  /\ pc = "node" /\ tries <= Policy(at).max
  /\ \/ NodeReturns(at) /\ Succeeded
     \/ /\ NodeReturns(at) /\ cur'.raw
        /\ Failed /\ tries' = tries + 1 /\ UNCHANGED handled
     \/ NodeRaises(at) /\ Failed /\ UNCHANGED <<tries, handled>>
  /\ UNCHANGED <<policy, default, at, first, file, counter, mode, rolled, runs>>
\* A result that cannot be put on record fails like a node that raised, with the
\* result kept as the current state.
Try == /\ pc = "node" /\ tries <= Policy(at).max
       /\ \/ NodeReturns(at) /\ Succeeded
          \/ /\ (NodeReturns(at) /\ cur'.raw) \/ NodeRaises(at)
             /\ Failed /\ tries' = tries + 1 /\ UNCHANGED handled
       /\ UNCHANGED <<policy, default, at, first, file, counter, mode, rolled, runs>>
-----------------------------------------------------------------------------
(* handle_error, and what the loop does with its answer.                   *)

\* A state with the error fields of the node at hand.
Flagged(c) == [c EXCEPT !.err = at]

\* Tries are left when the answer is RETRY; ABORT returns; anything else, a
\* RETRY out of tries too, goes on with the next node.
Answer(m, what) ==
  /\ mode' = m /\ handled' = [handled EXCEPT ![at] = what]
  /\ pc' = IF m = "retry" /\ tries <= Policy(at).max THEN "node"
           ELSE IF m = "abort" THEN "aborted" ELSE "executed"

\* Defect: one retry more than the policy has.
CanRetryOnceMore(n) == counter[n] <= Policy(n).max
CanRetry(n) == counter[n] < Policy(n).max

\* The custom handler answers with the state it was given; the loop fills in
\* the error only where there is none.
CustomAnswers == /\ Policy(at).custom # None
                 /\ Written(IF cur.err = None THEN Flagged(cur) ELSE cur)
                 /\ Answer(Policy(at).custom, "custom")
                 /\ UNCHANGED <<counter, rolled>>

\* An error of one of the policy's categories is answered with the bare mode.
CategoryMatches == /\ Policy(at).categories
                   /\ Becomes(Flagged(cur))
                   /\ Answer(Policy(at).mode, "category")
                   /\ UNCHANGED <<counter, rolled>>

Retried == /\ Policy(at).mode = "retry" /\ CanRetry(at)
           /\ counter' = [counter EXCEPT ![at] = @ + 1]
           /\ Becomes(Flagged(cur)) /\ Answer("retry", "retry")
           /\ UNCHANGED rolled

\* What get_snapshot finds: the dictionary in memory, or the file.
Stored == IF ckpt # Missing THEN ckpt ELSE file

\* Defect: the error is not noted in what was rolled back to.
RolledBackSilently == /\ Policy(at).mode = "rollback" /\ Policy(at).target
                      /\ Stored # Missing
                      /\ cur' = Stored /\ ckpt' = cur' /\ alias' = TRUE
                      /\ Answer("rollback", "rollback")
                      /\ rolled' = TRUE /\ UNCHANGED counter
\* The checkpoint's own dictionary becomes the current state, error included.
RolledBack == /\ Policy(at).mode = "rollback" /\ Policy(at).target
              /\ Stored # Missing
              /\ cur' = Flagged(Stored) /\ ckpt' = cur' /\ alias' = TRUE
              /\ Answer("rollback", "rollback")
              /\ rolled' = TRUE /\ UNCHANGED counter

\* Defect: the fallback is written into the state that failed.
SubstitutedInPlace == /\ Policy(at).mode = "substitute"
                      /\ Written(Flagged([cur EXCEPT !.made[at] = "substitute"]))
                      /\ Answer("substitute", "substitute")
                      /\ UNCHANGED <<counter, rolled>>
\* create_fallback_state answers with a copy; a fallback function may answer with
\* the very state it was given, and the error is noted in that.
Substituted == /\ Policy(at).mode = "substitute"
               /\ LET c == Flagged([cur EXCEPT !.made[at] = "substitute"])
                  IN Becomes(c) \/ (Policy(at).fallback /\ Written(c))
               /\ Answer("substitute", "substitute")
               /\ UNCHANGED <<counter, rolled>>

PassedOver == /\ Policy(at).mode \in {"skip", "partial"}
              /\ Becomes(Flagged(cur)) /\ Answer(Policy(at).mode, Policy(at).mode)
              /\ UNCHANGED <<counter, rolled>>

\* Retries are used up, there is nothing to roll back to, the fallback raises,
\* or the policy says so.
GivenUp == /\ \/ Policy(at).mode = "abort"
              \/ Policy(at).mode = "retry" /\ ~CanRetry(at)
              \/ Policy(at).mode = "rollback" /\ (~Policy(at).target \/ Stored = Missing)
              \/ Policy(at).mode = "substitute" /\ Policy(at).fallback
           /\ Becomes(Flagged(cur)) /\ Answer("abort", "abort")
           /\ UNCHANGED <<counter, rolled>>

\* An error may be of another category, and a custom handler may raise: then
\* the mode decides.
Handle == /\ pc = "failed"
          /\ \/ CustomAnswers \/ CategoryMatches \/ Retried \/ RolledBack
             \/ Substituted \/ PassedOver \/ GivenUp
          /\ UNCHANGED <<policy, runVars, before, file, tries, runs>>

\* A new process has only the checkpoint's file.
Restart == /\ Ended /\ pc # "idle" /\ runs < MaxRuns
           /\ pc' = "idle" /\ ckpt' = Missing /\ alias' = FALSE /\ rolled' = FALSE
           /\ UNCHANGED <<policy, runVars, cur, before, file, retryVars, mode, handled,
                          runs>>

\* The runs that the bound allows are over.
Quiet == Ended /\ runs = MaxRuns /\ UNCHANGED vars

Run == Advance \/ Try \/ Handle

Next == Start \/ (\E n \in Nodes : Resume(n)) \/ Run \/ Restart \/ Quiet

Spec == Init /\ [][Next]_vars

\* One thread runs the loop, and the nodes return or raise.
FairSpec == Spec /\ WF_vars(Run)
-----------------------------------------------------------------------------
(* Properties.                                                             *)

Handlings == Modes \cup {"none", "recovered", "custom", "category"}

TypeOK == /\ policy \in [Nodes -> Policies] /\ default \in BOOLEAN
          /\ pc \in {"idle", "node", "failed", "executed", "complete", "aborted", "raised"}
          /\ at \in Nodes /\ first \in Nodes
          /\ cur \in States /\ before \in States /\ alias \in BOOLEAN
          /\ ckpt \in States \cup {Missing} /\ file \in {Empty, Missing}
          /\ tries \in Nat /\ counter \in [Nodes -> Nat]
          /\ mode \in Modes \cup {None} /\ handled \in [Nodes -> Handlings]
          /\ rolled \in BOOLEAN /\ runs \in Nat

\* A run that reaches its end has an answer for every node: its result is in
\* the state unless a later node rolled the state back, and a node that failed
\* was passed over by its policy, never by a retry that ran out: the loop's count
\* and the manager's agree unless categories or a custom handler answered some
\* of the tries (with_recovery and can_retry, src/recovery.py:746 and 274).
Accounted ==
  pc = "complete" =>
    \A n \in first..N :
      LET kept == \A m \in Nodes : m > n => handled[m] # "rollback"
      IN /\ handled[n] # "abort"
         /\ handled[n] = "retry" => policy[n].categories \/ policy[n].custom # None
         /\ handled[n] \in {"none", "recovered"} /\ kept => cur.made[n] = "full"
         /\ handled[n] = "substitute" /\ kept => cur.made[n] = "substitute"

\* The policies whose answer may be the object that failed, or the checkpoint.
Rollback(p) == p.mode = "rollback" /\ p.target
OwnFallback(p) == p.mode = "substitute" /\ p.fallback
HoldsCheckpoint(p) == Rollback(p) \/ OwnFallback(p) \/ p.custom # None

\* The marks that may be found in the checkpoint.
Marked(c) == \A n \in Nodes :
               /\ c.made[n] \in {"half", "full"} => n \in InPlace
               /\ c.made[n] = "substitute" => OwnFallback(policy[n])
               /\ c.err = n => HoldsCheckpoint(policy[n])

\* The checkpoint is as it was made until it is handed out.  From then on it holds
\* results only of nodes that write in place, substitutes only of fallback
\* functions of the caller's, never of create_fallback_state, and an error only of
\* a node that was rolled back or answered by a function of the caller's: no copy
\* that a retry, a skip or an abort makes is ever the checkpoint
\* (rollback_to_checkpoint and handle_error, src/recovery.py:198 and 430).
CheckpointMarks == ckpt # Missing => (~rolled => ckpt = Empty) /\ Marked(ckpt)

\* The state that comes back names the node that failed last, whether its error
\* was handled or not and whatever was rolled back, unless a custom handler
\* answered (handle_error, src/recovery.py:430).
LastErrorTold ==
  pc \in {"complete", "aborted"} /\ (\A n \in Nodes : policy[n].custom = None) =>
    \A n \in first..at :
      /\ handled[n] # "none"
      /\ \A m \in Nodes : m > n /\ m <= at => handled[m] = "none"
      => cur.err = n

\* Every run ends: completed, aborted or raised (the loop of with_recovery,
\* src/recovery.py:763).
RunEnds == ~Ended ~> Ended

\* "Rollback state to a previously created checkpoint" (src/recovery.py:179):
\* but for the error, the state after a rollback is the one of the checkpoint.
RollbackRestores ==
  [][pc = "failed" /\ handled' = [handled EXCEPT ![at] = "rollback"] => cur'.made = Empty.made]_vars
=============================================================================
