------------------------- MODULE MCExecutionRecovery --------------------------
(***************************************************************************)
(* Three nodes, the second writing in place and the first with a result    *)
(* that JSON may be unable to write; a policy of each kind but the         *)
(* default one, and a checkpoint to roll back to or none.                  *)
(***************************************************************************)
EXTENDS ExecutionRecovery

Plain(m) == [mode |-> m, max |-> 1, categories |-> FALSE, target |-> FALSE,
             fallback |-> FALSE, custom |-> None]

MCPolicies ==
  {Plain("retry"), Plain("substitute"), Plain("skip"),
   [Plain("retry") EXCEPT !.categories = TRUE],
   [Plain("rollback") EXCEPT !.target = TRUE],
   [Plain("rollback") EXCEPT !.custom = "skip"],
   [Plain("partial") EXCEPT !.custom = "retry"],
   [Plain("substitute") EXCEPT !.fallback = TRUE]}
=============================================================================
