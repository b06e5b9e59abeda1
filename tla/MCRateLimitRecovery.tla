------------------------ MODULE MCRateLimitRecovery -------------------------
(* Instances of RateLimitRecovery for TLC: every retry has the default     *)
(* priority NORMAL and no put timeout, as handle_rate_limit_error passes.  *)
EXTENDS RateLimitRecovery, TLC

MCRequests == Callers \X (1..MaxAttempts)
MCPriority == [r \in Callers \X (1..MaxAttempts) |-> 1]

=============================================================================
