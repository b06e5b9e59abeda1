--------------------------- MODULE MCRequestQueue ---------------------------
(* Instances of RequestQueue for TLC: two requests of normal priority, one *)
(* of them with a put timeout, and a critical one.                         *)
EXTENDS RequestQueue, TLC

CONSTANTS r1, r2, r3

MCPriority == (r1 :> 1) @@ (r2 :> 1) @@ (r3 :> 3)

=============================================================================
