-------------------------- MODULE MCComponentRegistry -------------------------
(***************************************************************************)
(* Two names, one of them in two versions.                                 *)
(***************************************************************************)
EXTENDS ComponentRegistry

CONSTANTS planner, tool, s, t

MCModules == {<<planner, 1>>, <<planner, 2>>, <<tool, 1>>}
=============================================================================
