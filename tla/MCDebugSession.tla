---------------------------- MODULE MCDebugSession ----------------------------
(***************************************************************************)
(* Three nodes and two breakpoints, one condition, four changes.           *)
(***************************************************************************)
EXTENDS DebugSession

MCConditions == {{1}}
=============================================================================
