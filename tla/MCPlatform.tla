------------------------------ MODULE MCPlatform ------------------------------
(****************************************************************************)
(* The platform for TLC, with the algorithms that are operators: the        *)
(* assumptions of MCOperators are evaluated before the first state.         *)
(****************************************************************************)
EXTENDS Platform, MCOperators
=============================================================================
