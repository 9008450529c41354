------------------------------ MODULE MCBooks ------------------------------
(* Exposure on the small pools of MCPolicies.                              *)
EXTENDS MCPolicies, Exposure
=============================================================================
