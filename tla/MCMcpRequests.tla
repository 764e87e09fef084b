---------------------------- MODULE MCMcpRequests ----------------------------
(* Values of the constants of McpRequests for TLC.                         *)
EXTENDS McpRequests, TLC

CONSTANTS v1, v2, p1, k1, k2, k3

\* two validations under two ids; the publication reuses the first id
MCKeyOf == (v1 :> k1) @@ (v2 :> k2) @@ (p1 :> k1)

\* a validation and a publication
MCKeyOfPair == (v1 :> k1) @@ (p1 :> k2)
=============================================================================
