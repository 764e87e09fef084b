---------------------------- MODULE MCMcpSessions ----------------------------
(* Values of the constants of McpSessions for TLC.                         *)
EXTENDS McpSessions, TLC

Symmetry ==
  Permutations(Requests) \cup Permutations(Closers) \cup Permutations(Sessions \ {Default})
=============================================================================
