---------------------------- MODULE MCMcpRouter ----------------------------
(* Model checking of McpRouter. *)
EXTENDS McpRouter, TLC

CONSTANTS r1, r2
Symmetry == Permutations({r1, r2})
=============================================================================
