------------------------------- MODULE MCPools -------------------------------
(***************************************************************************)
(* Two callers with three objects between them: every object can meet both *)
(* callers, also through the pool, and a call can be inside another one.   *)
(***************************************************************************)
EXTENDS Pools, TLC

CONSTANTS p1, p2
MCCallers == {p1, p2}
Symmetric == Permutations(MCCallers)
=============================================================================
