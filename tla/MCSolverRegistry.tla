-------------------------- MODULE MCSolverRegistry --------------------------
(* An instance of SolverRegistry for TLC.                                  *)
EXTENDS SolverRegistry

CONSTANTS s1, s2

(* One solver can stake twice, the other once.                   *)
MCFunds == [s \in Solvers |-> IF s = s1 THEN 4 ELSE 2]
=============================================================================
