------------------------------ MODULE ChainList -----------------------------
(***************************************************************************)
(* The list of chains a solver or an XLP serves, a uint256[] in storage    *)
(* (SolverRegistry.sol, L1StakeManager.sol).  A list given at registration *)
(* may name a chain twice.                                                 *)
(***************************************************************************)
EXTENDS Sequences, FiniteSetsExt, Functions

Lists(list, c) == \E i \in DOMAIN list : list[i] = c

(* The first entry of the chain is replaced by the last of the list, which *)
(* is dropped.                                                             *)
Remove(list, c) ==
  LET i == Min({j \in DOMAIN list : list[j] = c})
  IN  SubSeq([list EXCEPT ![i] = list[Len(list)]], 1, Len(list) - 1)
=============================================================================
