-------------------------- MODULE MCL1StakeManager --------------------------
(* One or two XLPs, two vouchers on one chain, two arbitrators.            *)
EXTENDS L1StakeManager, TLC

CONSTANTS x1, x2, v, sl, a1, a2, c1, n1, n2

MCFunds == [a \in Xlps \cup Arbitrators |->
              CASE a = x1 -> 3 [] a = x2 -> 2 [] OTHER -> 2]
Symmetric == Permutations(Arbitrators) \cup Permutations(Vouchers)
=============================================================================
