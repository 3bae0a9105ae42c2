--------------------------- MODULE MCInputSettler ---------------------------
(* Instances of InputSettler for TLC.                                      *)
EXTENDS InputSettler, TLC

CONSTANTS user, solver, erc20, eth, out1, out2, o1, o2, g1, g2

MCAccounts == {user, solver}
MCTokens == {erc20}

MCRequest(nonce, token, amount, output, open, fill) ==
  [nonce |-> nonce, token |-> token, amount |-> amount, dest |-> 1,
   output |-> output, openDeadline |-> open, fillDeadline |-> fill]

(* Two requests that share every hashed field and differ in output and     *)
(* deadlines, so that re-opening under one id happens, and one whose fill  *)
(* deadline is not after its open deadline, which the contract refuses.    *)
Twin1 == MCRequest(0, erc20, 1, out1, 1, 2)
Twin2 == MCRequest(0, erc20, 1, out2, 0, 1)
BadDeadline == MCRequest(0, erc20, 1, out1, 1, 0)
MCRequests == {Twin1, Twin2, BadDeadline}
MCSignable == {<<user, Twin2>>}

(* The user can pay for two orders; the solver has nothing to lock.      *)
MCFunds == [a \in MCAccounts |->
              [t \in MCTokens |-> IF a = user THEN 2 ELSE 0]]

LastDeadline == \A r \in Requests : r.fillDeadline < MaxBlock
ASSUME LastDeadline
=============================================================================
