-------------------------------- MODULE MCOIF -------------------------------
(* Instances of OIF for TLC.                                               *)
EXTENDS OIF, TLC

CONSTANTS user, s1, s2, x, rcpt, rcpt2, erc20, usd, eth

MCOutput(r, t) == [recipient |-> r, token |-> t, amount |-> 1]

MCRequest(output) ==
  [nonce |-> 0, token |-> erc20, amount |-> 1, dest |-> 1, output |-> output,
   openDeadline |-> 0, fillDeadline |-> 1]

OneRequest == {MCRequest(MCOutput(rcpt, eth))}
(* Two requests under one id that differ in who receives, and in what.     *)
TwinRequests == {MCRequest(MCOutput(rcpt, eth)), MCRequest(MCOutput(rcpt2, usd))}

FundsFor(n) ==
  [a \in Accounts |-> [t \in {erc20} |-> IF a = user THEN n ELSE 0]]
FundsForOne == FundsFor(1)
FundsForTwo == FundsFor(2)

(* Every agent can afford one fill of each kind, a stranger a token fill.  *)
MCDestinationFunds ==
  [a \in Agents \cup Strangers \cup Recipients |->
     [t \in DestTokens \cup {eth} |->
        IF a \in Agents \/ (a \in Strangers /\ t # eth) THEN 1 ELSE 0]]

MCSymmetry == Permutations(Agents)
=============================================================================
