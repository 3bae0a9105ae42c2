------------------------ MODULE MCCrossChainPaymaster -----------------------
(* One user, two XLPs, of which one has funds, ETH and one token.  The XLP *)
(* signs to fulfil a voucher of another chain, and one of this chain,      *)
(* which it may send before the voucher is issued.                         *)
EXTENDS CrossChainPaymaster, TLC

CONSTANTS eth, tok, u, x1, x2, r1, r2, v1

MCFunds == [a \in Accounts |->
              [s \in Assets |-> CASE a = x2 -> 0 [] s = eth -> 2 [] OTHER -> 1]]
MCFulfilments == {[voucher |-> v, xlp |-> x1, asset |-> eth, amount |-> 1,
                   gas |-> 0, recipient |-> u] : v \in {v1, r1}}
=============================================================================
