----------------------------- MODULE MCDelivery -----------------------------
(* Instances of Delivery for TLC.                                          *)
EXTENDS Delivery, TLC

CONSTANTS s1, s2, rcpt, erc20

(* Both solvers bring ETH, one of them a token.                            *)
MCFunds ==
  [a \in {s1, s2, rcpt} |->
     [t \in {erc20, ETH} |->
        IF a = rcpt \/ (a = s2 /\ t = erc20) THEN 0
        ELSE IF a = s1 /\ t = ETH THEN 3 ELSE 1]]

(* The bytes of an address that stand where the origin is read are not the *)
(* domain the message comes from.                                          *)
MCOriginWord == [s \in {RealSettler, OtherSettler, NoAddress} |->
                   IF s = NoAddress THEN 0 ELSE 2]

(* Bound: what the settler does and what the oracles do meet in the fill   *)
(* records only, so either the oracles have not started yet and the settler*)
(* may do anything, or it has done no more than one fill with the wallet.  *)
OraclesAtRest == A!Init
OneFillAtMost ==
  /\ held = [t \in O!Assets |-> 0]
  /\ \A s \in Solvers, t \in O!Assets :
       wallet[s][t] >= InitialFunds[s][t] - (IF s = s1 /\ t = ETH THEN 1 ELSE 0)
MCBound == OraclesAtRest \/ OneFillAtMost

MCSymmetry == Permutations(Ids)
=============================================================================
