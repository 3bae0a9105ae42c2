--------------------------- MODULE MCFacilitator ----------------------------
(* Instances of Facilitator for TLC.                                       *)
EXTENDS Facilitator, TLC

CONSTANTS payer, n1, zero, contract, r1, r2, r3

MCPayment(domain, amount, timestamp) ==
  [signer |-> payer, domain |-> domain, scheme |-> "exact", network |-> "jeju",
   toZero |-> FALSE, nonce |-> n1, amount |-> amount, timestamp |-> timestamp]

(* Two payments under one nonce, the second signed for one tick ahead and  *)
(* for more money, and one that verifyPayment accepts and the contract     *)
(* does not (it names another network).                                    *)
MCPayments == {MCPayment(zero, 1, 0), MCPayment(zero, 2, 1),
               [MCPayment(zero, 1, 0) EXCEPT !.network = "base"]}

(* One payment signed for the service, one for the contract.               *)
MCForContract == {MCPayment(zero, 1, 0), MCPayment(contract, 1, 0)}

MCSymmetry == Permutations(Requests)
=============================================================================
