-------------------------- MODULE X402Facilitator ---------------------------
(***************************************************************************)
(* The contract that settles x402 payments: src/packages/contracts/src/    *)
(* x402/X402Facilitator.sol.  A payment is what a payer signs; it names no *)
(* payer: whoever its signature recovers to is the payer.                  *)
(*                                                                         *)
(* Abstracted: the fee (every settlement takes .amount from the payer and  *)
(* splits it), who the recipient is unless it is address 0, and the token  *)
(* (there is one).                                                         *)
(***************************************************************************)
EXTENDS Integers

CONSTANTS
  Accounts,          (* payers                                             *)
  Stranger,          (* whom a signature over other data recovers to       *)
  Nonces,
  Payments,          (* what gets signed                                   *)
  Domains,           (* EIP-712 domains to sign under                      *)
  ContractDomain,    (* the one this contract verifies under               *)
  Requests,          (* calls to the facilitator service, each sends at    *)
                     (* most one transaction                               *)
  Outside,           (* transactions of anybody else                       *)
  Nobody,
  MAX_PAYMENT_AGE,   (* 300 s                                              *)
  Levels             (* Bound: what an account may come to hold or approve *)

VARIABLES
  usedNonces,        (* [Keys -> who used it], from the settlement events  *)
  supported,         (* supportedTokens of the token                       *)
  balance,           (* [Payers -> Nat], of the token                      *)
  allowance,         (* [Payers -> Nat], what this contract may take       *)
  tx,                (* [Requests -> TxStatus], transactions of the service*)
  now                (* block.timestamp and the clock of the service       *)

funds == <<supported, balance, allowance>>
chainVars == <<usedNonces, funds, tx>>

TxStatus == {"none", "sent", "mined", "reverted"}
Submitters == Requests \cup {Outside}
Payment == [signer : Accounts, domain : Domains, scheme : STRING,
            network : STRING, toZero : BOOLEAN, nonce : Nonces, amount : Nat,
            timestamp : Nat]

ASSUME ContractAssumption ==
  /\ Payments \subseteq Payment
  /\ Nobody \notin Submitters /\ Outside \notin Requests
  /\ Stranger \notin Accounts
  /\ MAX_PAYMENT_AGE \in Nat
  /\ Levels \subseteq Nat

Payers == Accounts \cup {Stranger}
Keys == Payers \X Nonces

ContractInit ==
  /\ usedNonces = [k \in Keys |-> Nobody]
  /\ supported = TRUE
  /\ \E n \in Levels :
       /\ balance = [a \in Payers |-> IF a \in Accounts THEN n ELSE 0]
       /\ allowance = balance
  /\ tx = [r \in Requests |-> "none"]

-----------------------------------------------------------------------------
Fresh(p) == now <= p.timestamp + MAX_PAYMENT_AGE

(* What the payer has lets the payment through: settle pulls an allowance, *)
(* settleWithAuthorization shows the token what the payer signed for it.   *)
Funded(p, payer, gasless) ==
  /\ supported
  /\ balance[payer] >= p.amount
  /\ gasless \/ allowance[payer] >= p.amount

(* ECDSA.recover returns the payer that is named: the contract hashes its  *)
(* own domain, the network "jeju" and either of two schemes.               *)
SignedBy(p, payer) ==
  /\ p.signer = payer /\ p.domain = ContractDomain
  /\ p.scheme \in {"exact", "upto"} /\ p.network = "jeju"

(* Mutated form: the nonce is not looked up.                               *)
Settleable_replayed(p, payer, gasless) ==
  /\ p.amount > 0 /\ ~p.toZero
  /\ Fresh(p)
  /\ SignedBy(p, payer)
  /\ Funded(p, payer, gasless)

(* Mutated form: a token transfer that fails is not noticed.               *)
Settleable_unfunded(p, payer, gasless) ==
  /\ p.amount > 0 /\ ~p.toZero
  /\ Fresh(p) /\ usedNonces[<<payer, p.nonce>>] = Nobody
  /\ SignedBy(p, payer)

(* settle and settleWithAuthorization do not revert.                       *)
Settleable(p, payer, gasless) ==
  /\ p.amount > 0 /\ ~p.toZero
  /\ Fresh(p) /\ usedNonces[<<payer, p.nonce>>] = Nobody
  /\ SignedBy(p, payer)
  /\ Funded(p, payer, gasless)

Settle(p, payer, gasless, who) ==
  /\ Settleable(p, payer, gasless)
  /\ usedNonces' = [usedNonces EXCEPT ![<<payer, p.nonce>>] = who]
  /\ balance' = [balance EXCEPT ![payer] = @ - p.amount]
  /\ IF gasless THEN UNCHANGED allowance
     ELSE allowance' = [allowance EXCEPT ![payer] = @ - p.amount]
  /\ UNCHANGED supported

(* Anybody may call either function: the compute SDK does, without the     *)
(* service.                                                                *)
SettleDirectly(p) ==
  /\ \E gasless \in BOOLEAN : Settle(p, p.signer, gasless, Outside)
  /\ UNCHANGED tx

(* The payer spends or receives tokens.                                    *)
Transfer(a) ==
  /\ \E n \in Levels : balance' = [balance EXCEPT ![a] = n]
  /\ UNCHANGED <<usedNonces, supported, allowance, tx>>

(* The payer approves another amount.                                      *)
Approve(a) ==
  /\ \E n \in Levels : allowance' = [allowance EXCEPT ![a] = n]
  /\ UNCHANGED <<usedNonces, supported, balance, tx>>

(* The owner of the contract begins or stops to support the token.         *)
SetTokenSupport ==
  /\ supported' = ~supported
  /\ UNCHANGED <<usedNonces, balance, allowance, tx>>
=============================================================================
