------------------------------- MODULE Escrow -------------------------------
(***************************************************************************)
(* What an input settler promises its users, with none of its mechanism:   *)
(* a slot holds the deposit of its owner until either evidence of delivery *)
(* or expiry is there, then pays out once, to one side.                    *)
(*                                                                         *)
(* The promise is the one the header of                                    *)
(* src/packages/contracts/src/oif/InputSettler.sol states: "Funds are      *)
(* locked until oracle attestation OR expiry".                             *)
(***************************************************************************)
EXTENDS Integers

CONSTANTS
  Slots,        (* What a deposit is filed under: records that say, with  *)
                (* .user, .token and .amount, who deposits how much.      *)
  Accounts,     (* Who can own a slot or be paid from it.                 *)
  Tokens

VARIABLES
  status,       (* [Slots -> Status]                                       *)
  evidence,     (* Slots whose delivery is attested.                       *)
  expired,      (* Slots whose time is over.                               *)
  wallet,       (* [Accounts -> [Tokens -> Nat]]                           *)
  held          (* [Tokens -> Nat], what the escrow itself owns.           *)

vars == <<status, evidence, expired, wallet, held>>

Status == {"none", "locked", "paid", "refunded"}

Init ==
  /\ status = [s \in Slots |-> "none"]
  /\ expired = {}
  /\ evidence = {}
  /\ held = [t \in Tokens |-> 0]

(* A deposit never reopens a slot that has paid out.                       *)
Deposit(s) ==
  /\ status[s] \in {"none", "locked"}
  /\ status' = [status EXCEPT ![s] = "locked"]
  /\ wallet' = [wallet EXCEPT ![s.user][s.token] = @ - s.amount]
  /\ held' = [held EXCEPT ![s.token] = @ + s.amount]
  /\ UNCHANGED <<evidence, expired>>

(* One payment leaves the escrow, to account a, and ends the slot.         *)
Release(s, a, outcome) ==
  /\ status[s] = "locked"
  /\ status' = [status EXCEPT ![s] = outcome]
  /\ wallet' = [wallet EXCEPT ![a][s.token] = @ + s.amount]
  /\ held' = [held EXCEPT ![s.token] = @ - s.amount]
  /\ UNCHANGED <<evidence, expired>>

PayOut(s, a) == s \in evidence /\ Release(s, a, "paid")
GiveBack(s) == s \in expired /\ Release(s, s.user, "refunded")

(* Attestations and time only move forward.                                *)
Environment ==
  /\ evidence \subseteq evidence'
  /\ expired \subseteq expired'
  /\ UNCHANGED <<status, wallet, held>>

Next ==
  \/ \E s \in Slots : Deposit(s) \/ GiveBack(s)
  \/ \E s \in Slots, a \in Accounts : PayOut(s, a)
  \/ Environment

Spec == Init /\ [][Next]_vars
=============================================================================
