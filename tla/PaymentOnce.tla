---------------------------- MODULE PaymentOnce -----------------------------
(***************************************************************************)
(* What a payment service promises, with none of its mechanism: what a     *)
(* payer signs under one nonce is paid at most once, and a caller who is   *)
(* told that it paid is the one whose call paid.                           *)
(*                                                                         *)
(* The promise is the one of src/apps/facilitator/src/services/            *)
(* nonce-manager.ts ("Prevents replay attacks", "contract is               *)
(* authoritative").                                                        *)
(***************************************************************************)
CONSTANTS
  Keys,       (* What is paid at most once.                                *)
  Callers,    (* Who can be told that a payment was made.                  *)
  Outside,    (* Everybody else who can pay.                               *)
  Nobody

VARIABLES
  paidBy,     (* [Keys -> Callers \cup {Outside, Nobody}]                   *)
  told        (* Callers who were told of success.                         *)

vars == <<paidBy, told>>

Init ==
  /\ paidBy = [k \in Keys |-> Nobody]
  /\ told = {}

Pay(k, who) ==
  /\ paidBy[k] = Nobody
  /\ paidBy' = [paidBy EXCEPT ![k] = who]
  /\ UNCHANGED told

Tell(c) ==
  /\ \E k \in Keys : paidBy[k] = c
  /\ told' = told \cup {c}
  /\ UNCHANGED paidBy

Next ==
  \/ \E k \in Keys, who \in Callers \cup {Outside} : Pay(k, who)
  \/ \E c \in Callers : Tell(c)

Spec == Init /\ [][Next]_vars
=============================================================================
