---------------------------- MODULE Facilitator -----------------------------
(***************************************************************************)
(* The x402 facilitator service, one process, in front of its contract:    *)
(* src/apps/facilitator/src/routes/settle.ts and verify.ts, services/      *)
(* verifier.ts, settler.ts and nonce-manager.ts.                           *)
(*                                                                         *)
(* A request runs between two awaits without interruption, so each of its  *)
(* actions goes from one await to the next; the answer of a chain read and *)
(* the code after it are one step, except in reserveNonce, where what was  *)
(* read can be stale when it is used ("unused").  Any await may throw      *)
(* (RPC error, timeout): nothing catches it and the client gets a 500.     *)
(***************************************************************************)
EXTENDS NonceManager

CONSTANTS
  VerifierDomain,   (* verifyingContract 0: what verifySignature uses      *)
  MaxPaymentAge,    (* MAX_PAYMENT_AGE of the service's configuration      *)
  Skew,             (* 60 s: a time stamp may be ahead by that much        *)
  StaleAfter,       (* 5 min, of cleanupStalePendingSettlements            *)
  MaxTime           (* Bound: the last time explored                       *)

ASSUME FacilitatorAssumption ==
  /\ Skew \in Nat /\ MaxTime \in Nat /\ MaxPaymentAge \in Nat
  /\ StaleAfter >= MAX_PAYMENT_AGE /\ StaleAfter \in Nat
  /\ CACHE_TTL \in Nat

VARIABLES
  stage,       (* [Requests -> Stage], the await a request is at           *)
  payment,     (* [Requests -> Payments], what it carries                  *)
  kind,        (* [Requests -> Kind], the route it came by                 *)
  settlements  (* pendingSettlements: [Keys -> time, or Never]             *)

requestVars == <<stage, payment, kind>>
vars == <<chainVars, cacheVars, requestVars, settlements, now>>

Kind == {"verify", "settle", "gasless"}
Awaiting == {"verifying", "verified", "reading", "unused", "checking",
             "sending", "waiting"}
Answer == {"valid", "success", "rejected", "short", "refused", "reverted",
           "lost"}
Stage == {"idle"} \cup Awaiting \cup Answer

(* decodedPayment.payer is whoever verifySignature recovers, which hashes  *)
(* the scheme and the network that the payment itself names.               *)
PayerOf(p) == IF p.domain = VerifierDomain THEN p.signer ELSE Stranger
Key(r) == <<PayerOf(payment[r]), payment[r].nonce>>

Init ==
  /\ ContractInit /\ CacheInit
  /\ stage = [r \in Requests |-> "idle"]
  /\ payment \in [Requests -> Payments]
  /\ kind \in [Requests -> Kind]
  /\ settlements = [k \in Keys |-> Never]
  /\ now = 0

Goto(r, s) == stage' = [stage EXCEPT ![r] = s]
Stays == UNCHANGED <<payment, kind>>

-----------------------------------------------------------------------------
(* verifyPayment                                                           *)

TimestampOK(p) ==
  /\ p.timestamp <= now + Skew
  /\ now <= p.timestamp + MaxPaymentAge

(* Up to the read of the chain in isNonceUsed.                             *)
Arrive(r) ==
  /\ stage[r] = "idle"
  /\ Goto(r, IF TimestampOK(payment[r]) /\ ~IsNonceUsedLocally(Key(r))
             THEN "verifying" ELSE "rejected")
  /\ Stays /\ UNCHANGED <<chainVars, cacheVars, settlements, now>>

VerifyNonce(r) ==
  /\ stage[r] = "verifying"
  /\ IF IsNonceUsedOnChain(Key(r))
     THEN Goto(r, "rejected") /\ MarkNonceUsed(Key(r))
     ELSE /\ Goto(r, IF kind[r] = "verify" THEN "valid" ELSE "verified")
          /\ UNCHANGED cacheVars
  /\ Stays /\ UNCHANGED <<chainVars, settlements, now>>

-----------------------------------------------------------------------------
(* reserveNonce and executeSettlement                                      *)

(* After getFacilitatorStats: what reserveNonce looks at before it reads.  *)
StartReserve(r) ==
  /\ stage[r] = "verified"
  /\ Goto(r, IF IsNonceUsedLocally(Key(r)) THEN "rejected" ELSE "reading")
  /\ Stays /\ UNCHANGED <<chainVars, cacheVars, settlements, now>>

ReadNonce(r) ==
  /\ stage[r] = "reading"
  /\ IF IsNonceUsedOnChain(Key(r))
     THEN Goto(r, "rejected") /\ MarkNonceUsed(Key(r))
     ELSE Goto(r, "unused") /\ UNCHANGED cacheVars
  /\ Stays /\ UNCHANGED <<chainVars, settlements, now>>

(* Nothing is looked at again: another request may have reserved the same  *)
(* nonce, or even used it, during the read.                                *)
Reserve(r) ==
  /\ stage[r] = "unused"
  /\ MarkNoncePending(Key(r))
  /\ settlements' = [settlements EXCEPT ![Key(r)] = now]
  /\ Goto(r, "checking")
  /\ Stays /\ UNCHANGED <<chainVars, now>>

(* Mutated form: the nonce stays pending.                                  *)
Forget_pending(k) ==
  /\ settlements' = [settlements EXCEPT ![k] = Never]
  /\ UNCHANGED cacheVars

Forget(k) ==
  /\ settlements' = [settlements EXCEPT ![k] = Never]
  /\ MarkNonceFailed(k)

(* validateSettlementPrerequisites: it asks for the allowance even where   *)
(* settleWithAuthorization needs none.                                     *)
CheckFunds(r) ==
  /\ stage[r] = "checking"
  /\ IF Funded(payment[r], PayerOf(payment[r]), FALSE)
     THEN Goto(r, "sending") /\ UNCHANGED <<cacheVars, settlements>>
     ELSE Goto(r, "short") /\ Forget(Key(r))
  /\ Stays /\ UNCHANGED <<chainVars, now>>

Gasless(r) == kind[r] = "gasless"
Accepted(r) == Settleable(payment[r], PayerOf(payment[r]), Gasless(r))

(* writeContract estimates the gas of the call first and throws if it      *)
(* would revert now.  Whether the token takes the EIP-3009 authorization   *)
(* of a gasless payment is its own affair.                                 *)
Send(r) ==
  /\ stage[r] = "sending"
  /\ \/ Accepted(r) /\ Goto(r, "waiting") /\ tx' = [tx EXCEPT ![r] = "sent"]
     \/ /\ ~Accepted(r) \/ Gasless(r)
        /\ Goto(r, "refused") /\ UNCHANGED tx
  /\ Stays /\ UNCHANGED <<usedNonces, funds, cacheVars, settlements, now>>

(* A block executes the transaction of r.                                  *)
Mine(r) ==
  /\ tx[r] = "sent"
  /\ \/ /\ Settle(payment[r], PayerOf(payment[r]), Gasless(r), r)
        /\ tx' = [tx EXCEPT ![r] = "mined"]
     \/ /\ ~Accepted(r) \/ Gasless(r)
        /\ tx' = [tx EXCEPT ![r] = "reverted"]
        /\ UNCHANGED <<usedNonces, funds>>
  /\ UNCHANGED <<cacheVars, requestVars, settlements, now>>

(* Mutated form: the status of the receipt is not looked at.               *)
Receipt_anyStatus(r) ==
  /\ stage[r] = "waiting" /\ tx[r] \in {"mined", "reverted"}
  /\ Goto(r, "success") /\ MarkNonceUsed(Key(r))
  /\ settlements' = [settlements EXCEPT ![Key(r)] = Never]
  /\ Stays /\ UNCHANGED <<chainVars, now>>

(* waitForTransactionReceipt returns.                                      *)
Receipt(r) ==
  /\ stage[r] = "waiting"
  /\ \/ /\ tx[r] = "mined"
        /\ Goto(r, "success") /\ MarkNonceUsed(Key(r))
        /\ settlements' = [settlements EXCEPT ![Key(r)] = Never]
     \/ /\ tx[r] = "reverted"
        /\ Goto(r, "reverted") /\ Forget(Key(r))
  /\ Stays /\ UNCHANGED <<chainVars, now>>

(* The call r waits for throws.  A nonce it has reserved stays pending. A  *)
(* transaction whose sending is not answered may be on its way all the     *)
(* same.                                                                   *)
Throw(r) ==
  /\ stage[r] \in Awaiting \ {"unused"}
  /\ Goto(r, "lost")
  /\ \/ UNCHANGED tx
     \/ stage[r] = "sending" /\ Accepted(r) /\ tx' = [tx EXCEPT ![r] = "sent"]
  /\ Stays /\ UNCHANGED <<usedNonces, funds, cacheVars, settlements, now>>

-----------------------------------------------------------------------------
(* What happens to all requests at once.                                   *)

(* Mutated form: a settlement is stale one tick early.                     *)
Stale_early(k) == settlements[k] # Never /\ now - settlements[k] > StaleAfter - 1

Stale(k) == settlements[k] # Never /\ now - settlements[k] > StaleAfter

(* Exported for the host of the service to call; the service itself never  *)
(* does.                                                                   *)
CleanupStalePendingSettlements ==
  /\ \E k \in Keys : Stale(k)
  /\ settlements' = [k \in Keys |-> IF Stale(k) THEN Never ELSE settlements[k]]
  /\ pendingNonces' = {k \in pendingNonces : ~Stale(k)}
  /\ UNCHANGED <<chainVars, usedSince, requestVars, now>>

(* The process stops and starts again with empty memory; its transactions  *)
(* are on their way.                                                       *)
Restart ==
  /\ stage' = [r \in Requests |-> IF stage[r] \in Awaiting THEN "lost" ELSE stage[r]]
  /\ usedSince' = [k \in Keys |-> Never] /\ pendingNonces' = {}
  /\ settlements' = [k \in Keys |-> Never]
  /\ Stays /\ UNCHANGED <<chainVars, now>>

Tick ==
  /\ now < MaxTime
  /\ now' = now + 1
  /\ UNCHANGED <<chainVars, cacheVars, requestVars, settlements>>

Others ==
  /\ \/ \E p \in Payments : SettleDirectly(p)
     \/ \E a \in Accounts : Transfer(a) \/ Approve(a)
     \/ SetTokenSupport
  /\ UNCHANGED <<cacheVars, requestVars, settlements, now>>

Sweep ==
  /\ CleanupOldNonces
  /\ UNCHANGED <<chainVars, requestVars, settlements, now>>

Request(r) ==
  \/ Arrive(r) \/ VerifyNonce(r) \/ StartReserve(r) \/ ReadNonce(r)
  \/ Reserve(r) \/ CheckFunds(r) \/ Send(r) \/ Receipt(r) \/ Throw(r)

Next ==
  \/ \E r \in Requests : Request(r) \/ Mine(r)
  \/ CleanupStalePendingSettlements \/ Sweep \/ Restart \/ Tick \/ Others

Spec == Init /\ [][Next]_vars

-----------------------------------------------------------------------------
(* The variables have their types; no settlement takes what is not there.  *)
TypeOK ==
  /\ usedNonces \in [Keys -> Submitters \cup {Nobody}]
  /\ supported \in BOOLEAN
  /\ balance \in [Payers -> Nat] /\ allowance \in [Payers -> Nat]
  /\ tx \in [Requests -> TxStatus]
  /\ usedSince \in [Keys -> Nat \cup {Never}]
  /\ pendingNonces \in SUBSET Keys
  /\ stage \in [Requests -> Stage]
  /\ payment \in [Requests -> Payments]
  /\ kind \in [Requests -> Kind]
  /\ settlements \in [Keys -> Nat \cup {Never}]
  /\ now \in Nat

(* What is signed under one nonce is paid once, however many requests race *)
(* through reserveNonce, and a client told of success is the one whose     *)
(* transaction paid: executeSettlement implements PaymentOnce.             *)
Once == INSTANCE PaymentOnce WITH
  Keys <- Keys, Callers <- Requests, paidBy <- usedNonces,
  told <- {r \in Requests : stage[r] = "success"}
PaidOnce == Once!Spec

Refused(r) == stage[r] = "refused" \/ tx[r] = "reverted"

(* The moment the contract turns down a call of settle by the service, the *)
(* payment is too old, its nonce is used or the money is not there any     *)
(* more: never what verifyPayment vouched for, the signature.              *)
RefusedForCause ==
  [][\A r \in Requests : ~Refused(r) /\ Refused(r)' /\ kind[r] = "settle" =>
       \/ ~Fresh(payment[r])
       \/ usedNonces[Key(r)] # Nobody
       \/ ~Funded(payment[r], PayerOf(payment[r]), FALSE)]_vars

(* Whatever an exception leaves pending in nonce-manager.ts is also in     *)
(* the pendingSettlements of settler.ts, so that                           *)
(* cleanupStalePendingSettlements can free it.                             *)
PendingIsRecoverable == \A k \in pendingNonces : settlements[k] # Never

(* verifyPayment and reserveNonce turn away a payment that is in time only *)
(* if the contract has used its nonce or a settlement of it is on record   *)
(* ("has already been used" stands for both): what has failed may be tried *)
(* again, and cleanupStalePendingSettlements reaches whatever stays        *)
(* pending.                                                                *)
TurnedAwayForCause ==
  [][\A r \in Requests :
       /\ stage[r] # "rejected" /\ stage'[r] = "rejected"
       /\ stage[r] = "idle" => TimestampOK(payment[r])
       => IsNonceUsedOnChain(Key(r)) \/ settlements[Key(r)] # Never]_vars

(* When cleanupStalePendingSettlements frees a nonce, no transaction with  *)
(* it can be mined any more than Skew later: by then it is too old.        *)
FreedIsOld ==
  [][\A k \in pendingNonces \ pendingNonces' :
       Stale(k) => \A r \in Requests :
         tx[r] = "sent" /\ Key(r) = k =>
           now + Skew > payment[r].timestamp + MAX_PAYMENT_AGE]_vars
=============================================================================
