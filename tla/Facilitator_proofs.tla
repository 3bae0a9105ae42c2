------------------------- MODULE Facilitator_proofs -------------------------
(***************************************************************************)
(* Proofs about Facilitator, for any payments, requests and times.         *)
(*                                                                         *)
(* Each property needs little beyond itself.  PaidOnce rests on            *)
(* MinedHasPaid: a nonce keeps the name of the transaction that used it.   *)
(* FreedIsOld rests on two facts about time: a payment that got past       *)
(* verifyPayment is at most Skew ahead, and whatever is in flight was      *)
(* reserved no later than the entry of its nonce in pendingSettlements     *)
(* says, because a second reservation overwrites the entry.                *)
(***************************************************************************)
EXTENDS Facilitator, TLAPS

(* The transaction that was mined is the one its nonce is used by.         *)
MinedHasPaid ==
  \A r \in Requests : tx[r] = "mined" => usedNonces[Key(r)] = r

(* The cache calls used only what the contract has used.                   *)
UsedIsUsedOnChain == \A k \in Keys : IsUsed(k) => IsNonceUsedOnChain(k)

(* A request that has sent a transaction waits for it or has ended.        *)
Sent(r) == stage[r] \in {"waiting", "lost", "success", "reverted"}
HasTxIsSent == \A r \in Requests : tx[r] # "none" => Sent(r)

(* A verified payment is at most Skew ahead of the clock.                  *)
Verified(r) == stage[r] \notin {"idle", "rejected"}
NotAhead == \A r \in Requests : Verified(r) => payment[r].timestamp <= now + Skew

InFlight(r) ==
  stage[r] \in {"checking", "sending", "waiting"} \/ tx[r] = "sent"

(* The entry of a nonce is as young as what is in flight under it.         *)
EntryIsYoung ==
  \A r \in Requests :
    InFlight(r) /\ settlements[Key(r)] # Never =>
      payment[r].timestamp <= settlements[Key(r)] + Skew

IInv == /\ TypeOK /\ MinedHasPaid /\ PendingIsRecoverable /\ UsedIsUsedOnChain
        /\ HasTxIsSent /\ NotAhead /\ EntryIsYoung

-----------------------------------------------------------------------------
(* The steps of the requests and of the rest of the system, by what they   *)
(* write.                                                                  *)

(* A payment has a key, and its fields have their types.                   *)
LEMMA KeyType ==
  ASSUME TypeOK, NEW r \in Requests
  PROVE  /\ Key(r) \in Keys /\ PayerOf(payment[r]) \in Payers
         /\ payment[r].amount \in Nat /\ payment[r].timestamp \in Nat
<1>1. payment[r] \in Payment
  BY ContractAssumption DEF TypeOK
<1> QED
  BY <1>1 DEF Key, Keys, PayerOf, Payers, Payment

(* A settlement leaves no account below zero.                              *)
LEMMA SettleType ==
  ASSUME TypeOK, NEW p, NEW payer \in Payers, NEW gasless \in BOOLEAN,
         NEW who \in Submitters, p.amount \in Nat,
         <<payer, p.nonce>> \in Keys, Settle(p, payer, gasless, who)
  PROVE  /\ usedNonces' \in [Keys -> Submitters \cup {Nobody}]
         /\ balance' \in [Payers -> Nat] /\ allowance' \in [Payers -> Nat]
         /\ UNCHANGED supported
<1>1. /\ balance[payer] \in Nat /\ balance[payer] >= p.amount
      /\ allowance[payer] \in Nat
      /\ gasless \/ allowance[payer] >= p.amount
  BY DEF TypeOK, Settle, Settleable, Funded
<1>2. /\ balance[payer] - p.amount \in Nat
      /\ gasless \/ allowance[payer] - p.amount \in Nat
  BY <1>1
<1>3. /\ balance' \in [Payers -> Nat] /\ UNCHANGED supported
      /\ usedNonces' \in [Keys -> Submitters \cup {Nobody}]
  BY <1>2 DEF TypeOK, Settle
<1>4. allowance' \in [Payers -> Nat]
  <2>1. CASE gasless
    BY <2>1 DEF TypeOK, Settle
  <2>2. CASE ~gasless
    BY <1>2, <2>2 DEF TypeOK, Settle
  <2> QED
    BY <2>1, <2>2
<1> QED
  BY <1>3, <1>4

(* Every variable keeps its type.                                          *)
LEMMA TypeStep ==
  ASSUME TypeOK, [Next]_vars
  PROVE  TypeOK'
<1> USE DEF TypeOK
<1>1. ASSUME NEW r \in Requests, Request(r)
      PROVE  TypeOK'
  <2> USE <1>1, KeyType DEF Goto, Stays, Stage, Awaiting, Answer, TxStatus,
        chainVars, funds, cacheVars, MarkNonceUsed, MarkNonceFailed, MarkNoncePending,
        Forget, Never
  <2>1. CASE Arrive(r)
    BY <2>1 DEF Arrive
  <2>2. CASE VerifyNonce(r)
    BY <2>2 DEF VerifyNonce
  <2>3. CASE StartReserve(r)
    BY <2>3 DEF StartReserve
  <2>4. CASE ReadNonce(r)
    BY <2>4 DEF ReadNonce
  <2>5. CASE Reserve(r)
    BY <2>5 DEF Reserve
  <2>6. CASE CheckFunds(r)
    BY <2>6 DEF CheckFunds
  <2>7. CASE Send(r)
    BY <2>7 DEF Send
  <2>8. CASE Receipt(r)
    BY <2>8 DEF Receipt
  <2>9. CASE Throw(r)
    BY <2>9 DEF Throw
  <2> QED
    BY <2>1, <2>2, <2>3, <2>4, <2>5, <2>6, <2>7, <2>8, <2>9 DEF Request
<1>2. ASSUME NEW r \in Requests, Mine(r)
      PROVE  TypeOK'
  <2>1. /\ usedNonces' \in [Keys -> Submitters \cup {Nobody}]
        /\ balance' \in [Payers -> Nat] /\ allowance' \in [Payers -> Nat]
        /\ UNCHANGED supported
    <3>1. CASE Settle(payment[r], PayerOf(payment[r]), Gasless(r), r)
      BY <3>1, KeyType, SettleType DEF Submitters, Key, Gasless
    <3>2. CASE UNCHANGED <<usedNonces, funds>>
      BY <3>2 DEF funds
    <3> QED
      BY <1>2, <3>1, <3>2 DEF Mine
  <2> QED
    BY <1>2, <2>1 DEF Mine, TxStatus, cacheVars, requestVars
<1>3. CASE CleanupStalePendingSettlements
  BY <1>3 DEF CleanupStalePendingSettlements, chainVars, funds, requestVars, Never
<1>4. CASE Sweep
  BY <1>4 DEF Sweep, CleanupOldNonces, chainVars, funds, requestVars, Never
<1>5. CASE Restart
  BY <1>5 DEF Restart, chainVars, funds, Stays, Stage, Answer, Awaiting, Never
<1>6. CASE Tick
  BY <1>6 DEF Tick, chainVars, funds, cacheVars, requestVars
<1>7. CASE Others
  <2>1. ASSUME NEW p \in Payments, SettleDirectly(p)
        PROVE  /\ usedNonces' \in [Keys -> Submitters \cup {Nobody}]
               /\ balance' \in [Payers -> Nat] /\ allowance' \in [Payers -> Nat]
               /\ UNCHANGED <<supported, tx>>
    <3>1. p \in Payment
      BY ContractAssumption
    <3>2. /\ p.signer \in Payers /\ p.amount \in Nat
          /\ <<p.signer, p.nonce>> \in Keys
      BY <3>1 DEF Payment, Keys, Payers
    <3> QED
      BY <2>1, <3>2, SettleType DEF SettleDirectly, Submitters
  <2>2. ASSUME NEW a \in Accounts, Transfer(a) \/ Approve(a)
        PROVE  /\ UNCHANGED <<usedNonces, supported, tx>>
               /\ balance' \in [Payers -> Nat] /\ allowance' \in [Payers -> Nat]
    BY <2>2, ContractAssumption DEF Transfer, Approve, Payers
  <2>3. CASE SetTokenSupport
    BY <1>7, <2>3 DEF Others, SetTokenSupport, cacheVars, requestVars
  <2> QED
    BY <1>7, <2>1, <2>2, <2>3 DEF Others, cacheVars, requestVars
<1>8. CASE UNCHANGED vars
  BY <1>8 DEF vars, chainVars, funds, cacheVars, requestVars
<1> QED
  BY <1>1, <1>2, <1>3, <1>4, <1>5, <1>6, <1>7, <1>8 DEF Next

-----------------------------------------------------------------------------
(* What a step of Next may be, seen from the chain, from a request and     *)
(* from the two maps of the service.                                       *)

(* A request never changes what it carries, so it keeps its key.           *)
LEMMA KeyStays ==
  ASSUME [Next]_vars
  PROVE  payment' = payment /\ kind' = kind /\ \A r \in Requests : Key(r)' = Key(r)
<1>1. payment' = payment /\ kind' = kind
  BY DEF Next, Request, vars, requestVars, Arrive, VerifyNonce, StartReserve,
     ReadNonce, Reserve, CheckFunds, Send, Receipt, Throw, Mine, Stays, Others,
     CleanupStalePendingSettlements, Sweep, Restart, Tick
<1> QED
  BY <1>1 DEF Key, PayerOf

(* Only a settlement writes the nonces of the contract, and only for the   *)
(* transaction it is mined for or for somebody outside.                    *)
LEMMA ChainStep ==
  ASSUME TypeOK, [Next]_vars
  PROVE  \/ /\ UNCHANGED usedNonces
            /\ \A r \in Requests : tx'[r] = "mined" => tx[r] = "mined"
         \/ \E r \in Requests :
              /\ usedNonces[Key(r)] = Nobody
              /\ usedNonces' = [usedNonces EXCEPT ![Key(r)] = r]
              /\ tx' = [tx EXCEPT ![r] = "mined"]
              /\ tx[r] = "sent" /\ UNCHANGED stage
         \/ \E k \in Keys :
              /\ usedNonces[k] = Nobody
              /\ usedNonces' = [usedNonces EXCEPT ![k] = Outside]
              /\ UNCHANGED <<tx, stage>>
<1>1. ASSUME NEW r \in Requests, Request(r)
      PROVE  /\ UNCHANGED usedNonces
             /\ \A q \in Requests : tx'[q] = "mined" => tx[q] = "mined"
  BY <1>1 DEF TypeOK, Request, chainVars, Arrive, VerifyNonce, StartReserve,
     ReadNonce, Reserve, CheckFunds, Send, Receipt, Throw
<1>2. ASSUME NEW r \in Requests, Mine(r)
      PROVE  \/ /\ UNCHANGED usedNonces
                /\ \A q \in Requests : tx'[q] = "mined" => tx[q] = "mined"
             \/ /\ usedNonces[Key(r)] = Nobody
                /\ usedNonces' = [usedNonces EXCEPT ![Key(r)] = r]
                /\ tx' = [tx EXCEPT ![r] = "mined"]
                /\ tx[r] = "sent" /\ UNCHANGED stage
  BY <1>2 DEF TypeOK, Mine, Settle, Settleable, Key, requestVars
<1>3. CASE CleanupStalePendingSettlements \/ Sweep \/ Restart \/ Tick
  BY <1>3 DEF CleanupStalePendingSettlements, Sweep, Restart, Tick, chainVars
<1>4. CASE Others
  <2>1. CASE (\E a \in Accounts : Transfer(a) \/ Approve(a)) \/ SetTokenSupport
    BY <1>4, <2>1 DEF Others, Transfer, Approve, SetTokenSupport
  <2>2. ASSUME NEW p \in Payments, SettleDirectly(p)
        PROVE  \E k \in Keys :
                 /\ usedNonces[k] = Nobody
                 /\ usedNonces' = [usedNonces EXCEPT ![k] = Outside]
                 /\ UNCHANGED tx
    <3>1. <<p.signer, p.nonce>> \in Keys
      BY ContractAssumption DEF Keys, Payers, Payment
    <3> QED
      BY <2>2, <3>1 DEF SettleDirectly, Settle, Settleable
  <2> QED
    BY <1>4, <2>1, <2>2 DEF Others, requestVars
<1>5. CASE UNCHANGED vars
  BY <1>5 DEF vars, chainVars
<1> QED
  BY <1>1, <1>2, <1>3, <1>4, <1>5 DEF Next

(* A nonce that is used stays used by the same transaction.                *)
LEMMA UsedStays ==
  ASSUME TypeOK, [Next]_vars, NEW k \in Keys, usedNonces[k] # Nobody
  PROVE  usedNonces'[k] = usedNonces[k]
<1>1. \A r \in Requests : Key(r) \in Keys
  BY KeyType
<1> QED
  BY <1>1, ChainStep DEF TypeOK

(* MinedHasPaid is kept.                                                   *)
LEMMA MinedStep ==
  ASSUME IInv, [Next]_vars
  PROVE  MinedHasPaid'
<1> SUFFICES ASSUME NEW q \in Requests, tx'[q] = "mined"
             PROVE  usedNonces'[Key(q)] = q
  BY KeyStays DEF MinedHasPaid
<1>1. Key(q) \in Keys /\ q # Nobody
  BY KeyType, ContractAssumption DEF IInv, Submitters
<1>2. CASE tx[q] = "mined"
  BY <1>1, <1>2, UsedStays DEF IInv, MinedHasPaid
<1>3. CASE tx[q] # "mined"
  BY <1>1, <1>3, ChainStep DEF IInv, TypeOK
<1> QED
  BY <1>2, <1>3

(* What a request does to the memory of the service: it takes a nonce with *)
(* both entries, gives it up with both, or learns that it is used.         *)
LEMMA MemoryStep ==
  ASSUME TypeOK, NEW r \in Requests, Request(r)
  PROVE  /\ UNCHANGED now
         /\ \/ UNCHANGED <<cacheVars, settlements>>
            \/ /\ MarkNoncePending(Key(r)) /\ stage[r] = "unused"
               /\ settlements' = [settlements EXCEPT ![Key(r)] = now]
            \/ Forget(Key(r))
            \/ /\ MarkNonceUsed(Key(r)) /\ UNCHANGED settlements
               /\ IsNonceUsedOnChain(Key(r))
            \/ /\ MarkNonceUsed(Key(r)) /\ tx[r] = "mined"
               /\ settlements' = [settlements EXCEPT ![Key(r)] = Never]
BY DEF Request, Arrive, VerifyNonce, StartReserve, ReadNonce, Reserve, CheckFunds,
   Send, Receipt, Throw

(* PendingIsRecoverable is kept.                                           *)
LEMMA PendingStep ==
  ASSUME IInv, [Next]_vars
  PROVE  PendingIsRecoverable'
<1> USE DEF IInv, PendingIsRecoverable
<1>1. ASSUME NEW r \in Requests, Request(r)
      PROVE  PendingIsRecoverable'
  BY <1>1, MemoryStep, KeyType DEF TypeOK, cacheVars, Never, Forget,
     MarkNonceUsed, MarkNonceFailed, MarkNoncePending
<1>2. CASE (\E r \in Requests : Mine(r)) \/ Sweep \/ Tick \/ Others \/ UNCHANGED vars
  BY <1>2 DEF Mine, Sweep, CleanupOldNonces, Tick, Others, vars, cacheVars
<1>3. CASE CleanupStalePendingSettlements \/ Restart
  BY <1>3 DEF CleanupStalePendingSettlements, Restart, TypeOK
<1> QED
  BY <1>1, <1>2, <1>3 DEF Next

(* UsedIsUsedOnChain is kept.                                              *)
LEMMA UsedStep ==
  ASSUME IInv, [Next]_vars
  PROVE  UsedIsUsedOnChain'
<1> SUFFICES ASSUME NEW k \in Keys, usedSince'[k] # Never
             PROVE  usedNonces'[k] # Nobody
  BY DEF UsedIsUsedOnChain, IsUsed, IsNonceUsedOnChain
<1>1. usedSince[k] # Never => usedNonces'[k] # Nobody
  BY UsedStays DEF IInv, UsedIsUsedOnChain, IsUsed, IsNonceUsedOnChain
<1>2. CASE usedSince[k] # Never
  BY <1>1, <1>2
<1>3. CASE usedSince[k] = Never
  <2>1. ASSUME NEW r \in Requests, Request(r)
        PROVE  usedNonces'[k] # Nobody
    <3>1. k = Key(r) /\ usedNonces[k] # Nobody
      <4>1. tx[r] = "mined" => usedNonces[Key(r)] # Nobody
        BY ContractAssumption DEF IInv, MinedHasPaid, Submitters
      <4> QED
        BY <1>3, <2>1, <4>1, MemoryStep, KeyType DEF IInv, TypeOK, cacheVars, Forget,
           MarkNonceUsed, MarkNonceFailed, MarkNoncePending, IsNonceUsedOnChain
    <3> QED
      BY <3>1, UsedStays DEF IInv
  <2>2. CASE \/ \E r \in Requests : Mine(r)
             \/ Tick \/ Others \/ CleanupStalePendingSettlements
             \/ UNCHANGED vars
    BY <1>3, <2>2 DEF Mine, Tick, Others, CleanupStalePendingSettlements, vars, cacheVars
  <2>3. CASE Sweep \/ Restart
    BY <1>3, <2>3 DEF Sweep, CleanupOldNonces, Restart
  <2> QED
    BY <2>1, <2>2, <2>3 DEF Next
<1> QED
  BY <1>2, <1>3

(* An entry is dropped or written with the present time.                   *)
LEMMA EntryStep ==
  ASSUME TypeOK, [Next]_vars, NEW k \in Keys
  PROVE  settlements'[k] \in {settlements[k], now, Never}
<1>1. ASSUME NEW r \in Requests, Request(r)
      PROVE  settlements'[k] \in {settlements[k], now, Never}
  BY <1>1, MemoryStep, KeyType DEF TypeOK, Forget
<1>2. CASE CleanupStalePendingSettlements \/ Restart
  BY <1>2 DEF CleanupStalePendingSettlements, Restart
<1>3. CASE (\E r \in Requests : Mine(r)) \/ Sweep \/ Tick \/ Others \/ UNCHANGED vars
  BY <1>3 DEF Mine, Sweep, Tick, Others, vars
<1> QED
  BY <1>1, <1>2, <1>3 DEF Next

(* Where a request can be after a step, as far as the facts about time     *)
(* tell stages apart.                                                      *)
LEMMA StageStep ==
  ASSUME TypeOK, [Next]_vars, NEW q \in Requests
  PROVE  /\ now' \in Nat /\ now' >= now
         /\ Sent(q) => Sent(q)'
         /\ Verified(q)' /\ ~Verified(q) => TimestampOK(payment[q])
         /\ tx'[q] # "none" => tx[q] # "none" \/ Sent(q)'
         /\ InFlight(q)' => InFlight(q) \/ Reserve(q)
<1> USE DEF TypeOK, Verified, Sent, InFlight, Goto
<1>1. ASSUME NEW r \in Requests, Request(r)
      PROVE  /\ now' \in Nat /\ now' >= now
             /\ Sent(q) => Sent(q)'
             /\ Verified(q)' /\ ~Verified(q) => TimestampOK(payment[q])
             /\ tx'[q] # "none" => tx[q] # "none" \/ Sent(q)'
             /\ InFlight(q)' => InFlight(q) \/ Reserve(q)
  <2>1. CASE Arrive(r)
    BY <2>1 DEF Arrive, chainVars
  <2>2. CASE VerifyNonce(r) \/ StartReserve(r) \/ ReadNonce(r)
    <3>1. CASE VerifyNonce(r)
      BY <3>1 DEF VerifyNonce, chainVars
    <3>2. CASE StartReserve(r)
      BY <3>2 DEF StartReserve, chainVars
    <3>3. CASE ReadNonce(r)
      BY <3>3 DEF ReadNonce, chainVars
    <3> QED
      BY <2>2, <3>1, <3>2, <3>3
  <2>3. CASE Reserve(r)
    <3>1. /\ UNCHANGED <<now, tx>> /\ stage' = [stage EXCEPT ![r] = "checking"]
          /\ stage[r] = "unused"
      BY <2>3 DEF Reserve, chainVars
    <3>2. CASE q = r
      BY <2>3, <3>1, <3>2
    <3>3. CASE q # r
      BY <3>1, <3>3
    <3> QED
      BY <3>2, <3>3
  <2>4. CASE CheckFunds(r)
    <3>1. /\ UNCHANGED <<now, tx>> /\ stage[r] = "checking"
          /\ \/ stage' = [stage EXCEPT ![r] = "short"]
             \/ stage' = [stage EXCEPT ![r] = "sending"]
      BY <2>4 DEF CheckFunds, chainVars
    <3> QED
      BY <3>1
  <2>5. CASE Send(r)
    BY <2>5 DEF Send
  <2>6. CASE Receipt(r)
    BY <2>6 DEF Receipt, chainVars
  <2>7. CASE Throw(r)
    BY <2>7 DEF Throw, Awaiting
  <2> QED
    BY <1>1, <2>1, <2>2, <2>3, <2>4, <2>5, <2>6, <2>7 DEF Request
<1>2. ASSUME NEW r \in Requests, Mine(r)
      PROVE  /\ UNCHANGED <<now, stage>>
             /\ tx[r] = "sent" /\ tx'[r] \in {"mined", "reverted"}
             /\ \A p \in Requests \ {r} : tx'[p] = tx[p]
  BY <1>2 DEF Mine, requestVars
<1>3. CASE Restart
  BY <1>3 DEF Restart, chainVars, Awaiting
<1>4. CASE Tick
  BY <1>4 DEF Tick, chainVars, requestVars
<1>5. CASE Others
  BY <1>5 DEF Others, SettleDirectly, Transfer, Approve, SetTokenSupport, requestVars
<1>6. CASE CleanupStalePendingSettlements \/ Sweep \/ UNCHANGED vars
  BY <1>6 DEF CleanupStalePendingSettlements, Sweep, vars, chainVars, requestVars
<1> QED
  BY <1>1, <1>2, <1>3, <1>4, <1>5, <1>6 DEF Next

(* The facts about time are kept.                                          *)
LEMMA TimeStep ==
  ASSUME IInv, [Next]_vars
  PROVE  HasTxIsSent' /\ NotAhead' /\ EntryIsYoung'
<1>1. HasTxIsSent'
  BY StageStep DEF IInv, HasTxIsSent
<1>2. NotAhead'
  <2> SUFFICES ASSUME NEW q \in Requests, Verified(q)'
               PROVE  payment[q].timestamp <= now' + Skew
    BY KeyStays DEF NotAhead
  <2>1. payment[q].timestamp <= now + Skew
    BY StageStep DEF IInv, NotAhead, TimestampOK
  <2>2. /\ now \in Nat /\ now' \in Nat /\ now' >= now /\ Skew \in Nat
        /\ payment[q].timestamp \in Nat
    BY StageStep, KeyType, FacilitatorAssumption DEF IInv, TypeOK
  <2> QED
    BY <2>1, <2>2
<1>3. EntryIsYoung'
  <2> SUFFICES ASSUME NEW q \in Requests, InFlight(q)', settlements'[Key(q)] # Never
               PROVE  payment[q].timestamp <= settlements'[Key(q)] + Skew
    BY KeyStays DEF EntryIsYoung
  <2>1. InFlight(q) \/ Reserve(q)
    BY StageStep DEF IInv
  <2>2. Verified(q)
    BY <2>1 DEF IInv, HasTxIsSent, InFlight, Sent, Verified, Reserve
  <2>3. payment[q].timestamp <= now + Skew
    BY <2>2 DEF IInv, NotAhead
  <2>4. Key(q) \in Keys
    BY KeyType DEF IInv
  <2>5. CASE settlements'[Key(q)] = now
    BY <2>3, <2>5
  <2>6. CASE settlements'[Key(q)] = settlements[Key(q)]
    <3>1. CASE InFlight(q)
      BY <2>6, <3>1 DEF IInv, EntryIsYoung
    <3>2. CASE Reserve(q)
      BY <2>3, <2>4, <3>2 DEF Reserve, IInv, TypeOK
    <3> QED
      BY <2>1, <3>1, <3>2
  <2> QED
    BY <2>4, <2>5, <2>6, EntryStep DEF IInv
<1> QED
  BY <1>1, <1>2, <1>3

-----------------------------------------------------------------------------
(* A request is rejected for its time stamp when it arrives, or for what   *)
(* the cache or the chain says of its nonce.                               *)
LEMMA RejectionStep ==
  ASSUME TypeOK, [Next]_vars, NEW q \in Requests,
         stage[q] # "rejected", stage'[q] = "rejected",
         stage[q] = "idle" => TimestampOK(payment[q])
  PROVE  IsNonceUsedLocally(Key(q)) \/ IsNonceUsedOnChain(Key(q))
<1> DEFINE Known == IsNonceUsedLocally(Key(q)) \/ IsNonceUsedOnChain(Key(q))
<1> USE DEF TypeOK, Goto
<1>1. ASSUME NEW r \in Requests, Request(r)
      PROVE  Known
  <2>1. CASE Arrive(r)
    BY <2>1 DEF Arrive
  <2>2. CASE VerifyNonce(r)
    BY <2>2 DEF VerifyNonce
  <2>3. CASE StartReserve(r)
    BY <2>3 DEF StartReserve
  <2>4. CASE ReadNonce(r)
    BY <2>4 DEF ReadNonce
  <2>5. CASE Reserve(r) \/ CheckFunds(r) \/ Send(r) \/ Receipt(r) \/ Throw(r)
    BY <2>5 DEF Reserve, CheckFunds, Send, Receipt, Throw
  <2> QED
    BY <1>1, <2>1, <2>2, <2>3, <2>4, <2>5 DEF Request
<1>2. CASE Restart
  BY <1>2 DEF Restart, Awaiting
<1>3. CASE (\E r \in Requests : Mine(r)) \/ Sweep \/ Tick \/ Others \/ UNCHANGED vars
  BY <1>3 DEF Mine, Sweep, Tick, Others, vars, requestVars
<1>4. CASE CleanupStalePendingSettlements
  BY <1>4 DEF CleanupStalePendingSettlements, requestVars
<1> QED
  BY <1>1, <1>2, <1>3, <1>4 DEF Next

-----------------------------------------------------------------------------
(* The invariant holds at the start, is kept by every step, and so holds.  *)

(* The service starts with empty memory and no transaction.                *)
LEMMA InitIInv == Init => IInv
<1> SUFFICES ASSUME Init
             PROVE  IInv
  OBVIOUS
<1>1. TypeOK
  BY ContractAssumption DEF Init, ContractInit, CacheInit, TypeOK, TxStatus, Stage, Never
<1>2. MinedHasPaid /\ PendingIsRecoverable /\ UsedIsUsedOnChain
  BY DEF Init, ContractInit, CacheInit, MinedHasPaid, PendingIsRecoverable,
     UsedIsUsedOnChain, IsUsed
<1>3. HasTxIsSent /\ NotAhead /\ EntryIsYoung
  BY DEF Init, ContractInit, HasTxIsSent, NotAhead, Verified, EntryIsYoung, InFlight
<1> QED
  BY <1>1, <1>2, <1>3 DEF IInv

(* Every step keeps the invariant.                                         *)
LEMMA StepIInv == IInv /\ [Next]_vars => IInv'
<1> SUFFICES ASSUME IInv, [Next]_vars
             PROVE  IInv'
  OBVIOUS
<1>1. TypeOK'
  BY TypeStep DEF IInv
<1> QED
  BY <1>1, MinedStep, PendingStep, UsedStep, TimeStep DEF IInv

(* The invariant of the proofs.                                            *)
LEMMA Invariance == Spec => []IInv
  BY InitIInv, StepIInv, PTL DEF Spec

(* Type correctness: in particular no settlement takes money that is not   *)
(* there.                                                                  *)
THEOREM TypeCorrect == Spec => []TypeOK
<1>1. IInv => TypeOK
  BY DEF IInv
<1> QED
  BY <1>1, Invariance, PTL

(* What an exception leaves pending can be freed by                        *)
(* cleanupStalePendingSettlements.                                         *)
THEOREM PendingIsRecoverableHolds == Spec => []PendingIsRecoverable
<1>1. IInv => PendingIsRecoverable
  BY DEF IInv
<1> QED
  BY <1>1, Invariance, PTL

(* verifyPayment and reserveNonce turn away a payment in time only if the  *)
(* contract has used its nonce or a settlement of it is on record.         *)
THEOREM TurnedAwayForCauseHolds == Spec => TurnedAwayForCause
<1>1. ASSUME IInv, [Next]_vars
      PROVE  [\A r \in Requests :
               /\ stage[r] # "rejected" /\ stage'[r] = "rejected"
               /\ stage[r] = "idle" => TimestampOK(payment[r])
               => IsNonceUsedOnChain(Key(r)) \/ settlements[Key(r)] # Never]_vars
  <2> SUFFICES ASSUME NEW r \in Requests,
                      stage[r] # "rejected", stage'[r] = "rejected",
                      stage[r] = "idle" => TimestampOK(payment[r])
               PROVE  IsNonceUsedOnChain(Key(r)) \/ settlements[Key(r)] # Never
    OBVIOUS
  <2>1. IsNonceUsedLocally(Key(r)) \/ IsNonceUsedOnChain(Key(r))
    BY <1>1, RejectionStep DEF IInv
  <2> QED
    BY <1>1, <2>1, KeyType
    DEF IInv, IsNonceUsedLocally, UsedIsUsedOnChain, PendingIsRecoverable
<1> QED
  BY <1>1, Invariance, PTL DEF Spec, TurnedAwayForCause

(* A nonce freed as stale has no transaction that could still be mined     *)
(* more than Skew later.                                                   *)
THEOREM FreedIsOldHolds == Spec => FreedIsOld
<1>1. ASSUME IInv, [Next]_vars
      PROVE  [\A k \in pendingNonces \ pendingNonces' :
               Stale(k) => \A r \in Requests :
                 tx[r] = "sent" /\ Key(r) = k =>
                   now + Skew > payment[r].timestamp + MAX_PAYMENT_AGE]_vars
  <2> SUFFICES ASSUME NEW r \in Requests, Stale(Key(r)), tx[r] = "sent"
               PROVE  now + Skew > payment[r].timestamp + MAX_PAYMENT_AGE
    OBVIOUS
  <2>1. settlements[Key(r)] # Never /\ now - settlements[Key(r)] > StaleAfter
    BY DEF Stale
  <2>2. payment[r].timestamp <= settlements[Key(r)] + Skew
    BY <1>1, <2>1 DEF IInv, EntryIsYoung, InFlight
  <2>3. /\ settlements[Key(r)] \in Nat /\ now \in Nat
        /\ payment[r].timestamp \in Nat
    BY <1>1, <2>1, KeyType DEF IInv, TypeOK
  <2>4. /\ StaleAfter >= MAX_PAYMENT_AGE /\ StaleAfter \in Nat
        /\ MAX_PAYMENT_AGE \in Nat /\ Skew \in Nat
    BY FacilitatorAssumption, ContractAssumption
  <2> QED
    BY <2>1, <2>2, <2>3, <2>4
<1> QED
  BY <1>1, Invariance, PTL DEF Spec, FreedIsOld

-----------------------------------------------------------------------------
(* The service implements PaymentOnce.                                     *)

Told == {r \in Requests : stage[r] = "success"}

(* Only the receipt of a mined transaction makes a request tell success.   *)
LEMMA ToldStep ==
  ASSUME TypeOK, [Next]_vars
  PROVE  \/ Told' = Told
         \/ \E r \in Requests : /\ tx[r] = "mined" /\ Told' = Told \cup {r}
                                /\ UNCHANGED usedNonces
<1> USE DEF TypeOK, Told, Goto
<1>1. ASSUME NEW r \in Requests, Request(r)
      PROVE  \/ Told' = Told
             \/ tx[r] = "mined" /\ Told' = Told \cup {r} /\ UNCHANGED usedNonces
  <2>1. CASE Arrive(r)
    BY <2>1 DEF Arrive
  <2>2. CASE VerifyNonce(r)
    BY <2>2 DEF VerifyNonce
  <2>3. CASE StartReserve(r)
    BY <2>3 DEF StartReserve
  <2>4. CASE ReadNonce(r)
    BY <2>4 DEF ReadNonce
  <2>5. CASE Reserve(r)
    BY <2>5 DEF Reserve
  <2>6. CASE CheckFunds(r)
    BY <2>6 DEF CheckFunds
  <2>7. CASE Send(r)
    BY <2>7 DEF Send
  <2>8. CASE Receipt(r)
    BY <2>8 DEF Receipt, chainVars
  <2>9. CASE Throw(r)
    BY <2>9 DEF Throw, Awaiting
  <2> QED
    BY <1>1, <2>1, <2>2, <2>3, <2>4, <2>5, <2>6, <2>7, <2>8, <2>9 DEF Request
<1>2. CASE Restart
  BY <1>2 DEF Restart, Awaiting
<1>3. CASE (\E r \in Requests : Mine(r)) \/ Sweep \/ Tick \/ Others \/ UNCHANGED vars
  BY <1>3 DEF Mine, Sweep, Tick, Others, vars, requestVars
<1>4. CASE CleanupStalePendingSettlements
  BY <1>4 DEF CleanupStalePendingSettlements, requestVars
<1> QED
  BY <1>1, <1>2, <1>3, <1>4 DEF Next

(* Every step is a step of PaymentOnce, or none.                           *)
LEMMA StepOnce ==
  ASSUME IInv, [Next]_vars
  PROVE  [Once!Next]_Once!vars
<1> USE DEF Once!Next, Once!Pay, Once!Tell, Once!vars
<1>1. \A r \in Requests : Key(r) \in Keys
  BY KeyType DEF IInv
<1>2. CASE UNCHANGED usedNonces
  BY <1>1, <1>2, ToldStep DEF IInv, MinedHasPaid, Told
<1>3. ASSUME NEW k \in Keys, NEW who \in Submitters, usedNonces[k] = Nobody,
             usedNonces' = [usedNonces EXCEPT ![k] = who], UNCHANGED stage
      PROVE  Once!Next
  <2>1. Once!Pay(k, who)
    BY <1>3
  <2> QED
    BY <2>1 DEF Submitters
<1> QED
  BY <1>1, <1>2, <1>3, ChainStep DEF IInv, Submitters

(* Whatever is signed under one nonce is paid at most once, and whoever is *)
(* told of success has paid: the service implements PaymentOnce, for any   *)
(* number of requests, of payments under a nonce and of restarts.          *)
THEOREM PaidOnceHolds == Spec => PaidOnce
<1>1. Init => Once!Init
  BY DEF Init, ContractInit, Once!Init
<1> QED
  BY <1>1, StepOnce, Invariance, PTL DEF Spec, PaidOnce, Once!Spec

=============================================================================
