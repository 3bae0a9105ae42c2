------------------------------ MODULE OIF_proofs ----------------------------
(***************************************************************************)
(* Proofs about the Open Intents Framework, in two parts.                  *)
(*                                                                         *)
(* The first is about InputSettler alone, for every set of accounts,       *)
(* requests and oracles and every positive CLAIM_DELAY, and cites no       *)
(* assumption of OIF: its type invariant, that a settlement is a proper    *)
(* one and excludes the refund, that an order which paid out is never      *)
(* touched again, that the settler can pay what it owes, and that it       *)
(* implements the abstract Escrow.                                         *)
(*                                                                         *)
(* The second is about OIF, which extends InputSettler: its source chain   *)
(* is an input settler, so the invariant of the first part holds in it,    *)
(* and what connects the two chains and the agents is proved on top.       *)
(***************************************************************************)
EXTENDS OIF, Sums, TLAPS

(***************************************************************************)
(* The inductive invariant.  An order is filed under the id of its terms,  *)
(* was opened in time, and pays out in a later block than it was created   *)
(* in: this last part is what keeps _openOrder, which overwrites its slot, *)
(* from reviving an order that already paid.                               *)
(***************************************************************************)
WellFormed(id) ==
  /\ id = OrderId(id.user, orders[id].request, id.createdBlock)
  /\ id.createdBlock <= block
  /\ id.createdBlock <= orders[id].request.openDeadline
  /\ orders[id].request.openDeadline < orders[id].request.fillDeadline
  /\ Resolved(id) => id.createdBlock < block

OrdersWellFormed == \A id \in OrderIds : Exists(id) => WellFormed(id)

IInv == TypeOK /\ OrdersWellFormed /\ SettledProperly

(* What an order id is made of.                                            *)
LEMMA IdType ==
  ASSUME NEW id \in OrderIds
  PROVE  /\ id.user \in Accounts /\ id.token \in Tokens
         /\ id.amount \in Nat /\ id.createdBlock \in Nat
         /\ id.createdBlock \in Blocks
  BY RequestAssumption, BlockAssumption DEF OrderIds, OrderId, Blocks

(* An id read back from an account, a request and a block.                 *)
LEMMA IdFields ==
  ASSUME NEW u \in Accounts, NEW r \in Requests, NEW b \in Blocks
  PROVE  /\ OrderId(u, r, b) \in OrderIds
         /\ OrderId(u, r, b).user = u
         /\ OrderId(u, r, b).token = r.token
         /\ OrderId(u, r, b).amount = r.amount
         /\ OrderId(u, r, b).createdBlock = b
  BY DEF OrderIds, OrderId

(* The initial states satisfy the inductive invariant.                     *)
LEMMA InitInv == Init => IInv
  BY FundsAssumption, BlockAssumption
     DEF Init, IInv, TypeOK, OrdersWellFormed, SettledProperly, Exists, Blocks

(* The type invariant is preserved by every step.                          *)
LEMMA TypeStep == TypeOK /\ [Next]_vars => TypeOK'
<1> SUFFICES ASSUME TypeOK, [Next]_vars PROVE TypeOK'
  OBVIOUS
<1> USE DEF TypeOK
<1>1. ASSUME NEW u \in Accounts, NEW r \in Requests, OpenOrder(u, r)
      PROVE  TypeOK'
  <2>1. OrderId(u, r, block) \in OrderIds
    BY IdFields DEF OpenOrder, Acceptable
  <2>2. NewOrder(r) \in Order
    BY DEF NewOrder, Order
  <2>3. wallet' \in [Accounts -> [Tokens -> Nat]] /\ held' \in [Tokens -> Nat]
    BY <1>1, RequestAssumption DEF OpenOrder, Acceptable
  <2> QED
    BY <1>1, <2>1, <2>2, <2>3, RequestAssumption DEF OpenOrder, Acceptable
<1>2. ASSUME NEW u \in Accounts, NEW r \in Requests, Sign(u, r)
      PROVE  TypeOK'
  BY <1>2 DEF Sign
<1>3. ASSUME NEW a \in Accounts, NEW id \in OrderIds, ClaimOrder(a, id)
      PROVE  TypeOK'
  BY <1>3 DEF ClaimOrder, Exists, Order
<1>4. ASSUME NEW a \in Accounts, NEW id \in OrderIds,
             Transfer(a, id.token, id.amount)
      PROVE  wallet' \in [Accounts -> [Tokens -> Nat]] /\ held' \in [Tokens -> Nat]
  BY <1>4, IdType DEF Transfer
<1>5. ASSUME NEW a \in Accounts, NEW id \in OrderIds, Settle(a, id)
      PROVE  TypeOK'
  BY <1>4, <1>5 DEF Settle, CanSettle, Exists, Order
<1>6. ASSUME NEW id \in OrderIds, Refund(id)
      PROVE  TypeOK'
  BY <1>4, <1>6, IdType DEF Refund, CanRefund, Exists, Order
<1>7. ASSUME NEW o \in Oracles, SetOracle(o) PROVE TypeOK'
  BY <1>7 DEF SetOracle
<1>8. ASSUME NEW g \in Registries, SetSolverRegistry(g) PROVE TypeOK'
  BY <1>8 DEF SetSolverRegistry
<1>9. ASSUME NEW o \in Oracles, NEW id \in OrderIds, Attest(o, id)
      PROVE  TypeOK'
  BY <1>9 DEF Attest
<1>10. CASE Tick
  BY <1>10, BlockAssumption DEF Tick, Blocks
<1>11. CASE UNCHANGED vars
  BY <1>11 DEF vars
<1> QED
  BY <1>1, <1>2, <1>3, <1>5, <1>6, <1>7, <1>8, <1>9, <1>10, <1>11
     DEF Next, Open, OpenFor

(* Opening writes one slot; an order that was there is not resolved, since *)
(* its id carries the current block.                                       *)
LEMMA OpenStep ==
  ASSUME IInv, NEW u \in Accounts, NEW r \in Requests, OpenOrder(u, r)
  PROVE  /\ (OrdersWellFormed /\ SettledProperly)'
         /\ OrderId(u, r, block) \in OrderIds
         /\ ~Resolved(OrderId(u, r, block))
<1> DEFINE new == OrderId(u, r, block)
<1>1. /\ new \in OrderIds /\ new.user = u /\ new.createdBlock = block
      /\ new.token = r.token /\ new.amount = r.amount
  BY IdFields DEF IInv, TypeOK
<1>2. ~Resolved(new)
  <2>1. block \in Nat
    BY BlockAssumption DEF IInv, TypeOK, Blocks
  <2>2. \A id \in OrderIds : Resolved(id) => id.createdBlock < block
    BY DEF IInv, OrdersWellFormed, WellFormed, Resolved
  <2>3. SUFFICES ASSUME Resolved(new) PROVE FALSE
    OBVIOUS
  <2>4. new \in OrderIds /\ new.createdBlock = block
    BY <1>1
  <2> HIDE DEF new
  <2>5. new.createdBlock < block
    BY <2>2, <2>3, <2>4
  <2> QED
    BY <2>1, <2>4, <2>5
<1>3. /\ orders'[new] = NewOrder(r)
      /\ \A id \in OrderIds : id # new => orders'[id] = orders[id]
      /\ block' = block /\ attested' = attested
  BY <1>1 DEF OpenOrder, Acceptable, IInv, TypeOK
<1>4. NewOrder(r) # NoOrder
  <2>1. NewOrder(r) \in Order
    BY DEF NewOrder, Order
  <2> QED
    BY <2>1, NoOrderAssumption
<1>5. OrdersWellFormed'
  <2> SUFFICES ASSUME NEW id \in OrderIds, Exists(id)'
               PROVE  WellFormed(id)'
    BY DEF OrdersWellFormed
  <2>1. CASE id = new
    <3>1. ~Resolved(id)'
      BY <2>1, <1>3 DEF Resolved, NewOrder
    <3>2. id.createdBlock = block /\ block \in Nat
      BY <2>1, <1>1, BlockAssumption DEF IInv, TypeOK, Blocks
    <3> HIDE DEF new
    <3>3. /\ orders'[id].request = r
          /\ block <= r.openDeadline /\ r.openDeadline < r.fillDeadline
      BY <2>1, <1>3, RequestAssumption DEF NewOrder, OpenOrder, Acceptable
    <3>4. id = OrderId(id.user, r, id.createdBlock)
      BY <2>1, <1>1 DEF new
    <3> QED
      BY <3>1, <3>2, <3>3, <3>4, <1>3 DEF WellFormed
  <2>2. CASE id # new
    <3>1. orders'[id] = orders[id] /\ Exists(id)
      BY <2>2, <1>3 DEF Exists
    <3> QED
      BY <3>1, <1>3 DEF IInv, OrdersWellFormed, WellFormed, Resolved, Exists
  <2> QED
    BY <2>1, <2>2
<1>6. SettledProperly'
  BY <1>3 DEF IInv, SettledProperly, Exists, NewOrder
<1> QED
  BY <1>2, <1>1, <1>5, <1>6

(* Every step preserves the inductive invariant.                           *)
LEMMA InvStep == IInv /\ [Next]_vars => IInv'
<1> SUFFICES ASSUME IInv, [Next]_vars PROVE IInv'
  OBVIOUS
<1>0. TypeOK'
  BY TypeStep DEF IInv
<1>a. /\ TypeOK /\ block \in Nat /\ CLAIM_DELAY \in Nat \ {0}
      /\ \A id \in OrderIds : id.createdBlock \in Nat
  BY IdType, BlockAssumption, DelayAssumption DEF IInv, TypeOK, Blocks
<1> SUFFICES (OrdersWellFormed /\ SettledProperly)'
  BY <1>0 DEF IInv
<1>1. ASSUME NEW u \in Accounts, NEW r \in Requests, OpenOrder(u, r)
      PROVE  (OrdersWellFormed /\ SettledProperly)'
  BY <1>1, OpenStep
<1>2. ASSUME NEW u \in Accounts, NEW r \in Requests, Sign(u, r)
      PROVE  (OrdersWellFormed /\ SettledProperly)'
  BY <1>2 DEF Sign, IInv, OrdersWellFormed, WellFormed, Resolved, Exists,
              SettledProperly
<1>3. ASSUME NEW a \in Accounts, NEW id \in OrderIds, ClaimOrder(a, id)
      PROVE  (OrdersWellFormed /\ SettledProperly)'
  <2>1. /\ orders' = [orders EXCEPT ![id] = [@ EXCEPT !.solver = a]]
        /\ block' = block /\ attested' = attested
        /\ Exists(id) /\ orders[id] \in Order /\ ~orders[id].filled
    BY <1>3, <1>a DEF ClaimOrder, Exists, TypeOK
  <2>2. /\ orders'[id] \in Order
        /\ orders'[id].request = orders[id].request
        /\ orders'[id].filled = orders[id].filled
        /\ orders'[id].refunded = orders[id].refunded
        /\ \A j \in OrderIds : j # id => orders'[j] = orders[j]
    BY <2>1, <1>0, <1>a DEF TypeOK, Order
  <2>3. OrdersWellFormed'
    BY <2>1, <2>2 DEF IInv, OrdersWellFormed, WellFormed, Resolved, Exists
  <2>4. SettledProperly'
    BY <2>1, <2>2 DEF IInv, SettledProperly, Exists
  <2> QED
    BY <2>3, <2>4
<1>4. ASSUME NEW a \in Accounts, NEW id \in OrderIds, Settle(a, id)
      PROVE  (OrdersWellFormed /\ SettledProperly)'
  <2>1. /\ orders' = [orders EXCEPT ![id] = [@ EXCEPT !.filled = TRUE]]
        /\ block' = block /\ attested' = attested
        /\ Exists(id) /\ orders[id] \in Order
        /\ ~orders[id].refunded /\ orders[id].solver # NoAccount
        /\ block >= id.createdBlock + CLAIM_DELAY
        /\ \E o \in Oracles : id \in attested[o]
    BY <1>4, <1>a DEF Settle, CanSettle, Exists, Attested, TypeOK
  <2>2. /\ orders'[id].request = orders[id].request
        /\ orders'[id].solver = orders[id].solver
        /\ orders'[id].refunded = orders[id].refunded
        /\ \A j \in OrderIds : j # id => orders'[j] = orders[j]
    BY <2>1, <1>a DEF TypeOK, Order
  <2>3. OrdersWellFormed'
    BY <2>1, <2>2, <1>a DEF IInv, OrdersWellFormed, WellFormed, Resolved, Exists
  <2>4. SettledProperly'
    BY <2>1, <2>2 DEF IInv, SettledProperly, Exists
  <2> QED
    BY <2>3, <2>4
<1>5. ASSUME NEW id \in OrderIds, Refund(id)
      PROVE  (OrdersWellFormed /\ SettledProperly)'
  <2>1. /\ orders' = [orders EXCEPT ![id] = [@ EXCEPT !.refunded = TRUE]]
        /\ block' = block /\ attested' = attested
        /\ Exists(id) /\ orders[id] \in Order
        /\ ~orders[id].filled /\ block > orders[id].request.fillDeadline
    BY <1>5, <1>a DEF Refund, CanRefund, Exists, TypeOK
  <2>2. /\ orders'[id].request = orders[id].request
        /\ orders'[id].filled = orders[id].filled
        /\ \A j \in OrderIds : j # id => orders'[j] = orders[j]
    BY <2>1, <1>a DEF TypeOK, Order
  <2>3. id.createdBlock < block
    BY <2>1, <1>a, RequestAssumption
       DEF IInv, OrdersWellFormed, WellFormed, Order
  <2>4. OrdersWellFormed'
    BY <2>1, <2>2, <2>3 DEF IInv, OrdersWellFormed, WellFormed, Resolved, Exists
  <2>5. SettledProperly'
    BY <2>1, <2>2 DEF IInv, SettledProperly, Exists
  <2> QED
    BY <2>4, <2>5
<1>6. ASSUME NEW o \in Oracles, SetOracle(o)
      PROVE  (OrdersWellFormed /\ SettledProperly)'
  BY <1>6 DEF SetOracle, IInv, OrdersWellFormed, WellFormed, Resolved, Exists,
              SettledProperly
<1>7. ASSUME NEW g \in Registries, SetSolverRegistry(g)
      PROVE  (OrdersWellFormed /\ SettledProperly)'
  BY <1>7 DEF SetSolverRegistry, IInv, OrdersWellFormed, WellFormed, Resolved,
              Exists, SettledProperly
<1>8. ASSUME NEW o \in Oracles, NEW id \in OrderIds, Attest(o, id)
      PROVE  (OrdersWellFormed /\ SettledProperly)'
  <2>1. /\ orders' = orders /\ block' = block
        /\ \A p \in Oracles : attested[p] \subseteq attested'[p]
    BY <1>8, <1>a DEF Attest, TypeOK
  <2> QED
    BY <2>1 DEF IInv, OrdersWellFormed, WellFormed, Resolved, Exists,
                SettledProperly
<1>9. CASE Tick
  <2>1. orders' = orders /\ attested' = attested /\ block' = block + 1
    BY <1>9 DEF Tick
  <2>2. OrdersWellFormed'
    BY <2>1, <1>a DEF IInv, OrdersWellFormed, WellFormed, Resolved, Exists
  <2>3. SettledProperly'
    BY <2>1, <1>a DEF IInv, SettledProperly, Exists
  <2> QED
    BY <2>2, <2>3
<1>10. CASE UNCHANGED vars
  BY <1>10 DEF vars, IInv, OrdersWellFormed, WellFormed, Resolved, Exists,
               SettledProperly
<1> QED
  BY <1>1, <1>2, <1>3, <1>4, <1>5, <1>6, <1>7, <1>8, <1>9, <1>10
     DEF Next, Open, OpenFor

LEMMA InvHolds == Spec => []IInv
<1>1. Init => IInv
  BY InitInv
<1>2. IInv /\ [Next]_vars => IInv'
  BY InvStep
<1> QED
  BY <1>1, <1>2, PTL DEF Spec

(***************************************************************************)
(* Main results.                                                           *)
(***************************************************************************)

(* Every variable keeps the type its declaration in the contract gives it, *)
(* so no balance underflows and no order is stored under a foreign id.     *)
THEOREM TypeCorrect == Spec => []TypeOK
  BY InvHolds, PTL DEF IInv

(* settle and refund never both end one order, and settle needs a claim,   *)
(* an attestation and the claim delay, whatever setOracle, claimOrder and  *)
(* re-opening under the same id do in between.                             *)
THEOREM SettledProperlyHolds == Spec => []SettledProperly
  BY InvHolds, PTL DEF IInv

(* An order that paid out is never written again by any transaction, in    *)
(* particular not by _openOrder, which does not look at what it overwrites. *)
LEMMA ResolvedStep ==
  IInv /\ [Next]_vars
    => \A id \in OrderIds : Resolved(id) => orders'[id] = orders[id]
<1> SUFFICES ASSUME IInv, [Next]_vars, NEW j \in OrderIds, Resolved(j)
             PROVE  orders'[j] = orders[j]
  OBVIOUS
<1>0. TypeOK
  BY DEF IInv
<1>1. ASSUME NEW u \in Accounts, NEW r \in Requests, OpenOrder(u, r)
      PROVE  orders'[j] = orders[j]
  <2>1. j # OrderId(u, r, block)
    BY <1>1, OpenStep
  <2> QED
    BY <1>0, <1>1, <2>1 DEF OpenOrder, Acceptable, TypeOK
<1>2. ASSUME NEW a \in Accounts, NEW id \in OrderIds,
             ClaimOrder(a, id) \/ Settle(a, id)
      PROVE  orders'[j] = orders[j]
  <2>1. ~Resolved(id)
    BY <1>2 DEF ClaimOrder, Settle, CanSettle, Resolved
  <2> QED
    BY <1>0, <1>2, <2>1 DEF ClaimOrder, Settle, TypeOK
<1>3. ASSUME NEW id \in OrderIds, Refund(id)
      PROVE  orders'[j] = orders[j]
  <2>1. ~Resolved(id)
    BY <1>3 DEF Refund, CanRefund, Resolved
  <2> QED
    BY <1>0, <1>3, <2>1 DEF Refund, TypeOK
<1> QED
  BY <1>1, <1>2, <1>3
     DEF Next, Open, OpenFor, Sign, SetOracle, SetSolverRegistry, Attest,
         Tick, vars

THEOREM ResolvedIsFinalHolds == Spec => ResolvedIsFinal
<1>1. IInv /\ [Next]_vars
        => [\A id \in OrderIds : Resolved(id) => orders'[id] = orders[id]]_vars
  BY ResolvedStep
<1> QED
  BY <1>1, InvHolds, PTL DEF Spec, ResolvedIsFinal

(* Once its creation block is over, an order keeps its terms, and a claim  *)
(* is exclusive for good.                                                  *)
LEMMA ClaimStep ==
  IInv /\ [Next]_vars
    => \A id \in OrderIds : Exists(id) /\ block > id.createdBlock =>
         /\ orders'[id].request = orders[id].request
         /\ orders[id].solver # NoAccount =>
              orders'[id].solver = orders[id].solver
<1> SUFFICES ASSUME IInv, [Next]_vars, NEW j \in OrderIds, Exists(j),
                    block > j.createdBlock
             PROVE  /\ orders'[j].request = orders[j].request
                    /\ orders[j].solver # NoAccount =>
                         orders'[j].solver = orders[j].solver
  OBVIOUS
<1>0. TypeOK /\ orders[j] \in Order /\ block \in Nat
  BY BlockAssumption DEF IInv, TypeOK, Exists, Blocks
<1>1. ASSUME NEW u \in Accounts, NEW r \in Requests, OpenOrder(u, r)
      PROVE  orders'[j] = orders[j]
  <2>1. OrderId(u, r, block).createdBlock = block
    BY IdFields DEF IInv, TypeOK
  <2>2. j # OrderId(u, r, block)
    BY <1>0, <2>1
  <2> QED
    BY <1>0, <1>1, <2>2 DEF OpenOrder, Acceptable, TypeOK
<1>2. ASSUME NEW a \in Accounts, NEW id \in OrderIds, ClaimOrder(a, id)
      PROVE  /\ orders'[j].request = orders[j].request
             /\ orders[j].solver # NoAccount =>
                  orders'[j].solver = orders[j].solver
  BY <1>0, <1>2 DEF ClaimOrder, TypeOK, Order
<1>3. ASSUME NEW a \in Accounts, NEW id \in OrderIds,
             Settle(a, id) \/ Refund(id)
      PROVE  /\ orders'[j].request = orders[j].request
             /\ orders'[j].solver = orders[j].solver
  BY <1>0, <1>3 DEF Settle, Refund, TypeOK, Order
<1>4. ASSUME NEW id \in OrderIds, Refund(id)
      PROVE  /\ orders'[j].request = orders[j].request
             /\ orders'[j].solver = orders[j].solver
  BY <1>0, <1>4 DEF Refund, TypeOK, Order
<1> QED
  BY <1>1, <1>2, <1>3, <1>4
     DEF Next, Open, OpenFor, Sign, SetOracle, SetSolverRegistry, Attest,
         Tick, vars

THEOREM ClaimIsFinalHolds == Spec => ClaimIsFinal
<1>1. IInv /\ [Next]_vars
        => [\A id \in OrderIds : Exists(id) /\ block > id.createdBlock =>
              /\ orders'[id].request = orders[id].request
              /\ orders[id].solver # NoAccount =>
                   orders'[id].solver = orders[id].solver]_vars
  BY ClaimStep
<1> QED
  BY <1>1, InvHolds, PTL DEF Spec, ClaimIsFinal

(***************************************************************************)
(* Refinement: every step of the contract is a step of the escrow or       *)
(* leaves the escrow's view unchanged.                                     *)
(***************************************************************************)
LEMMA EscrowInit == Init => E!Init
  BY DEF Init, E!Init, EscrowStatus, Exists, PastDeadline

(* The escrow's view, named so that steps can speak about it.              *)
StatusView == [id \in OrderIds |-> EscrowStatus(id)]
EvidenceView == UNION {attested[o] : o \in Oracles}
ExpiredView == {id \in OrderIds : PastDeadline(id)}

(* Re-opening a slot neither expires nor un-expires it: what was there has *)
(* a deadline after the current block, and so has what is stored now.      *)
LEMMA OpenIsDeposit ==
  ASSUME IInv, NEW u \in Accounts, NEW r \in Requests, OpenOrder(u, r)
  PROVE  E!Deposit(OrderId(u, r, block))
<1>0. PICK new \in OrderIds : new = OrderId(u, r, block)
  BY IdFields DEF IInv, TypeOK
<1>1. /\ new \in OrderIds /\ new.user = u /\ new.createdBlock = block
      /\ new.token = r.token /\ new.amount = r.amount
  BY <1>0, IdFields DEF IInv, TypeOK
<1>2. ~Resolved(new) /\ block \in Nat
  BY <1>0, OpenStep, BlockAssumption DEF IInv, TypeOK, Blocks
<1>3. /\ orders'[new] = NewOrder(r)
      /\ \A id \in OrderIds : id # new => orders'[id] = orders[id]
      /\ block' = block /\ attested' = attested
  BY <1>0, <1>1 DEF OpenOrder, Acceptable, IInv, TypeOK
<1>4. NewOrder(r) # NoOrder
  <2>1. NewOrder(r) \in Order
    BY DEF NewOrder, Order
  <2> QED
    BY <2>1, NoOrderAssumption
<1>5. /\ wallet' = [wallet EXCEPT ![new.user][new.token] = @ - new.amount]
      /\ held' = [held EXCEPT ![new.token] = @ + new.amount]
  BY <1>1 DEF OpenOrder, Acceptable
<1>6. ~PastDeadline(new) /\ ~PastDeadline(new)'
  <2>1. ASSUME Exists(new) PROVE ~PastDeadline(new)
    <3>1. /\ block <= orders[new].request.openDeadline
          /\ orders[new].request.openDeadline < orders[new].request.fillDeadline
      BY <1>1, <2>1 DEF IInv, OrdersWellFormed, WellFormed
    <3>2. orders[new].request \in Requests
      BY <1>1, <2>1 DEF IInv, TypeOK, Exists, Order
    <3> QED
      BY <3>1, <3>2, <1>2, RequestAssumption DEF PastDeadline
  <2>2. block <= r.openDeadline /\ r.openDeadline < r.fillDeadline
    BY RequestAssumption DEF OpenOrder, Acceptable
  <2>3. ~PastDeadline(new)'
    BY <1>2, <1>3, <2>2, RequestAssumption DEF PastDeadline, NewOrder
  <2> QED
    BY <2>1, <2>3 DEF PastDeadline
<1>7. ExpiredView' = ExpiredView
  BY <1>3, <1>6 DEF ExpiredView, PastDeadline, Exists
<1>8. StatusView' = [StatusView EXCEPT ![new] = "locked"]
  <2>1. EscrowStatus(new)' = "locked"
    BY <1>3, <1>4 DEF EscrowStatus, Exists, NewOrder
  <2>2. \A id \in OrderIds : id # new => EscrowStatus(id)' = EscrowStatus(id)
    BY <1>3 DEF EscrowStatus, Exists
  <2> QED
    BY <2>1, <2>2, <1>1 DEF StatusView
<1>9. StatusView[new] \in {"none", "locked"}
  BY <1>1, <1>2 DEF StatusView, EscrowStatus, Resolved
<1>10. E!Deposit(new)
  BY <1>1, <1>3, <1>5, <1>7, <1>8, <1>9
     DEF E!Deposit, StatusView, ExpiredView
<1> QED
  BY <1>0, <1>10

LEMMA SettleIsPayOut ==
  ASSUME IInv, NEW a \in Accounts, NEW id \in OrderIds, Settle(a, id)
  PROVE  E!PayOut(id, a)
<1>0. TypeOK
  BY DEF IInv
<1>1. /\ Exists(id) /\ ~Resolved(id)
      /\ orders' = [orders EXCEPT ![id] = [@ EXCEPT !.filled = TRUE]]
      /\ block' = block /\ attested' = attested
      /\ id \in EvidenceView
  BY <1>0 DEF Settle, CanSettle, Attested, Exists, Resolved, EvidenceView, TypeOK
<1>2. /\ orders[id] \in Order /\ NoOrder \notin Order
      /\ orders'[id] \in Order
      /\ orders'[id].filled
      /\ orders'[id].request = orders[id].request
      /\ \A j \in OrderIds : j # id => orders'[j] = orders[j]
  BY <1>0, <1>1, NoOrderAssumption DEF Exists, TypeOK, Order
<1>3. ExpiredView' = ExpiredView
  BY <1>1, <1>2 DEF ExpiredView, PastDeadline, Exists
<1>4. StatusView' = [StatusView EXCEPT ![id] = "paid"]
  <2>1. EscrowStatus(id)' = "paid"
    BY <1>2 DEF EscrowStatus, Exists
  <2>2. \A j \in OrderIds : j # id => EscrowStatus(j)' = EscrowStatus(j)
    BY <1>2 DEF EscrowStatus, Exists
  <2> QED
    BY <2>1, <2>2 DEF StatusView
<1>5. StatusView[id] = "locked"
  BY <1>1 DEF StatusView, EscrowStatus, Resolved, Exists
<1> QED
  BY <1>1, <1>3, <1>4, <1>5
     DEF E!PayOut, E!Release, StatusView, ExpiredView, EvidenceView, Settle,
         Transfer

LEMMA RefundIsGiveBack ==
  ASSUME IInv, NEW id \in OrderIds, Refund(id)
  PROVE  E!GiveBack(id)
<1>0. TypeOK
  BY DEF IInv
<1>1. /\ Exists(id) /\ ~Resolved(id)
      /\ orders' = [orders EXCEPT ![id] = [@ EXCEPT !.refunded = TRUE]]
      /\ block' = block /\ attested' = attested
      /\ id \in ExpiredView
  BY <1>0 DEF Refund, CanRefund, Exists, Resolved, ExpiredView, PastDeadline,
              TypeOK
<1>2. /\ orders[id] \in Order /\ NoOrder \notin Order
      /\ orders'[id] \in Order
      /\ orders'[id].refunded /\ orders'[id].filled = orders[id].filled
      /\ orders'[id].request = orders[id].request
      /\ \A j \in OrderIds : j # id => orders'[j] = orders[j]
  BY <1>0, <1>1, NoOrderAssumption DEF Exists, TypeOK, Order
<1>3. ExpiredView' = ExpiredView
  BY <1>1, <1>2 DEF ExpiredView, PastDeadline, Exists
<1>4. StatusView' = [StatusView EXCEPT ![id] = "refunded"]
  <2>1. EscrowStatus(id)' = "refunded"
    BY <1>1, <1>2 DEF EscrowStatus, Exists, Resolved
  <2>2. \A j \in OrderIds : j # id => EscrowStatus(j)' = EscrowStatus(j)
    BY <1>2 DEF EscrowStatus, Exists
  <2> QED
    BY <2>1, <2>2 DEF StatusView
<1>5. StatusView[id] = "locked"
  BY <1>1 DEF StatusView, EscrowStatus, Resolved, Exists
<1> QED
  BY <1>1, <1>3, <1>4, <1>5
     DEF E!GiveBack, E!Release, StatusView, ExpiredView, EvidenceView, Refund,
         Transfer

LEMMA EscrowStep == IInv /\ [Next]_vars => [E!Next]_(E!vars)
<1> SUFFICES ASSUME IInv, [Next]_vars PROVE [E!Next]_(E!vars)
  OBVIOUS
<1>0. TypeOK
  BY DEF IInv
<1>1. ASSUME NEW u \in Accounts, NEW r \in Requests, OpenOrder(u, r)
      PROVE  E!Next
  BY <1>1, OpenIsDeposit, IdFields DEF E!Next, IInv, TypeOK
<1>2. ASSUME NEW a \in Accounts, NEW id \in OrderIds, Settle(a, id)
      PROVE  E!Next
  BY <1>2, SettleIsPayOut DEF E!Next
<1>3. ASSUME NEW id \in OrderIds, Refund(id)
      PROVE  E!Next
  BY <1>3, RefundIsGiveBack DEF E!Next
<1>4. ASSUME NEW a \in Accounts, NEW id \in OrderIds, ClaimOrder(a, id)
      PROVE  UNCHANGED E!vars
  <2>1. /\ orders' = [orders EXCEPT ![id] = [@ EXCEPT !.solver = a]]
        /\ Exists(id) /\ orders[id] \in Order
        /\ UNCHANGED <<block, attested, wallet, held>>
    BY <1>0, <1>4 DEF ClaimOrder, Exists, TypeOK
  <2>2. /\ orders'[id] \in Order
        /\ orders'[id].request = orders[id].request
        /\ orders'[id].filled = orders[id].filled
        /\ orders'[id].refunded = orders[id].refunded
        /\ \A j \in OrderIds : j # id => orders'[j] = orders[j]
    BY <1>0, <2>1 DEF TypeOK, Order
  <2>3. \A j \in OrderIds : /\ EscrowStatus(j)' = EscrowStatus(j)
                            /\ PastDeadline(j)' = PastDeadline(j)
    BY <2>1, <2>2, NoOrderAssumption DEF EscrowStatus, Exists, PastDeadline
  <2> QED
    BY <2>1, <2>3 DEF E!vars
<1>5. ASSUME UNCHANGED <<block, orders, attested, wallet, held>>
      PROVE  UNCHANGED E!vars
  BY <1>5 DEF E!vars, EscrowStatus, Exists, PastDeadline
<1>6. ASSUME NEW o \in Oracles, NEW id \in OrderIds, Attest(o, id)
      PROVE  E!Next
  <2>1. /\ UNCHANGED <<orders, block, wallet, held>>
        /\ \A p \in Oracles : attested[p] \subseteq attested'[p]
    BY <1>0, <1>6 DEF Attest, TypeOK
  <2>2. EvidenceView \subseteq EvidenceView'
    BY <2>1 DEF EvidenceView
  <2>3. ExpiredView' = ExpiredView /\ StatusView' = StatusView
    BY <2>1 DEF ExpiredView, StatusView, EscrowStatus, Exists, PastDeadline
  <2>4. E!Environment
    BY <2>1, <2>2, <2>3
       DEF E!Environment, EvidenceView, ExpiredView, StatusView
  <2> QED
    BY <2>4 DEF E!Next
<1>7. CASE Tick
  <2>1. UNCHANGED <<orders, attested, wallet, held>> /\ block' = block + 1
    BY <1>7 DEF Tick
  <2>2. ExpiredView \subseteq ExpiredView'
    <3> SUFFICES ASSUME NEW id \in OrderIds, PastDeadline(id)
                 PROVE  PastDeadline(id)'
      BY DEF ExpiredView
    <3>1. orders[id].request \in Requests /\ block \in Nat
      BY <1>0, BlockAssumption DEF PastDeadline, Exists, TypeOK, Order, Blocks
    <3> QED
      BY <2>1, <3>1, RequestAssumption DEF PastDeadline, Exists
  <2>3. EvidenceView' = EvidenceView /\ StatusView' = StatusView
    BY <2>1 DEF EvidenceView, StatusView, EscrowStatus, Exists
  <2>4. E!Environment
    BY <2>1, <2>2, <2>3
       DEF E!Environment, EvidenceView, ExpiredView, StatusView
  <2> QED
    BY <2>4 DEF E!Next
<1> QED
  BY <1>1, <1>2, <1>3, <1>4, <1>5, <1>6, <1>7
     DEF Next, Open, OpenFor, Sign, SetOracle, SetSolverRegistry, vars

(* Funds are locked until oracle attestation or expiry, then leave once:   *)
(* the contract implements Escrow.                                         *)
THEOREM ImplementsEscrow == Spec => EscrowSpec
<1>1. Init => E!Init
  BY EscrowInit
<1>2. IInv /\ [Next]_vars => [E!Next]_(E!vars)
  BY EscrowStep
<1> QED
  BY <1>1, <1>2, InvHolds, PTL DEF Spec, EscrowSpec, E!Spec

(***************************************************************************)
(* Solvency: the balance against the sum of what is owed.                  *)
(***************************************************************************)
(* There are finitely many order ids: one per account, request and block.  *)
LEMMA FiniteIds == IsFiniteSet(OrderIds)
<1> DEFINE Parts == Accounts \X (Requests \X Blocks)
<1>1. IsFiniteSet(Parts)
  <2>1. IsFiniteSet(Blocks)
    BY FS_Interval, BlockAssumption DEF Blocks
  <2> QED
    BY <2>1, FiniteAssumption, FS_Product
<1>2. PICK f : f = [p \in Parts |-> OrderId(p[1], p[2][1], p[2][2])]
  OBVIOUS
<1>3. f \in [Parts -> OrderIds]
  BY <1>2 DEF OrderIds
<1>4. ASSUME NEW id \in OrderIds PROVE \E p \in Parts : f[p] = id
  <2>1. PICK u \in Accounts, r \in Requests, b \in Blocks : id = OrderId(u, r, b)
    BY DEF OrderIds
  <2>2. <<u, <<r, b>>>> \in Parts /\ f[<<u, <<r, b>>>>] = id
    BY <1>2, <2>1
  <2> QED
    BY <2>2
<1>5. f \in Surjection(Parts, OrderIds)
  BY <1>3, <1>4 DEF Surjection
<1> QED
  BY <1>1, <1>5, FS_Surjection

(* A step that writes one order changes the amount by that order's share.  *)
LEMMA LockedAmountStep ==
  ASSUME NEW t, NEW id \in OrderIds,
         \A j \in OrderIds \ {id} : orders'[j] = orders[j]
  PROVE  LockedAmount(t)' = LockedAmount(t) + (Owed(id, t)' - Owed(id, t))
<1>1. PICK f, g : /\ f = [j \in OrderIds |-> Owed(j, t)]
                  /\ g = [j \in OrderIds |-> Owed(j, t)']
  OBVIOUS
<1>2. f \in [OrderIds -> Int] /\ g \in [OrderIds -> Int]
  BY <1>1, IdType DEF Owed
<1>3. \A j \in OrderIds \ {id} : g[j] = f[j]
  BY <1>1 DEF Owed, Locked, Exists, Resolved
<1>4. SumFunction(g) = SumFunction(f) + (g[id] - f[id])
  BY <1>2, <1>3, FiniteIds, SumChange
<1> QED
  BY <1>1, <1>4 DEF LockedAmount

(* The amount is natural, and a locked order is part of it.                *)
LEMMA LockedAmountType ==
  ASSUME NEW t
  PROVE  LockedAmount(t) \in Nat /\ \A id \in OrderIds : Owed(id, t) <= LockedAmount(t)
<1>1. PICK f : f = [j \in OrderIds |-> Owed(j, t)]
  OBVIOUS
<1>2. f \in [OrderIds -> Nat]
  BY <1>1, IdType DEF Owed
<1>3. SumFunction(f) \in Nat /\ \A id \in OrderIds : f[id] <= SumFunction(f)
  BY <1>2, FiniteIds, SumNat
<1> QED
  BY <1>1, <1>3 DEF LockedAmount

LEMMA SolventInit == Init => Solvent
<1> SUFFICES ASSUME Init, NEW t \in Tokens PROVE held[t] >= LockedAmount(t)
  BY DEF Solvent
<1>1. PICK f : f = [j \in OrderIds |-> Owed(j, t)]
  OBVIOUS
<1>2. f \in [OrderIds -> Int] /\ \A id \in OrderIds : f[id] = 0
  BY <1>1 DEF Owed, Locked, Exists, Init
<1>3. SumFunction(f) = 0
  BY <1>2, FiniteIds, SumZero
<1> QED
  BY <1>1, <1>3 DEF LockedAmount, Init

(* An order that opens brings its amount along; the one it overwrites, if  *)
(* any, had the same id and so the same amount, which stays with the       *)
(* settler.                                                                *)
LEMMA SolventOpen ==
  ASSUME IInv, Solvent, NEW u \in Accounts, NEW r \in Requests, OpenOrder(u, r)
  PROVE  Solvent'
<1> SUFFICES ASSUME NEW t \in Tokens PROVE held'[t] >= LockedAmount(t)'
  BY DEF Solvent
<1>1. PICK id \in OrderIds : /\ id = OrderId(u, r, block)
                            /\ id.token = r.token /\ id.amount = r.amount
  BY IdFields DEF IInv, TypeOK
<1>2. /\ \A j \in OrderIds \ {id} : orders'[j] = orders[j]
      /\ held' = [held EXCEPT ![r.token] = @ + r.amount]
      /\ held \in [Tokens -> Nat] /\ r.token \in Tokens /\ r.amount \in Nat
  BY <1>1, RequestAssumption DEF OpenOrder, Acceptable, IInv, TypeOK
<1>3. LockedAmount(t)' = LockedAmount(t) + (Owed(id, t)' - Owed(id, t))
  BY <1>2, LockedAmountStep
<1>4. Owed(id, t)' <= (IF id.token = t THEN id.amount ELSE 0) /\ Owed(id, t)' \in Nat
  BY IdType DEF Owed
<1>5. Owed(id, t) \in Nat /\ LockedAmount(t) \in Nat /\ held[t] >= LockedAmount(t)
  BY IdType, LockedAmountType DEF Owed, Solvent
<1> QED
  BY <1>1, <1>2, <1>3, <1>4, <1>5

(* An order that pays out was locked, and is owed nothing after.           *)
LEMMA SolventPay ==
  ASSUME IInv, Solvent, NEW a \in Accounts, NEW id \in OrderIds,
         Locked(id), Resolved(id)',
         \A j \in OrderIds \ {id} : orders'[j] = orders[j],
         Transfer(a, id.token, id.amount)
  PROVE  Solvent'
<1> SUFFICES ASSUME NEW t \in Tokens PROVE held'[t] >= LockedAmount(t)'
  BY DEF Solvent
<1>1. /\ held' = [held EXCEPT ![id.token] = @ - id.amount]
      /\ held \in [Tokens -> Nat] /\ id.token \in Tokens /\ id.amount \in Nat
  BY IdType DEF Transfer, IInv, TypeOK
<1>2. LockedAmount(t)' = LockedAmount(t) + (Owed(id, t)' - Owed(id, t))
  BY LockedAmountStep
<1>3. /\ Owed(id, t) = IF id.token = t THEN id.amount ELSE 0
      /\ Owed(id, t)' = 0
  BY DEF Owed, Locked
<1>4. LockedAmount(t) \in Nat /\ held[t] >= LockedAmount(t)
  BY LockedAmountType DEF Solvent
<1> QED
  BY <1>1, <1>2, <1>3, <1>4

LEMMA SolventStep == IInv /\ Solvent /\ [Next]_vars => Solvent'
<1> SUFFICES ASSUME IInv, Solvent, [Next]_vars PROVE Solvent'
  OBVIOUS
<1>0. TypeOK
  BY DEF IInv
<1>1. ASSUME NEW u \in Accounts, NEW r \in Requests, OpenOrder(u, r)
      PROVE  Solvent'
  BY <1>1, SolventOpen
<1>2. ASSUME NEW a \in Accounts, NEW id \in OrderIds, ClaimOrder(a, id)
      PROVE  Solvent'
  <2>1. /\ orders' = [orders EXCEPT ![id] = [@ EXCEPT !.solver = a]]
        /\ Exists(id) /\ orders[id] \in Order /\ held' = held
    BY <1>0, <1>2 DEF ClaimOrder, Exists, TypeOK
  <2>2. /\ orders'[id] \in Order
        /\ orders'[id].filled = orders[id].filled
        /\ orders'[id].refunded = orders[id].refunded
        /\ \A j \in OrderIds \ {id} : orders'[j] = orders[j]
    BY <1>0, <2>1 DEF TypeOK, Order
  <2>3. Locked(id)' <=> Locked(id)
    BY <2>1, <2>2, NoOrderAssumption DEF Locked, Resolved, Exists
  <2>4. \A t \in Tokens : LockedAmount(t)' = LockedAmount(t)
    <3>1. \A t \in Tokens : /\ Owed(id, t)' = Owed(id, t) /\ Owed(id, t) \in Nat
                            /\ LockedAmount(t) \in Nat
      BY <2>3, IdType, LockedAmountType DEF Owed
    <3>2. \A t \in Tokens :
            LockedAmount(t)' = LockedAmount(t) + (Owed(id, t)' - Owed(id, t))
      BY <2>2, LockedAmountStep
    <3> QED
      BY <3>1, <3>2
  <2> QED
    BY <2>1, <2>4 DEF Solvent
<1>3. ASSUME NEW a \in Accounts, NEW id \in OrderIds, Settle(a, id)
      PROVE  Solvent'
  <2>1. /\ orders' = [orders EXCEPT ![id] = [@ EXCEPT !.filled = TRUE]]
        /\ Locked(id) /\ orders[id] \in Order
        /\ Transfer(a, id.token, id.amount)
    BY <1>0, <1>3 DEF Settle, CanSettle, Locked, Resolved, Exists, TypeOK
  <2>2. /\ orders'[id] \in Order /\ orders'[id].filled
        /\ \A j \in OrderIds \ {id} : orders'[j] = orders[j]
    BY <1>0, <2>1 DEF TypeOK, Order
  <2>3. Resolved(id)'
    BY <2>2, NoOrderAssumption DEF Resolved, Exists
  <2> QED
    BY <2>1, <2>2, <2>3, SolventPay
<1>4. ASSUME NEW id \in OrderIds, Refund(id)
      PROVE  Solvent'
  <2>1. /\ orders' = [orders EXCEPT ![id] = [@ EXCEPT !.refunded = TRUE]]
        /\ Locked(id) /\ orders[id] \in Order
        /\ Transfer(id.user, id.token, id.amount)
    BY <1>0, <1>4 DEF Refund, CanRefund, Locked, Resolved, Exists, TypeOK
  <2>2. /\ orders'[id] \in Order /\ orders'[id].refunded
        /\ \A j \in OrderIds \ {id} : orders'[j] = orders[j]
    BY <1>0, <2>1 DEF TypeOK, Order
  <2>3. Resolved(id)' /\ id.user \in Accounts
    BY <2>2, NoOrderAssumption, IdType DEF Resolved, Exists
  <2> QED
    BY <2>1, <2>2, <2>3, SolventPay
<1>5. ASSUME UNCHANGED <<orders, held>> PROVE Solvent'
  BY <1>5 DEF Solvent, LockedAmount, Owed, Locked, Resolved, Exists
<1> QED
  BY <1>1, <1>2, <1>3, <1>4, <1>5
     DEF Next, Open, OpenFor, Sign, SetOracle, SetSolverRegistry, Attest, Tick,
         vars

(* The settler can pay all that it owes at the same time, in every token:  *)
(* neither re-opening under a used id nor the order of settlements and     *)
(* refunds takes from one order what another locked.                       *)
THEOREM SolventHolds == Spec => []Solvent
<1>1. Init => Solvent
  BY SolventInit
<1>2. IInv /\ Solvent /\ [Next]_vars => Solvent'
  BY SolventStep
<1> QED
  BY <1>1, <1>2, InvHolds, PTL DEF Spec

-----------------------------------------------------------------------------
(* The second part: the framework.                                         *)

(***************************************************************************)
(* What the agents know.                                                   *)
(***************************************************************************)
(* An agent works on what an Open event asked for, also after a crash has  *)
(* left its fills in the mempool.                                          *)
Heard ==
  /\ opened \subseteq {event \in Ids \X Outputs : event[2] # NoRecipient}
  /\ \A a \in Agents :
       /\ orphans[a] \subseteq opened
       /\ \A id \in Ids : task[a][id] # A!NoTask =>
            <<id, task[a][id].output>> \in opened

(* A fill that an agent saw mined is its own.                              *)
MinedIsOwn ==
  \A a \in Agents, id \in Ids : A!At(a, id, {"mined"}) => FilledBy(a, id)

AgentInv == A!TypeOK /\ Heard /\ MinedIsOwn /\ AwaitsOwnFills

(* What every step does to the fills and the events: it only adds to them. *)
FillsStay ==
  /\ \A id \in Ids : D!IsFilled(id) => fillRecords'[id] = fillRecords[id]
  /\ opened \subseteq opened'
  /\ opened' \subseteq {event \in Ids \X Outputs : event[2] # NoRecipient}

LEMMA FilledByStays ==
  ASSUME FillsStay, NEW a \in Agents, NEW id \in Ids, FilledBy(a, id)
  PROVE  FilledBy(a, id)'
  BY DEF FillsStay, FilledBy, D!IsFilled

(* The agents do nothing.                                                  *)
LEMMA AgentsRest ==
  ASSUME AgentInv, FillsStay, UNCHANGED agentVars
  PROVE  AgentInv'
<1>1. A!TypeOK'
  BY DEF AgentInv, agentVars, A!TypeOK
<1>2. Heard'
  BY DEF AgentInv, agentVars, Heard, FillsStay
<1>3. MinedIsOwn' /\ AwaitsOwnFills'
  BY FilledByStays DEF AgentInv, agentVars, MinedIsOwn, AwaitsOwnFills, A!At, A!HasEntry
<1> QED
  BY <1>1, <1>2, <1>3 DEF AgentInv

(* The agent's tasks move, its entries stay.                               *)
LEMMA TaskMoves ==
  ASSUME AgentInv, FillsStay, NEW a \in Agents, NEW id \in Ids,
         NEW t \in A!Task, task' = [task EXCEPT ![a][id] = t],
         t # A!NoTask => <<id, t.output>> \in opened,
         t.phase = "mined" => FilledBy(a, id)',
         pending' \in [Agents -> SUBSET Ids],
         orphans' \in [Agents -> SUBSET A!Fills],
         \A b \in Agents : orphans'[b] \subseteq opened,
         UNCHANGED <<A!sweepVars, crashes>>
  PROVE  AgentInv'
<1>0. task \in [Agents -> [Ids -> A!Task]]
  BY DEF AgentInv, A!TypeOK
<1>1. A!TypeOK'
  BY <1>0 DEF AgentInv, A!sweepVars, A!TypeOK
<1>2. Heard'
  BY <1>0 DEF AgentInv, Heard, FillsStay
<1>3. MinedIsOwn'
  BY <1>0, FilledByStays DEF AgentInv, MinedIsOwn, A!At
<1>4. AwaitsOwnFills'
  BY FilledByStays DEF AgentInv, AwaitsOwnFills, A!HasEntry, A!sweepVars
<1> QED
  BY <1>1, <1>2, <1>3, <1>4 DEF AgentInv

(* What is known of a task, phase by phase.                                *)
LEMMA TaskType ==
  ASSUME AgentInv, NEW a \in Agents, NEW id \in Ids
  PROVE  /\ A!NoTask \in A!Task /\ A!NoTask.phase \notin A!Phases
         /\ A!At(a, id, A!Phases) =>
              /\ task[a][id] # A!NoTask
              /\ task[a][id] \in [phase : A!Phases, output : Outputs]
              /\ \A p \in A!Phases :
                   /\ [task[a][id] EXCEPT !.phase = p] \in A!Task
                   /\ [task[a][id] EXCEPT !.phase = p].output = task[a][id].output
                   /\ [task[a][id] EXCEPT !.phase = p].phase = p
<1>1. task[a][id] \in A!Task
  BY DEF AgentInv, A!TypeOK
<1>2. A!NoTask \in A!Task /\ A!NoTask.phase = "none" /\ "none" \notin A!Phases
  BY DEF A!Task, A!NoTask, A!Phases
<1>3. SUFFICES ASSUME A!At(a, id, A!Phases)
               PROVE  /\ task[a][id] \in [phase : A!Phases, output : Outputs]
                      /\ \A p \in A!Phases :
                           /\ [task[a][id] EXCEPT !.phase = p] \in A!Task
                           /\ [task[a][id] EXCEPT !.phase = p].output = task[a][id].output
                           /\ [task[a][id] EXCEPT !.phase = p].phase = p
  BY <1>2 DEF A!At
<1>4. PICK t : t = task[a][id]
  OBVIOUS
<1>5. t \in [phase : A!Phases, output : Outputs]
  BY <1>1, <1>2, <1>3, <1>4 DEF A!At, A!Task
<1>6. \A p \in A!Phases : /\ [t EXCEPT !.phase = p] \in A!Task
                          /\ [t EXCEPT !.phase = p].output = t.output
                          /\ [t EXCEPT !.phase = p].phase = p
  BY <1>5 DEF A!Task
<1> QED
  BY <1>4, <1>5, <1>6

(* A task enters its next phase.                                           *)
LEMMA TaskEnters ==
  ASSUME AgentInv, FillsStay, NEW a \in Agents, NEW id \in Ids,
         A!At(a, id, A!Phases), NEW p \in A!Phases, A!Enter(a, id, p),
         p = "mined" => FilledBy(a, id)',
         UNCHANGED <<pending, orphans, A!sweepVars, crashes>>
  PROVE  AgentInv'
<1>1. PICK t : t = [task[a][id] EXCEPT !.phase = p]
  OBVIOUS
<1>2. /\ t \in A!Task /\ t.phase = p
      /\ t.output = task[a][id].output /\ task[a][id] # A!NoTask
  BY <1>1, TaskType
<1>3. task' = [task EXCEPT ![a][id] = t]
  BY <1>1 DEF A!Enter
<1>4. <<id, t.output>> \in opened
  BY <1>2 DEF AgentInv, Heard
<1>5. /\ pending' \in [Agents -> SUBSET Ids]
      /\ orphans' \in [Agents -> SUBSET A!Fills]
      /\ \A b \in Agents : orphans'[b] \subseteq opened
  BY DEF AgentInv, A!TypeOK, Heard
<1> QED
  BY <1>2, <1>3, <1>4, <1>5, TaskMoves

(* A task ends.                                                            *)
LEMMA TaskEnds ==
  ASSUME AgentInv, FillsStay, NEW a \in Agents, NEW id \in Ids,
         A!Leave(a, id) \/ A!Throw(a, id),
         orphans' \in [Agents -> SUBSET A!Fills],
         \A b \in Agents : orphans'[b] \subseteq opened,
         UNCHANGED <<A!sweepVars, crashes>>
  PROVE  AgentInv'
<1>1. A!NoTask \in A!Task /\ A!NoTask.phase # "mined"
  BY TaskType DEF A!Phases
<1>2. pending' \in [Agents -> SUBSET Ids]
  <2>1. pending \in [Agents -> SUBSET Ids]
    BY DEF AgentInv, A!TypeOK
  <2>2. CASE A!Leave(a, id)
    BY <2>1, <2>2 DEF A!Leave
  <2>3. CASE A!Throw(a, id)
    BY <2>1, <2>3 DEF A!Throw
  <2> QED
    BY <2>2, <2>3
<1>3. task' = [task EXCEPT ![a][id] = A!NoTask]
  BY DEF A!Leave, A!Throw, A!Finish
<1> QED
  BY <1>1, <1>2, <1>3, TaskMoves

LEMMA OrphansStay ==
  ASSUME AgentInv, UNCHANGED orphans
  PROVE  /\ orphans' \in [Agents -> SUBSET A!Fills]
         /\ \A b \in Agents : orphans'[b] \subseteq opened
  BY DEF AgentInv, A!TypeOK, Heard

LEMMA NoticeStep ==
  ASSUME AgentInv, FillsStay, NEW a \in Agents, NEW event \in opened,
         Notice(a, event)
  PROVE  AgentInv'
<1>1. PICK id \in Ids, output \in Outputs : event = <<id, output>>
  BY DEF AgentInv, Heard
<1>2. PICK t : t = [phase |-> "open", output |-> output]
  OBVIOUS
<1>3. t \in A!Task /\ t.phase # "mined" /\ t.output = output
  BY <1>2 DEF A!Task, A!Phases
<1>4. /\ task' = [task EXCEPT ![a][id] = t]
      /\ pending' = [pending EXCEPT ![a] = @ \cup {id}]
      /\ UNCHANGED <<orphans, A!sweepVars, crashes>>
  BY <1>1, <1>2 DEF Notice, A!Notice
<1>5. pending' \in [Agents -> SUBSET Ids]
  BY <1>4 DEF AgentInv, A!TypeOK
<1> QED
  BY <1>1, <1>3, <1>4, <1>5, OrphansStay, TaskMoves

LEMMA ConsiderStep ==
  ASSUME AgentInv, FillsStay, NEW a \in Agents, NEW id \in Ids, Consider(a, id)
  PROVE  AgentInv'
<1>1. CASE A!GoOn(a, id, D!IsFilled(id))
  <2>1. A!At(a, id, A!Phases) /\ "ready" \in A!Phases
    BY <1>1 DEF A!GoOn, A!At, A!Phases
  <2>2. /\ A!Enter(a, id, "ready") /\ "ready" # "mined"
        /\ UNCHANGED <<pending, orphans, A!sweepVars, crashes>>
    BY <1>1 DEF A!GoOn
  <2> QED
    BY <2>1, <2>2, TaskEnters
<1>2. CASE A!GiveUp(a, id)
  BY <1>2, TaskEnds, OrphansStay DEF A!GiveUp
<1> QED
  BY <1>1, <1>2 DEF Consider

LEMMA ApprovalStep ==
  ASSUME AgentInv, FillsStay, NEW a \in Agents, NEW id \in Ids,
         SendApproval(a, id) \/ AfterApproval(a, id)
  PROVE  AgentInv'
<1>1. CASE SendApproval(a, id)
  <2>1. A!At(a, id, A!Phases) /\ "approving" \in A!Phases
    BY <1>1 DEF SendApproval, A!SendApproval, A!At, A!Phases
  <2>2. /\ A!Enter(a, id, "approving") /\ "approving" # "mined"
        /\ UNCHANGED <<pending, orphans, A!sweepVars, crashes>>
    BY <1>1 DEF SendApproval, A!SendApproval
  <2> QED
    BY <2>1, <2>2, TaskEnters
<1>2. CASE AfterApproval(a, id)
  <2>1. A!At(a, id, A!Phases) /\ "approved" \in A!Phases
    BY <1>2 DEF AfterApproval, A!AfterApproval, A!At, A!Phases
  <2>2. /\ A!Enter(a, id, "approved") /\ "approved" # "mined"
        /\ UNCHANGED <<pending, orphans, A!sweepVars, crashes>>
    BY <1>2 DEF AfterApproval, A!AfterApproval
  <2> QED
    BY <2>1, <2>2, TaskEnters
<1> QED
  BY <1>1, <1>2

LEMMA SendFillStep ==
  ASSUME AgentInv, FillsStay, NEW a \in Agents, NEW id \in Ids, SendFill(a, id)
  PROVE  AgentInv'
<1>0. UNCHANGED <<orphans, A!sweepVars, crashes>>
  BY DEF SendFill, A!SendFill
<1>1. CASE A!SendFill(a, id, TRUE)
  <2>1. A!At(a, id, A!Phases) /\ "sent" \in A!Phases
    BY DEF SendFill, A!ReadyToFill, A!At, A!Phases
  <2>2. "sent" # "mined" /\ A!Enter(a, id, "sent") /\ UNCHANGED pending
    BY <1>1 DEF A!SendFill
  <2> QED
    BY <1>0, <2>1, <2>2, TaskEnters
<1>2. CASE A!SendFill(a, id, FALSE)
  <2>1. A!Throw(a, id)
    BY <1>2 DEF A!SendFill
  <2> QED
    BY <1>0, <2>1, TaskEnds, OrphansStay
<1> QED
  BY <1>1, <1>2 DEF SendFill

(* Balances before and after one account pays or receives.                 *)
Wallets == [D!Holders -> [D!Assets -> Nat]]

LEMMA Debited ==
  ASSUME NEW w \in Wallets, NEW a \in D!Holders, NEW t \in D!Assets,
         NEW n \in Nat, w[a][t] >= n
  PROVE  /\ D!Debit(w, a, t, n) \in Wallets
         /\ \A b \in D!Holders, u \in D!Assets : D!Debit(w, a, t, n)[b][u] =
              w[b][u] - IF b = a /\ u = t THEN n ELSE 0
<1> DEFINE H == D!Holders  T == D!Assets
<1>0. w \in [H -> [T -> Nat]] /\ Wallets = [H -> [T -> Nat]]
  BY DEF Wallets
<1> HIDE DEF H, T
<1>a. a \in H /\ t \in T
  BY DEF H, T
<1>1. PICK v : v = [w[a] EXCEPT ![t] = @ - n]
  OBVIOUS
<1>2. PICK d : d = D!Debit(w, a, t, n)
  OBVIOUS
<1>3. d = [w EXCEPT ![a] = v]
  BY <1>1, <1>2, Zenon DEF D!Debit
<1>4. v \in [T -> Nat] /\ \A u \in T : v[u] = w[a][u] - IF u = t THEN n ELSE 0
  BY <1>0, <1>1, <1>a
<1>5. d \in [H -> [T -> Nat]] /\ d[a] = v /\ \A b \in H \ {a} : d[b] = w[b]
  BY <1>0, <1>3, <1>4, <1>a
<1>6. ASSUME NEW b \in H, NEW u \in T
      PROVE  d[b][u] = w[b][u] - IF b = a /\ u = t THEN n ELSE 0
  <2>1. CASE b = a
    BY <1>4, <1>5, <2>1
  <2>2. CASE b # a
    BY <1>0, <1>5, <2>2
  <2> QED
    BY <2>1, <2>2
<1> QED
  BY <1>0, <1>2, <1>5, <1>6 DEF H, T

LEMMA Credited ==
  ASSUME NEW w \in Wallets, NEW a \in D!Holders, NEW t \in D!Assets,
         NEW n \in Nat
  PROVE  /\ D!Credit(w, a, t, n) \in Wallets
         /\ \A b \in D!Holders \ {a} : D!Credit(w, a, t, n)[b] = w[b]
<1> DEFINE H == D!Holders  T == D!Assets
<1>0. w \in [H -> [T -> Nat]] /\ Wallets = [H -> [T -> Nat]]
  BY DEF Wallets
<1> HIDE DEF H, T
<1>a. a \in H /\ t \in T
  BY DEF H, T
<1>1. PICK v : v = [w[a] EXCEPT ![t] = @ + n]
  OBVIOUS
<1>2. PICK d : d = D!Credit(w, a, t, n)
  OBVIOUS
<1>3. d = [w EXCEPT ![a] = v]
  BY <1>1, <1>2, Zenon DEF D!Credit
<1>4. v \in [T -> Nat]
  BY <1>0, <1>1, <1>a
<1>5. d \in [H -> [T -> Nat]] /\ \A b \in H \ {a} : d[b] = w[b]
  BY <1>0, <1>3, <1>4, <1>a
<1> QED
  BY <1>0, <1>2, <1>5 DEF H

(* The destination chain's types, as far as fills use it.                  *)
DestTypes ==
  /\ fillRecords \in [Ids -> D!FillRecord \cup {NoFill}]
  /\ destWallet \in Wallets

(* What an accepted fill does.                                             *)
FillEffect(s, id, r, t, n) ==
  /\ r \in Recipients /\ t \in D!Assets /\ n \in Nat
  /\ ~D!IsFilled(id) /\ D!IsFilled(id)'
  /\ fillRecords'[id].solver = s
  /\ fillRecords'[id].recipient = r
  /\ fillRecords'[id].token = t
  /\ fillRecords'[id].amount = n
  /\ \A other \in Ids \ {id} : fillRecords'[other] = fillRecords[other]
  /\ DestTypes'
  /\ \A b \in Agents \ Recipients, u \in D!Assets :
       destWallet'[b][u] = destWallet[b][u] - IF b = s /\ u = t THEN n ELSE 0

LEMMA FillHasEffect ==
  ASSUME DestTypes, NEW s \in Fillers, NEW id \in Ids, NEW output,
         output.amount \in Nat, output.token \in D!Assets, FillDirect(s, id, output)
  PROVE  FillEffect(s, id, output.recipient, output.token, output.amount)
<1>0. PICK r : r = output.recipient
  OBVIOUS
<1>1. PICK t \in D!Assets, n \in Nat : t = output.token /\ n = output.amount
  OBVIOUS
<1>2. /\ D!RecordFill(s, id, t, n, r, 0)
      /\ destWallet[s][t] >= n
      /\ \/ destWallet' = D!Credit(D!Debit(destWallet, s, t, n), r, t, n)
         \/ /\ destWallet[s][NativeToken] >= 0
            /\ destWallet' = D!Credit(D!Debit(D!Debit(destWallet, s, NativeToken, 0),
                                              s, t, n), r, t, n)
  <2>1. CASE t = NativeToken
    <3>1. D!FillDirectNative(s, id, n, r, n)
      BY <1>0, <1>1, <2>1 DEF FillDirect, D!FillDirect
    <3> QED
      BY <2>1, <3>1 DEF D!FillDirectNative
  <2>2. CASE t # NativeToken
    <3>1. D!FillDirectToken(s, id, t, n, r, 0)
      BY <1>0, <1>1, <2>2 DEF FillDirect, D!FillDirect
    <3> QED
      BY <3>1 DEF D!FillDirectToken
  <2> QED
    BY <2>1, <2>2
<1>3. r \in Recipients /\ ~D!IsFilled(id)
  BY <1>2 DEF D!RecordFill
<1>4. PICK record : record = [solver |-> s, recipient |-> r, token |-> t,
                              amount |-> n, gasProvided |-> 0]
  OBVIOUS
<1>5. record \in D!FillRecord /\ record # NoFill
  BY <1>3, <1>4, OIFAssumption DEF D!FillRecord, D!OutputAssumption
<1>6. fillRecords' = [fillRecords EXCEPT ![id] = record]
  BY <1>2, <1>4 DEF D!RecordFill
<1>7. /\ fillRecords' \in [Ids -> D!FillRecord \cup {NoFill}]
      /\ fillRecords'[id] = record
      /\ \A other \in Ids \ {id} : fillRecords'[other] = fillRecords[other]
  BY <1>5, <1>6 DEF DestTypes
<1>8. /\ destWallet \in Wallets /\ s \in D!Holders /\ r \in D!Holders
      /\ NativeToken \in D!Assets /\ \A b \in Agents : b \in D!Holders
  BY <1>3 DEF DestTypes, D!Holders, D!Assets, Fillers
<1>9. \A w \in Wallets, b \in D!Holders, u \in D!Assets : w[b][u] \in Nat
  BY DEF Wallets
<1>10. PICK w \in Wallets :
         /\ destWallet' = D!Credit(w, r, t, n)
         /\ \A b \in D!Holders, u \in D!Assets :
              w[b][u] = destWallet[b][u] - IF b = s /\ u = t THEN n ELSE 0
  <2>1. CASE destWallet' = D!Credit(D!Debit(destWallet, s, t, n), r, t, n)
    BY <1>2, <1>8, <2>1, Debited
  <2>2. CASE /\ destWallet[s][NativeToken] >= 0
             /\ destWallet' = D!Credit(D!Debit(D!Debit(destWallet, s, NativeToken, 0),
                                               s, t, n), r, t, n)
    <3>1. PICK v : v = D!Debit(destWallet, s, NativeToken, 0)
      OBVIOUS
    <3>2. /\ v \in Wallets
          /\ \A b \in D!Holders, u \in D!Assets : v[b][u] =
               destWallet[b][u] - IF b = s /\ u = NativeToken THEN 0 ELSE 0
      BY <1>8, <2>2, <3>1, Debited
    <3>3. \A b \in D!Holders, u \in D!Assets : v[b][u] = destWallet[b][u]
      BY <1>8, <1>9, <3>2
    <3>4. v[s][t] >= n
      BY <1>2, <1>8, <3>3
    <3>5. /\ D!Debit(v, s, t, n) \in Wallets
          /\ \A b \in D!Holders, u \in D!Assets : D!Debit(v, s, t, n)[b][u] =
               v[b][u] - IF b = s /\ u = t THEN n ELSE 0
      BY <1>8, <3>2, <3>4, Debited
    <3>6. destWallet' = D!Credit(D!Debit(v, s, t, n), r, t, n)
      BY <2>2, <3>1, Zenon
    <3> QED
      BY <3>3, <3>5, <3>6
  <2> QED
    BY <1>2, <2>1, <2>2
<1>11. /\ destWallet' \in Wallets
       /\ \A b \in D!Holders \ {r} : destWallet'[b] = w[b]
  <2>1. r \in D!Holders
    BY <1>8
  <2>2. /\ D!Credit(w, r, t, n) \in Wallets
        /\ \A b \in D!Holders \ {r} : D!Credit(w, r, t, n)[b] = w[b]
    BY <2>1, Credited
  <2>3. destWallet' = D!Credit(w, r, t, n)
    BY <1>10
  <2> QED
    BY <2>2, <2>3
<1>12. /\ DestTypes'
       /\ \A b \in Agents \ Recipients, u \in D!Assets :
            destWallet'[b][u] = destWallet[b][u] - IF b = s /\ u = t THEN n ELSE 0
  <2>1. DestTypes'
    BY <1>7, <1>11 DEF DestTypes
  <2>2. ASSUME NEW b \in Agents \ Recipients, NEW u \in D!Assets
        PROVE  destWallet'[b][u] = destWallet[b][u] - IF b = s /\ u = t THEN n ELSE 0
    BY <1>3, <1>8, <1>10, <1>11
  <2> QED
    BY <2>1, <2>2
<1>13. /\ D!IsFilled(id)' /\ fillRecords'[id].solver = s
       /\ fillRecords'[id].recipient = r /\ fillRecords'[id].token = t
       /\ fillRecords'[id].amount = n
  BY <1>4, <1>5, <1>7 DEF D!IsFilled
<1> QED
  BY <1>0, <1>1, <1>3, <1>7, <1>12, <1>13 DEF FillEffect

(* An output that an event asked for is a proper one.                      *)
LEMMA EventType ==
  ASSUME Heard, NEW event \in opened
  PROVE  /\ event[1] \in Ids /\ event[2] \in Outputs
         /\ event[2].amount \in Nat /\ event[2].recipient \in Recipients
         /\ event[2].token \in D!Assets
         /\ event = <<event[1], event[2]>>
<1>1. PICK id \in Ids, output \in Outputs : event = <<id, output>> /\ output # NoRecipient
  BY DEF Heard
<1> QED
  BY <1>1, OutputsAssumption

LEMMA MineFillStep ==
  ASSUME AgentInv, FillsStay, DestTypes, NEW a \in Agents, NEW id \in Ids,
         MineFill(a, id)
  PROVE  AgentInv'
<1>1. PICK ok \in BOOLEAN : /\ A!MineFill(a, id, ok)
                           /\ Mine(a, id, task[a][id].output, ok)
  BY DEF MineFill
<1>2. A!At(a, id, A!Phases) /\ {"mined", "reverted"} \subseteq A!Phases
  BY DEF MineFill, A!At, A!Phases
<1>3. UNCHANGED <<pending, orphans, A!sweepVars, crashes>>
  BY <1>1 DEF A!MineFill
<1>4. CASE ok
  <2>1. PICK output : output = task[a][id].output
    OBVIOUS
  <2>2. <<id, output>> \in opened
    BY <1>2, <2>1, TaskType DEF AgentInv, Heard
  <2>3. output.amount \in Nat /\ output.token \in D!Assets /\ a \in Fillers
    BY <2>2, EventType DEF AgentInv, Fillers
  <2>4. FillDirect(a, id, output)
    BY <1>1, <1>4, <2>1 DEF Mine
  <2>5. FilledBy(a, id)'
    BY <2>3, <2>4, FillHasEffect DEF FillEffect, FilledBy
  <2>6. A!Enter(a, id, "mined")
    BY <1>1, <1>4 DEF A!MineFill
  <2> QED
    BY <1>2, <1>3, <2>5, <2>6, TaskEnters
<1>5. CASE ~ok
  <2>1. A!Enter(a, id, "reverted") /\ "reverted" # "mined"
    BY <1>1, <1>5 DEF A!MineFill
  <2> QED
    BY <1>2, <1>3, <2>1, TaskEnters
<1> QED
  BY <1>4, <1>5

(* The fills in the mempool change, nothing else of the agents.            *)
LEMMA MineOrphanStep ==
  ASSUME AgentInv, FillsStay, NEW a \in Agents, NEW fill \in orphans[a],
         MineOrphan(a, fill)
  PROVE  AgentInv'
<1>1. /\ orphans' = [orphans EXCEPT ![a] = @ \ {<<fill[1], fill[2]>>}]
      /\ UNCHANGED <<pending, task, A!sweepVars, crashes>>
  BY DEF MineOrphan, A!MineOrphan
<1>2. orphans \in [Agents -> SUBSET A!Fills]
  BY DEF AgentInv, A!TypeOK
<1>3. /\ orphans' \in [Agents -> SUBSET A!Fills]
      /\ \A b \in Agents : orphans'[b] \subseteq orphans[b]
  BY <1>1, <1>2
<1>4. A!TypeOK'
  BY <1>1, <1>3 DEF AgentInv, A!TypeOK, A!sweepVars
<1>5. Heard'
  BY <1>1, <1>3 DEF AgentInv, Heard, FillsStay
<1>6. MinedIsOwn' /\ AwaitsOwnFills'
  BY <1>1, FilledByStays
     DEF AgentInv, MinedIsOwn, AwaitsOwnFills, A!At, A!HasEntry, A!sweepVars
<1> QED
  BY <1>4, <1>5, <1>6 DEF AgentInv

(* The entries and the sweeps change, nothing else of the agents.          *)
LEMMA SweepMoves ==
  ASSUME AgentInv, FillsStay,
         pendingSettlements' \in [Agents -> [Ids -> A!Retries]],
         \A b \in Agents, id \in Ids :
           A!HasEntry(b, id)' => A!HasEntry(b, id) \/ FilledBy(b, id)',
         todo' \in [Agents -> [Sweeps -> SUBSET Ids]],
         settling' \in [Agents -> [Sweeps -> Ids \cup {NoId}]],
         claimed' \in [Agents -> [Ids -> Nat]],
         UNCHANGED <<A!taskVars, crashes>>
  PROVE  AgentInv'
<1>1. A!TypeOK'
  BY DEF AgentInv, A!TypeOK, A!taskVars
<1>2. Heard'
  BY DEF AgentInv, Heard, FillsStay, A!taskVars
<1>3. MinedIsOwn'
  BY FilledByStays DEF AgentInv, MinedIsOwn, A!At, A!taskVars
<1>4. AwaitsOwnFills'
  BY FilledByStays DEF AgentInv, AwaitsOwnFills
<1> QED
  BY <1>1, <1>2, <1>3, <1>4 DEF AgentInv

LEMMA SweepTypes ==
  ASSUME AgentInv
  PROVE  /\ pendingSettlements \in [Agents -> [Ids -> A!Retries]]
         /\ todo \in [Agents -> [Sweeps -> SUBSET Ids]]
         /\ settling \in [Agents -> [Sweeps -> Ids \cup {NoId}]]
         /\ claimed \in [Agents -> [Ids -> Nat]]
  BY DEF AgentInv, A!TypeOK

(* An entry changes its count of retries, or goes.                         *)
LEMMA EntryMoves ==
  ASSUME AgentInv, NEW a \in Agents, NEW id \in Ids,
         A!Remove(a, id) \/ A!Retry(a, id)
  PROVE  /\ pendingSettlements' \in [Agents -> [Ids -> A!Retries]]
         /\ \A b \in Agents, i \in Ids : A!HasEntry(b, i)' => A!HasEntry(b, i)
<1>1. pendingSettlements \in [Agents -> [Ids -> A!Retries]]
  BY SweepTypes
<1>2. PICK n : n = pendingSettlements[a][id]
  OBVIOUS
<1>3. n \in A!Retries /\ MAX_SETTLEMENT_RETRIES \in Nat \ {0} /\ A!NoEntry = -1
  BY <1>1, <1>2, OIFAssumption DEF A!AgentAssumption, A!NoEntry
<1>4. PICK m : m = IF A!Remove(a, id) \/ n = A!NoEntry \/ n + 1 >= MAX_SETTLEMENT_RETRIES
                   THEN A!NoEntry ELSE n + 1
  OBVIOUS
<1>m. pendingSettlements' = [pendingSettlements EXCEPT ![a][id] = m]
  <2>1. CASE A!Remove(a, id)
    <3>1. m = A!NoEntry
      BY <1>4, <2>1, Zenon
    <3> QED
      BY <2>1, <3>1 DEF A!Remove
  <2>2. CASE A!Retry(a, id) /\ ~A!Remove(a, id)
    <3>1. m = IF n = A!NoEntry \/ n + 1 >= MAX_SETTLEMENT_RETRIES
              THEN A!NoEntry ELSE n + 1
      BY <1>4, <2>2, Zenon
    <3> QED
      BY <1>2, <2>2, <3>1, Zenon DEF A!Retry
  <2> QED
    BY <2>1, <2>2
<1>5. m \in A!Retries
  <2>1. CASE m = A!NoEntry
    BY <2>1 DEF A!Retries
  <2>2. CASE n # A!NoEntry /\ ~(n + 1 >= MAX_SETTLEMENT_RETRIES) /\ m = n + 1
    BY <1>3, <2>2 DEF A!Retries
  <2> QED
    BY <1>4, <2>1, <2>2, Zenon
<1>6. pendingSettlements' \in [Agents -> [Ids -> A!Retries]]
  BY <1>1, <1>m, <1>5
<1>7. \A b \in Agents, i \in Ids : A!HasEntry(b, i)' => A!HasEntry(b, i)
  <2>1. n = A!NoEntry => m = A!NoEntry
    BY <1>4, Zenon
  <2> QED
    BY <1>1, <1>2, <1>m, <2>1 DEF A!HasEntry
<1> QED
  BY <1>6, <1>7

(* What is sent and not seen mined goes to the mempool.                    *)
LEMMA OrphansGrow ==
  ASSUME AgentInv, NEW a \in Agents, NEW ids \in SUBSET Ids,
         orphans' = [orphans EXCEPT ![a] = @ \cup A!SentBy(a, ids)]
  PROVE  /\ orphans' \in [Agents -> SUBSET A!Fills]
         /\ \A b \in Agents : orphans'[b] \subseteq opened
<1>1. A!SentBy(a, ids) \subseteq opened
  <2>1. ASSUME NEW id \in ids, A!At(a, id, {"sent"})
        PROVE  <<id, task[a][id].output>> \in opened
    <3>1. A!At(a, id, A!Phases) /\ id \in Ids
      BY <2>1 DEF A!At, A!Phases
    <3> QED
      BY <3>1, TaskType DEF AgentInv, Heard
  <2> QED
    BY <2>1 DEF A!SentBy
<1>2. opened \subseteq A!Fills
  BY DEF AgentInv, Heard, A!Fills
<1>3. /\ orphans \in [Agents -> SUBSET A!Fills]
      /\ \A b \in Agents : orphans[b] \subseteq opened
  BY DEF AgentInv, A!TypeOK, Heard
<1> QED
  BY <1>1, <1>2, <1>3

LEMMA LoseReceiptStep ==
  ASSUME AgentInv, FillsStay, NEW a \in Agents, NEW id \in Ids, LoseReceipt(a, id)
  PROVE  AgentInv'
<1>1. /\ orphans' = [orphans EXCEPT ![a] = @ \cup A!SentBy(a, {id})]
      /\ A!Throw(a, id) /\ UNCHANGED <<A!sweepVars, crashes>>
  BY DEF LoseReceipt, A!LoseReceipt
<1>2. {id} \in SUBSET Ids
  OBVIOUS
<1> QED
  BY <1>1, <1>2, OrphansGrow, TaskEnds

(* A mined fill becomes an entry, and the task ends.                       *)
LEMMA AfterFillStep ==
  ASSUME AgentInv, FillsStay, NEW a \in Agents, NEW id \in Ids, AfterFill(a, id)
  PROVE  AgentInv'
<1>1. /\ A!Leave(a, id)
      /\ UNCHANGED <<orphans, todo, settling, claimed, crashes>>
  BY DEF AfterFill, A!AfterFill
<1>2. /\ pending \in [Agents -> SUBSET Ids]
      /\ task \in [Agents -> [Ids -> A!Task]]
      /\ pendingSettlements \in [Agents -> [Ids -> A!Retries]]
  BY DEF AgentInv, A!TypeOK
<1>3. A!NoTask \in A!Task /\ A!NoTask.phase \notin A!Phases /\ "mined" \in A!Phases
  BY TaskType DEF A!Phases
<1>4. /\ pending' \in [Agents -> SUBSET Ids]
      /\ task' = [task EXCEPT ![a][id] = A!NoTask]
      /\ task' \in [Agents -> [Ids -> A!Task]]
  BY <1>1, <1>2, <1>3 DEF A!Leave, A!Finish
<1>5. /\ pendingSettlements' \in [Agents -> [Ids -> A!Retries]]
      /\ \A b \in Agents, i \in Ids :
           A!HasEntry(b, i)' => A!HasEntry(b, i) \/ A!At(b, i, {"mined"})
  <2>1. CASE A!At(a, id, {"mined"})
    <3>1. pendingSettlements' = [pendingSettlements EXCEPT ![a][id] = 0]
      BY <2>1 DEF AfterFill, A!AfterFill
    <3>2. 0 \in A!Retries
      BY OIFAssumption DEF A!Retries, A!AgentAssumption
    <3> QED
      BY <1>2, <2>1, <3>1, <3>2 DEF A!HasEntry
  <2>2. CASE ~A!At(a, id, {"mined"})
    BY <1>2, <2>2 DEF AfterFill, A!AfterFill, A!HasEntry
  <2> QED
    BY <2>1, <2>2
<1>6. A!TypeOK'
  BY <1>1, <1>4, <1>5 DEF AgentInv, A!TypeOK
<1>7. Heard'
  BY <1>1, <1>2, <1>4 DEF AgentInv, Heard, FillsStay
<1>8. MinedIsOwn'
  BY <1>2, <1>3, <1>4, FilledByStays DEF AgentInv, MinedIsOwn, A!At
<1>9. AwaitsOwnFills'
  BY <1>5, FilledByStays DEF AgentInv, AwaitsOwnFills, MinedIsOwn
<1> QED
  BY <1>6, <1>7, <1>8, <1>9 DEF AgentInv

(* A sweep takes its next entry.                                           *)
LEMMA TakeNextType ==
  ASSUME AgentInv, NEW a \in Agents, NEW l \in Sweeps, NEW id, A!TakeNext(a, l, id)
  PROVE  todo' \in [Agents -> [Sweeps -> SUBSET Ids]] /\ id \in Ids
<1>1. todo' = [todo EXCEPT ![a][l] = @ \ {id}] /\ id \in todo[a][l]
  BY DEF A!TakeNext
<1> QED
  BY <1>1, SweepTypes

LEMMA SweepStepStep ==
  ASSUME AgentInv, FillsStay, NEW a \in Agents, NEW l \in Sweeps, SweepStep(a, l)
  PROVE  AgentInv'
<1>0. /\ pendingSettlements \in [Agents -> [Ids -> A!Retries]]
      /\ todo \in [Agents -> [Sweeps -> SUBSET Ids]]
      /\ settling \in [Agents -> [Sweeps -> Ids \cup {NoId}]]
      /\ claimed \in [Agents -> [Ids -> Nat]]
  BY SweepTypes
<1>1. CASE StartSweep(a, l)
  <2>1. /\ todo' = [todo EXCEPT ![a][l] = A!Entries(a)]
        /\ UNCHANGED <<A!taskVars, pendingSettlements, settling, claimed, crashes>>
    BY <1>1 DEF StartSweep, A!StartSweep
  <2>2. todo' \in [Agents -> [Sweeps -> SUBSET Ids]]
    BY <1>0, <2>1 DEF A!Entries
  <2> QED
    BY <1>0, <2>1, <2>2, SweepMoves DEF A!HasEntry
<1>2. ASSUME NEW id \in todo[a][l], TrySettle(a, l, id) PROVE AgentInv'
  <2>1. PICK can \in BOOLEAN : A!TrySettle(a, l, id, can)
    BY <1>2 DEF TrySettle
  <2>2. todo' \in [Agents -> [Sweeps -> SUBSET Ids]] /\ id \in Ids
    BY <2>1, TakeNextType DEF A!TrySettle
  <2>3. UNCHANGED <<A!taskVars, claimed, crashes>>
    BY <2>1 DEF A!TrySettle
  <2>4. CASE can
    <3>1. /\ settling' = [settling EXCEPT ![a][l] = id]
          /\ UNCHANGED pendingSettlements
      BY <2>1, <2>4 DEF A!TrySettle
    <3>2. settling' \in [Agents -> [Sweeps -> Ids \cup {NoId}]]
      BY <1>0, <2>2, <3>1
    <3> QED
      BY <1>0, <2>2, <2>3, <3>1, <3>2, SweepMoves DEF A!HasEntry
  <2>5. CASE ~can
    <3>1. A!Retry(a, id) /\ UNCHANGED settling
      BY <2>1, <2>5 DEF A!TrySettle
    <3> QED
      BY <1>0, <2>2, <2>3, <3>1, EntryMoves, SweepMoves
  <2> QED
    BY <2>4, <2>5
<1>3. ASSUME NEW id \in todo[a][l], Pass(a, l, id) PROVE AgentInv'
  <2>1. todo' \in [Agents -> [Sweeps -> SUBSET Ids]]
    BY <1>3, TakeNextType DEF Pass, A!Skip
  <2>2. UNCHANGED <<A!taskVars, pendingSettlements, settling, claimed, crashes>>
    BY <1>3 DEF Pass, A!Skip
  <2> QED
    BY <1>0, <2>1, <2>2, SweepMoves DEF A!HasEntry
<1>4. ASSUME NEW id \in todo[a][l], DropStale(a, l, id) PROVE AgentInv'
  <2>1. todo' \in [Agents -> [Sweeps -> SUBSET Ids]] /\ id \in Ids
    BY <1>4, TakeNextType DEF DropStale, A!DropStale
  <2>2. A!Remove(a, id) /\ UNCHANGED <<A!taskVars, settling, claimed, crashes>>
    BY <1>4 DEF DropStale, A!DropStale
  <2> QED
    BY <1>0, <2>1, <2>2, EntryMoves, SweepMoves
<1>5. ASSUME NEW id \in Ids, NEW ok \in BOOLEAN, A!AfterSettle(a, l, id, ok)
      PROVE  AgentInv'
  <2>1. /\ settling' = [settling EXCEPT ![a][l] = NoId]
        /\ UNCHANGED <<A!taskVars, todo, crashes>>
    BY <1>5 DEF A!AfterSettle
  <2>2. settling' \in [Agents -> [Sweeps -> Ids \cup {NoId}]]
    BY <1>0, <2>1
  <2>3. A!Remove(a, id) \/ A!Retry(a, id)
    BY <1>5 DEF A!AfterSettle
  <2>4. claimed' \in [Agents -> [Ids -> Nat]]
    <3>1. CASE ok
      <4>1. claimed' = [claimed EXCEPT ![a][id] = @ + 1]
        BY <1>5, <3>1 DEF A!AfterSettle
      <4> QED
        BY <1>0, <4>1
    <3>2. CASE ~ok
      BY <1>0, <1>5, <3>2 DEF A!AfterSettle
    <3> QED
      BY <3>1, <3>2
  <2> QED
    BY <1>0, <2>1, <2>2, <2>3, <2>4, EntryMoves, SweepMoves
<1>6. ASSUME NEW id \in Ids, A!AbortSweep(a, l, id) PROVE AgentInv'
  <2>1. /\ settling' = [settling EXCEPT ![a][l] = NoId]
        /\ todo' = [todo EXCEPT ![a][l] = {}]
        /\ UNCHANGED <<A!taskVars, pendingSettlements, claimed, crashes>>
    BY <1>6 DEF A!AbortSweep
  <2>2. /\ settling' \in [Agents -> [Sweeps -> Ids \cup {NoId}]]
        /\ todo' \in [Agents -> [Sweeps -> SUBSET Ids]]
    BY <1>0, <2>1
  <2> QED
    BY <1>0, <2>1, <2>2, SweepMoves DEF A!HasEntry
<1> QED
  BY <1>1, <1>2, <1>3, <1>4, <1>5, <1>6 DEF SweepStep, SettleMined, SettleUnseen

LEMMA CrashStep ==
  ASSUME AgentInv, FillsStay, NEW a \in Agents, Crash(a)
  PROVE  AgentInv'
<1>1. /\ crashes[a] < MaxCrashes
      /\ crashes' = [crashes EXCEPT ![a] = @ + 1]
      /\ orphans' = [orphans EXCEPT ![a] = @ \cup A!SentBy(a, Ids)]
      /\ pending' = [pending EXCEPT ![a] = {}]
      /\ task' = [task EXCEPT ![a] = [id \in Ids |-> A!NoTask]]
      /\ pendingSettlements' =
           [pendingSettlements EXCEPT ![a] = [id \in Ids |-> A!NoEntry]]
      /\ todo' = [todo EXCEPT ![a] = [l \in Sweeps |-> {}]]
      /\ settling' = [settling EXCEPT ![a] = [l \in Sweeps |-> NoId]]
      /\ claimed' = claimed
  BY DEF Crash, A!Crash
<1>2. /\ orphans' \in [Agents -> SUBSET A!Fills]
      /\ \A b \in Agents : orphans'[b] \subseteq opened
  BY <1>1, OrphansGrow
<1>3. A!NoTask \in A!Task /\ A!NoTask.phase # "mined" /\ A!NoEntry \in A!Retries
  BY DEF A!Task, A!NoTask, A!Phases, A!Retries
<1>4. A!TypeOK'
  <2>0. A!TypeOK
    BY DEF AgentInv
  <2>1. pending' \in [Agents -> SUBSET Ids] /\ task' \in [Agents -> [Ids -> A!Task]]
    BY <1>1, <1>3, <2>0 DEF A!TypeOK
  <2>2. /\ pendingSettlements' \in [Agents -> [Ids -> A!Retries]]
        /\ todo' \in [Agents -> [Sweeps -> SUBSET Ids]]
        /\ settling' \in [Agents -> [Sweeps -> Ids \cup {NoId}]]
    BY <1>1, <1>3, <2>0 DEF A!TypeOK
  <2>3. crashes' \in [Agents -> 0..MaxCrashes]
    BY <1>1, <2>0, OIFAssumption DEF A!TypeOK, A!AgentAssumption
  <2> QED
    BY <1>1, <1>2, <2>0, <2>1, <2>2, <2>3 DEF A!TypeOK
<1>5. Heard'
  BY <1>1, <1>2 DEF AgentInv, A!TypeOK, Heard, FillsStay
<1>6. MinedIsOwn'
  BY <1>1, <1>3, FilledByStays DEF AgentInv, A!TypeOK, MinedIsOwn, A!At
<1>7. AwaitsOwnFills'
  BY <1>1, FilledByStays DEF AgentInv, A!TypeOK, AwaitsOwnFills, A!HasEntry
<1> QED
  BY <1>4, <1>5, <1>6, <1>7 DEF AgentInv

LEMMA FillingStep ==
  ASSUME AgentInv, FillsStay, DestTypes, NEW a \in Agents, Filling(a)
  PROVE  AgentInv'
  BY NoticeStep, ConsiderStep, ApprovalStep, SendFillStep, MineFillStep, AfterFillStep,
     LoseReceiptStep, MineOrphanStep DEF Filling

(***************************************************************************)
(* The destination chain.                                                  *)
(***************************************************************************)
(* An agent fills with what an event asked for, a stranger with anything.  *)
SomeoneFills ==
  \E s \in Fillers, id \in Ids, r \in Recipients, t \in D!Assets, n \in Nat :
    /\ FillEffect(s, id, r, t, n)
    /\ s \in Agents => \E event \in opened :
         /\ event[1] = id /\ event[2].recipient = r
         /\ event[2].token = t /\ event[2].amount = n

LEMMA MineFills ==
  ASSUME Heard, DestTypes, NEW a \in Agents, NEW event \in opened,
         NEW ok \in BOOLEAN, Mine(a, event[1], event[2], ok)
  PROVE  UNCHANGED destVars \/ SomeoneFills
<1>1. /\ event[1] \in Ids /\ event[2].amount \in Nat /\ event[2].token \in D!Assets
      /\ event[2].recipient \in Recipients /\ a \in Fillers
  BY EventType DEF Fillers
<1>2. CASE FillDirect(a, event[1], event[2])
  <2>1. FillEffect(a, event[1], event[2].recipient, event[2].token, event[2].amount)
    BY <1>1, <1>2, FillHasEffect
  <2> QED
    BY <1>1, <2>1 DEF SomeoneFills
<1> QED
  BY <1>2 DEF Mine

LEMMA AgentFills ==
  ASSUME AgentInv, DestTypes, NEW a \in Agents, Filling(a)
  PROVE  UNCHANGED destVars \/ SomeoneFills
<1>1. ASSUME NEW id \in Ids, MineFill(a, id) PROVE UNCHANGED destVars \/ SomeoneFills
  <2>1. PICK ok \in BOOLEAN : Mine(a, id, task[a][id].output, ok)
    BY <1>1 DEF MineFill
  <2>2. PICK event : event = <<id, task[a][id].output>>
    OBVIOUS
  <2>3. A!At(a, id, A!Phases)
    BY <1>1 DEF MineFill, A!At, A!Phases
  <2>4. event \in opened
    BY <2>2, <2>3, TaskType DEF AgentInv, Heard
  <2>5. Mine(a, event[1], event[2], ok)
    BY <2>1, <2>2
  <2> QED
    BY <2>4, <2>5, MineFills DEF AgentInv
<1>2. ASSUME NEW fill \in orphans[a], MineOrphan(a, fill)
      PROVE  UNCHANGED destVars \/ SomeoneFills
  <2>1. PICK ok \in BOOLEAN : Mine(a, fill[1], fill[2], ok)
    BY <1>2 DEF MineOrphan
  <2>2. fill \in opened
    BY DEF AgentInv, Heard
  <2> QED
    BY <2>1, <2>2, MineFills DEF AgentInv
<1> QED
  BY <1>1, <1>2
     DEF Filling, Notice, Consider, SendApproval, AfterApproval, SendFill, AfterFill,
         LoseReceipt

LEMMA StrangerHasEffect ==
  ASSUME DestTypes, NEW s \in Strangers, NEW id \in Ids, StrangerFills(s, id)
  PROVE  SomeoneFills
<1>1. s \in Fillers /\ s \notin Agents
  BY PartiesAssumption DEF Fillers
<1>2. PICK t \in D!Assets, r \in Recipients : \E n \in 1..destWallet[s][t] :
        FillDirect(s, id, [recipient |-> r, token |-> t, amount |-> n])
  BY DEF StrangerFills
<1>3. PICK n \in 1..destWallet[s][t] :
        FillDirect(s, id, [recipient |-> r, token |-> t, amount |-> n])
  BY <1>2
<1>4. n \in Nat
  BY <1>1 DEF DestTypes, Wallets
<1>5. PICK output : output = [recipient |-> r, token |-> t, amount |-> n]
  OBVIOUS
<1>6. output.amount = n /\ output.token = t /\ output.recipient = r
  BY <1>5
<1>7. FillEffect(s, id, output.recipient, output.token, output.amount)
  BY <1>1, <1>3, <1>4, <1>5, <1>6, FillHasEffect
<1> QED
  BY <1>1, <1>4, <1>6, <1>7 DEF SomeoneFills

(* Only agents and strangers fill.                                         *)
LEMMA NextFills ==
  ASSUME AgentInv, DestTypes, [OIFNext]_oifVars
  PROVE  UNCHANGED destVars \/ SomeoneFills
<1>1. ASSUME NEW a \in Agents, NEW l \in Sweeps, SweepStep(a, l)
      PROVE  UNCHANGED destVars
  BY <1>1 DEF SweepStep, StartSweep, TrySettle, Pass, DropStale, SettleMined, SettleUnseen
<1>2. ASSUME NEW a \in Agents, Filling(a) PROVE UNCHANGED destVars \/ SomeoneFills
  BY <1>2, AgentFills
<1> QED
  BY <1>1, <1>2, StrangerHasEffect
     DEF OIFNext, UserOpens, RefundOrder, Claim, SettleByHand, Report, NextBlock,
         Crash, oifVars

(* Events are of orders that users opened, for somebody to receive.        *)
LEMMA EventsGrow ==
  ASSUME TypeOK, Heard, [OIFNext]_oifVars
  PROVE  /\ opened \subseteq opened'
         /\ opened' \subseteq {event \in Ids \X Outputs : event[2] # NoRecipient}
<1>1. ASSUME NEW u \in Users, NEW r \in Requests, UserOpens(u, r)
      PROVE  /\ opened \subseteq opened'
             /\ opened' \subseteq {event \in Ids \X Outputs : event[2] # NoRecipient}
  <2>1. OrderId(u, r, block) \in Ids
    BY PartiesAssumption, IdFields DEF Ids, TypeOK
  <2>2. r.output \in Outputs /\ r.output # NoRecipient
    BY <1>1 DEF Outputs, UserOpens, Open, OpenOrder, Acceptable
  <2>3. opened' = opened \cup {<<OrderId(u, r, block), r.output>>}
    BY <1>1 DEF UserOpens
  <2> QED
    BY <2>1, <2>2, <2>3 DEF Heard
<1>2. ASSUME NEW a \in Agents, NEW l \in Sweeps, SweepStep(a, l)
      PROVE  UNCHANGED opened
  BY <1>2 DEF SweepStep, StartSweep, TrySettle, Pass, DropStale, SettleMined,
              SettleUnseen, sourceVars
<1>3. ASSUME NEW a \in Agents, Filling(a) PROVE UNCHANGED opened
  BY <1>3 DEF Filling, Notice, Consider, SendFill, MineFill, MineOrphan, AfterFill,
              LoseReceipt, SendApproval, AfterApproval, sourceVars
<1>4. UNCHANGED opened
        => opened' \subseteq {event \in Ids \X Outputs : event[2] # NoRecipient}
  BY DEF Heard
<1> QED
  BY <1>1, <1>2, <1>3, <1>4
     DEF OIFNext, RefundOrder, Claim, SettleByHand, Report, NextBlock,
         StrangerFills, Crash, oifVars, sourceVars

LEMMA FillsDoStay ==
  ASSUME TypeOK, AgentInv, DestTypes, [OIFNext]_oifVars
  PROVE  FillsStay /\ DestTypes'
<1>1. /\ opened \subseteq opened'
      /\ opened' \subseteq {event \in Ids \X Outputs : event[2] # NoRecipient}
  BY EventsGrow DEF AgentInv
<1>2. CASE UNCHANGED destVars
  BY <1>1, <1>2 DEF FillsStay, destVars, DestTypes
<1>3. CASE SomeoneFills
  <2>1. PICK s \in Fillers, id \in Ids, r \in Recipients, t \in D!Assets, n \in Nat :
          FillEffect(s, id, r, t, n)
    BY <1>3 DEF SomeoneFills
  <2> QED
    BY <1>1, <2>1 DEF FillEffect, FillsStay
<1> QED
  BY <1>2, <1>3, NextFills

(* What an agent delivered is what an Open event of the order asked for.   *)
FillsAsked ==
  \A id \in Ids : D!IsFilled(id) /\ fillRecords[id].solver \in Agents => Asked(id)

LEMMA FillsAskedStep ==
  ASSUME TypeOK, AgentInv, DestTypes, FillsAsked, [OIFNext]_oifVars
  PROVE  FillsAsked'
<1>1. FillsStay
  BY FillsDoStay
<1>2. ASSUME NEW id \in Ids, D!IsFilled(id), fillRecords'[id].solver \in Agents
      PROVE  Asked(id)'
  BY <1>1, <1>2 DEF FillsAsked, Asked, Delivers, FillsStay
<1>3. ASSUME NEW id \in Ids, ~D!IsFilled(id), D!IsFilled(id)',
             fillRecords'[id].solver \in Agents
      PROVE  Asked(id)'
  <2>1. fillRecords'[id] # fillRecords[id]
    BY <1>3 DEF D!IsFilled
  <2>2. SomeoneFills
    BY <2>1, NextFills DEF destVars
  <2>3. PICK s \in Fillers, i \in Ids, r \in Recipients, t \in D!Assets, n \in Nat :
          /\ FillEffect(s, i, r, t, n)
          /\ s \in Agents => \E event \in opened :
               /\ event[1] = i /\ event[2].recipient = r
               /\ event[2].token = t /\ event[2].amount = n
    BY <2>2 DEF SomeoneFills
  <2>4. i = id /\ s \in Agents
    BY <1>3, <2>1, <2>3 DEF FillEffect
  <2> QED
    BY <1>1, <2>3, <2>4 DEF FillEffect, Asked, Delivers, FillsStay
<1> QED
  BY <1>2, <1>3 DEF FillsAsked

(* What an agent spends on fills is what its fills cost.                   *)
LEMMA PaysInit == OIFInit => PaysForOwnFills
<1> SUFFICES ASSUME OIFInit, NEW a \in Agents \ Recipients, NEW t \in D!Assets
             PROVE  Spent(a, t) = SumFunction([id \in Ids |-> Cost(a, id, t)])
  BY DEF PaysForOwnFills
<1>1. PICK f : f = [id \in Ids |-> Cost(a, id, t)]
  OBVIOUS
<1>2. f \in [Ids -> Int] /\ \A id \in Ids : f[id] = 0
  BY <1>1 DEF Cost, FilledBy, D!IsFilled, OIFInit, D!Init
<1>3. IsFiniteSet(Ids)
  BY FiniteIds, FS_Subset DEF Ids
<1>4. SumFunction(f) = 0
  BY <1>2, <1>3, SumZero
<1>5. Spent(a, t) = 0
  BY OIFAssumption
     DEF Spent, OIFInit, D!Init, D!OutputAssumption, D!Holders, Fillers
<1> QED
  BY <1>1, <1>4, <1>5

LEMMA PaysStep ==
  ASSUME AgentInv, DestTypes, PaysForOwnFills, [OIFNext]_oifVars
  PROVE  PaysForOwnFills'
<1>1. CASE UNCHANGED destVars
  BY <1>1 DEF PaysForOwnFills, Spent, Cost, FilledBy, D!IsFilled, destVars
<1>2. CASE SomeoneFills
  <2> SUFFICES ASSUME NEW a \in Agents \ Recipients, NEW t \in D!Assets
               PROVE  Spent(a, t)' = SumFunction([i \in Ids |-> Cost(a, i, t)])'
    BY DEF PaysForOwnFills
  <2>1. PICK s \in Fillers, id \in Ids, r \in Recipients, u \in D!Assets, n \in Nat :
          FillEffect(s, id, r, u, n)
    BY <1>2 DEF SomeoneFills
  <2>2. PICK cost : cost = IF a = s /\ t = u THEN n ELSE 0
    OBVIOUS
  <2>3. PICK f, g : /\ f = [i \in Ids |-> Cost(a, i, t)]
                    /\ g = [i \in Ids |-> Cost(a, i, t)']
    OBVIOUS
  <2>4. \A i \in Ids : Cost(a, i, t) \in Int /\ Cost(a, i, t)' \in Int
    BY <2>1 DEF FillEffect, DestTypes, Cost, FilledBy, D!IsFilled, D!FillRecord
  <2>5. \A i \in Ids \ {id} : Cost(a, i, t)' = Cost(a, i, t)
    BY <2>1 DEF FillEffect, Cost, FilledBy, D!IsFilled
  <2>6. Cost(a, id, t) = 0 /\ Cost(a, id, t)' = cost /\ cost \in Nat
    BY <2>1, <2>2 DEF FillEffect, Cost, FilledBy, D!IsFilled
  <2>7. f \in [Ids -> Int] /\ g \in [Ids -> Int] /\ \A i \in Ids \ {id} : g[i] = f[i]
    BY <2>3, <2>4, <2>5
  <2>8. IsFiniteSet(Ids)
    BY FiniteIds, FS_Subset DEF Ids
  <2>9. SumFunction(g) = SumFunction(f) + (g[id] - f[id]) /\ SumFunction(f) \in Int
    BY <2>7, <2>8, SumChange, SumType
  <2>10. SumFunction(g) = SumFunction(f) + cost
    BY <2>3, <2>6, <2>9
  <2>11. /\ destWallet'[a][t] = destWallet[a][t] - cost
         /\ destWallet[a][t] \in Nat /\ DestinationFunds[a][t] \in Nat
    BY <2>1, <2>2, OIFAssumption
       DEF FillEffect, DestTypes, Wallets, D!OutputAssumption, D!Holders, Fillers
  <2>12. Spent(a, t)' = Spent(a, t) + cost
    BY <2>6, <2>11 DEF Spent
  <2>13. Spent(a, t) = SumFunction(f)
    BY <2>3 DEF PaysForOwnFills
  <2> QED
    BY <2>3, <2>10, <2>12, <2>13
<1> QED
  BY <1>1, <1>2, NextFills

(***************************************************************************)
(* The source chain.                                                       *)
(***************************************************************************)
(* What the framework does to the source chain is what InputSettler        *)
(* allows: the agents, users and oracles of OIF are some of its callers.   *)
LEMMA SourceStep ==
  ASSUME [OIFNext]_oifVars
  PROVE  [Next]_vars
<1>0. Ids \subseteq OrderIds /\ Users \subseteq Accounts
      /\ Agents \subseteq Accounts /\ Claimants \subseteq Accounts
  BY PartiesAssumption DEF Ids
<1>1. ASSUME NEW u \in Users, NEW r \in Requests, UserOpens(u, r) PROVE Next
  BY <1>0, <1>1 DEF UserOpens, Next
<1>2. ASSUME NEW id \in Ids,
             \/ RefundOrder(id)
             \/ \E a \in Claimants : Claim(a, id) \/ SettleByHand(a, id)
             \/ \E o \in Oracles : Report(o, id)
      PROVE  Next
  BY <1>0, <1>2 DEF RefundOrder, Claim, SettleByHand, Report, Next
<1>3. CASE NextBlock
  BY <1>3 DEF NextBlock, Next
<1>4. ASSUME \/ \E a \in Agents : Filling(a) \/ Crash(a)
             \/ \E s \in Strangers, id \in Ids : StrangerFills(s, id)
      PROVE  UNCHANGED vars
  BY <1>4 DEF Filling, Notice, Consider, SendApproval, AfterApproval, SendFill,
              MineFill, MineOrphan, AfterFill, LoseReceipt, Crash, StrangerFills,
              sourceVars
<1>5. ASSUME NEW a \in Agents, NEW l \in Sweeps, SweepStep(a, l)
      PROVE  [Next]_vars
  <2>1. ASSUME NEW id \in Ids, Settle(a, id) PROVE Next
    BY <1>0, <2>1 DEF Next
  <2> QED
    BY <1>5, <2>1 DEF SweepStep, StartSweep, TrySettle, Pass, DropStale, SettleMined,
                      SettleUnseen, sourceVars
<1> QED
  BY <1>1, <1>2, <1>3, <1>4, <1>5 DEF OIFNext, oifVars, sourceVars

(* The source chain of the framework is an input settler.                  *)
THEOREM ImplementsInputSettler == OIFSpec => Spec
<1>1. OIFInit => Init
  BY DEF OIFInit
<1>2. [OIFNext]_oifVars => [Next]_vars
  BY SourceStep
<1> QED
  BY <1>1, <1>2, PTL DEF OIFSpec, Spec

(* What oracles say was delivered was, and what is paid was reported.      *)
ReportsTrue == \A o \in Oracles, id \in Ids : id \in attested[o] => D!IsFilled(id)
PaidIsFilled == \A id \in Ids : Paid(id) => D!IsFilled(id)

LEMMA ReportsStep ==
  ASSUME TypeOK, ReportsTrue, FillsStay, [OIFNext]_oifVars
  PROVE  ReportsTrue'
<1>0. \A id \in Ids : D!IsFilled(id) => D!IsFilled(id)'
  BY DEF FillsStay, D!IsFilled
<1>1. ASSUME NEW o \in Oracles, NEW id \in Ids, Report(o, id) PROVE ReportsTrue'
  <2>1. attested' = [attested EXCEPT ![o] = @ \cup {id}] /\ D!IsFilled(id)
    BY <1>1 DEF Report, Attest
  <2>2. attested \in [Oracles -> SUBSET OrderIds]
    BY DEF TypeOK
  <2> QED
    BY <1>0, <2>1, <2>2 DEF ReportsTrue
<1>2. CASE UNCHANGED attested
  BY <1>0, <1>2 DEF ReportsTrue
<1>3. ASSUME NEW a \in Agents, NEW l \in Sweeps, SweepStep(a, l)
      PROVE  UNCHANGED attested
  BY <1>3 DEF SweepStep, StartSweep, TrySettle, Pass, DropStale, SettleMined,
              SettleUnseen, Settle, sourceVars, vars
<1>4. ASSUME NEW a \in Agents, Filling(a) \/ Crash(a) PROVE UNCHANGED attested
  BY <1>4 DEF Filling, Notice, Consider, SendApproval, AfterApproval, SendFill,
              MineFill, MineOrphan, AfterFill, LoseReceipt, Crash, sourceVars, vars
<1> QED
  BY <1>1, <1>2, <1>3, <1>4
     DEF OIFNext, UserOpens, Open, OpenOrder, RefundOrder, Refund, Claim, ClaimOrder,
         SettleByHand, Settle, NextBlock, Tick, StrangerFills, oifVars, sourceVars,
         vars

LEMMA PaidStep ==
  ASSUME IInv, ReportsTrue, PaidIsFilled, FillsStay, [Next]_vars
  PROVE  PaidIsFilled'
<1>0. /\ \A id \in Ids : D!IsFilled(id) => D!IsFilled(id)'
      /\ TypeOK /\ Ids \subseteq OrderIds
  BY DEF FillsStay, D!IsFilled, IInv, Ids
<1> SUFFICES ASSUME NEW id \in Ids, Paid(id)', ~Paid(id)
             PROVE  D!IsFilled(id)
  BY <1>0 DEF PaidIsFilled
<1>1. orders'[id] # NoOrder /\ orders'[id].filled
      /\ (orders[id] = NoOrder \/ ~orders[id].filled)
  BY DEF Paid
<1>2. orders'[id] # orders[id]
  BY <1>1
<1>3. ASSUME NEW u \in Accounts, NEW r \in Requests, OpenOrder(u, r)
      PROVE  FALSE
  <2>1. orders' = [orders EXCEPT ![OrderId(u, r, block)] = NewOrder(r)]
    BY <1>3 DEF OpenOrder
  <2>2. orders'[id] = NewOrder(r)
    BY <1>0, <1>2, <2>1 DEF TypeOK
  <2> QED
    BY <1>1, <2>2 DEF NewOrder
<1>4. ASSUME NEW a \in Accounts, NEW j \in OrderIds, ClaimOrder(a, j)
      PROVE  FALSE
  <2>1. orders' = [orders EXCEPT ![j] = [@ EXCEPT !.solver = a]] /\ ~orders[j].filled
        /\ Exists(j)
    BY <1>4 DEF ClaimOrder
  <2>2. id = j /\ orders[j] \in Order
    BY <1>0, <1>2, <2>1 DEF TypeOK, Exists
  <2>3. orders'[id].filled = orders[id].filled
    BY <1>0, <2>1, <2>2 DEF TypeOK, Order
  <2> QED
    BY <1>1, <2>1, <2>2, <2>3
<1>5. ASSUME NEW j \in OrderIds, Refund(j) PROVE FALSE
  <2>1. orders' = [orders EXCEPT ![j] = [@ EXCEPT !.refunded = TRUE]]
        /\ ~orders[j].filled /\ Exists(j)
    BY <1>5 DEF Refund, CanRefund
  <2>2. id = j /\ orders[j] \in Order
    BY <1>0, <1>2, <2>1 DEF TypeOK, Exists
  <2>3. orders'[id].filled = orders[id].filled
    BY <1>0, <2>1, <2>2 DEF TypeOK, Order
  <2> QED
    BY <1>1, <2>1, <2>2, <2>3
<1>6. ASSUME NEW a \in Accounts, NEW j \in OrderIds, Settle(a, j)
      PROVE  D!IsFilled(id)
  <2>1. orders' = [orders EXCEPT ![j] = [@ EXCEPT !.filled = TRUE]]
        /\ j \in attested[oracle]
    BY <1>6 DEF Settle, CanSettle, Attested
  <2>2. id = j /\ oracle \in Oracles
    BY <1>0, <1>2, <2>1 DEF TypeOK
  <2> QED
    BY <2>1, <2>2 DEF ReportsTrue
<1> QED
  BY <1>2, <1>3, <1>4, <1>5, <1>6
     DEF Next, Open, OpenFor, Sign, SetOracle, SetSolverRegistry, Attest, Tick, vars

(***************************************************************************)
(* The count of settlements.                                               *)
(***************************************************************************)
Counts(a, id) ==
  /\ claimed' = [claimed EXCEPT ![a][id] = @ + 1]
  /\ Settle(a, id)

LEMMA WhatCounts ==
  ASSUME [OIFNext]_oifVars
  PROVE  UNCHANGED claimed \/ \E a \in Agents, id \in Ids : Counts(a, id)
<1>1. ASSUME NEW a \in Agents, NEW l \in Sweeps, SweepStep(a, l)
      PROVE  UNCHANGED claimed \/ \E id \in Ids : Counts(a, id)
  <2>1. ASSUME NEW id \in Ids, SettleMined(a, l, id)
        PROVE  UNCHANGED claimed \/ Counts(a, id)
    BY <2>1 DEF SettleMined, A!AfterSettle, Counts
  <2> QED
    BY <1>1, <2>1 DEF SweepStep, StartSweep, A!StartSweep, TrySettle, A!TrySettle,
         Pass, A!Skip, DropStale, A!DropStale, SettleUnseen, A!AbortSweep
<1>2. ASSUME NEW a \in Agents, Filling(a) PROVE UNCHANGED claimed
  BY <1>2 DEF Filling, Notice, A!Notice, Consider, A!GoOn, A!GiveUp, SendApproval,
       A!SendApproval, AfterApproval, A!AfterApproval, SendFill, A!SendFill, MineFill, A!MineFill, MineOrphan, A!MineOrphan, AfterFill,
       A!AfterFill, LoseReceipt, A!LoseReceipt, A!sweepVars
<1>3. ASSUME NEW a \in Agents, Crash(a) PROVE UNCHANGED claimed
  BY <1>3 DEF Crash, A!Crash
<1> QED
  BY <1>1, <1>2, <1>3
     DEF OIFNext, UserOpens, RefundOrder, Claim, SettleByHand, Report, NextBlock,
         StrangerFills, oifVars, agentVars

LEMMA CountedStep ==
  ASSUME IInv, AgentInv, CountedOnce, [OIFNext]_oifVars
  PROVE  CountedOnce'
<1>0. /\ Ids \subseteq OrderIds /\ Agents \subseteq Accounts
      /\ claimed \in [Agents -> [Ids -> Nat]]
      /\ orders \in [OrderIds -> Order \cup {NoOrder}]
  BY PartiesAssumption, SweepTypes DEF Ids, IInv, TypeOK
<1>1. \A id \in Ids : Paid(id) => Resolved(id)
  BY DEF Paid, Resolved, Exists
<1>2. \A id \in Ids : Resolved(id) => orders'[id] = orders[id]
  BY <1>0, SourceStep, ResolvedStep
<1>3. ASSUME NEW a \in Agents, NEW id \in Ids, claimed[a][id] > 0
      PROVE  /\ claimed[a][id] = 1
             /\ Paid(id)' /\ orders'[id].solver = a
  BY <1>1, <1>2, <1>3 DEF CountedOnce, Paid
<1>4. CASE UNCHANGED claimed
  BY <1>3, <1>4 DEF CountedOnce
<1>5. ASSUME NEW a \in Agents, NEW id \in Ids, Counts(a, id) PROVE CountedOnce'
  <2>1. /\ claimed' = [claimed EXCEPT ![a][id] = @ + 1]
        /\ orders' = [orders EXCEPT ![id] = [@ EXCEPT !.filled = TRUE]]
        /\ orders[id] # NoOrder /\ ~orders[id].filled /\ orders[id].solver = a
    BY <1>5 DEF Counts, Settle, CanSettle
  <2>2. claimed[a][id] = 0
    BY <1>0, <2>1 DEF CountedOnce, Paid
  <2>3. claimed'[a][id] = 1
    BY <1>0, <2>1, <2>2
  <2>4. orders'[id] \in Order /\ orders'[id].filled /\ orders'[id].solver = a
    <3>1. PICK o \in Order : o = orders[id] /\ o.solver = a
      BY <1>0, <2>1
    <3>2. PICK p : p = [o EXCEPT !.filled = TRUE]
      OBVIOUS
    <3>3. p \in Order /\ p.filled /\ p.solver = a
      BY <3>1, <3>2 DEF Order
    <3>4. orders'[id] = p
      BY <1>0, <2>1, <3>1, <3>2
    <3> QED
      BY <3>3, <3>4
  <2>5. Paid(id)'
    BY <2>4, NoOrderAssumption DEF Paid
  <2>6. \A b \in Agents, i \in Ids :
          <<b, i>> # <<a, id>> => claimed'[b][i] = claimed[b][i]
    BY <1>0, <2>1
  <2> QED
    BY <1>3, <2>3, <2>4, <2>5, <2>6 DEF CountedOnce
<1> QED
  BY <1>4, <1>5, WhatCounts

(***************************************************************************)
(* The inductive invariant: the source chain's, the agents' and the        *)
(* destination chain's, and what connects them.                            *)
(***************************************************************************)
Connected ==
  /\ AgentInv /\ DestTypes
  /\ FillsAsked /\ PaysForOwnFills
  /\ ReportsTrue /\ PaidIsFilled /\ CountedOnce

LEMMA ConnectedInit == OIFInit => Connected
<1> SUFFICES ASSUME OIFInit PROVE Connected
  OBVIOUS
<1>1. AgentInv
  <2>0. A!Init /\ opened = {}
    BY DEF OIFInit
  <2>1. A!TypeOK
    BY <2>0, OIFAssumption
       DEF A!Init, A!TypeOK, A!Task, A!Retries, A!AgentAssumption
  <2>2. Heard
    BY <2>0 DEF A!Init, Heard
  <2>3. MinedIsOwn /\ AwaitsOwnFills
    BY <2>0 DEF A!Init, MinedIsOwn, A!At, A!NoTask, AwaitsOwnFills, A!HasEntry
  <2> QED
    BY <2>1, <2>2, <2>3 DEF AgentInv
<1>2. DestTypes
  BY OIFAssumption
     DEF OIFInit, D!Init, DestTypes, Wallets, D!OutputAssumption, D!Holders
<1>3. \A id \in Ids : ~D!IsFilled(id)
  BY DEF OIFInit, D!Init, D!IsFilled
<1>4. ReportsTrue
  BY DEF OIFInit, Init, ReportsTrue
<1>5. \A id \in Ids : ~Paid(id)
  BY DEF OIFInit, Init, Paid, Ids
<1>6. CountedOnce
  BY DEF OIFInit, A!Init, CountedOnce
<1> QED
  BY <1>1, <1>2, <1>3, <1>4, <1>5, <1>6, PaysInit
     DEF Connected, FillsAsked, PaidIsFilled

LEMMA AgentStep ==
  ASSUME AgentInv, FillsStay, DestTypes, [OIFNext]_oifVars
  PROVE  AgentInv'
<1>1. CASE UNCHANGED agentVars
  BY <1>1, AgentsRest
<1> QED
  BY <1>1, FillingStep, CrashStep, SweepStepStep
     DEF OIFNext, UserOpens, RefundOrder, Claim, SettleByHand, Report, NextBlock,
         StrangerFills, oifVars

LEMMA ConnectedStep ==
  ASSUME IInv, Connected, [OIFNext]_oifVars
  PROVE  Connected'
<1>1. FillsStay /\ DestTypes'
  BY FillsDoStay DEF Connected, IInv
<1>2. AgentInv'
  BY <1>1, AgentStep DEF Connected
<1>3. FillsAsked' /\ PaysForOwnFills'
  BY FillsAskedStep, PaysStep DEF Connected, IInv
<1>4. ReportsTrue' /\ PaidIsFilled'
  BY <1>1, ReportsStep, PaidStep, SourceStep DEF Connected, IInv
<1>5. CountedOnce'
  BY CountedStep DEF Connected
<1> QED
  BY <1>1, <1>2, <1>3, <1>4, <1>5 DEF Connected

LEMMA ConnectedHolds == OIFSpec => []Connected
<1>1. OIFInit => Connected
  BY ConnectedInit
<1>2. IInv /\ Connected /\ [OIFNext]_oifVars => Connected'
  BY ConnectedStep
<1> QED
  BY <1>1, <1>2, ImplementsInputSettler, InvHolds, PTL DEF OIFSpec

(* An order that is paid was filled, and if an agent filled it, with what  *)
(* an Open event of the order asked for, although an order may be          *)
(* overwritten under its id and agents act on whichever event they heard.  *)
THEOREM PaidMeansDeliveredHolds == OIFSpec => []PaidMeansDelivered
<1>1. Connected => PaidMeansDelivered
  BY DEF Connected, PaidIsFilled, FillsAsked, PaidMeansDelivered
<1> QED
  BY <1>1, ConnectedHolds, PTL

(* An agent never spends on an order someone else filled, nor twice on     *)
(* one, whatever crashes and lost receipts make it forget.                 *)
THEOREM PaysForOwnFillsHolds == OIFSpec => []PaysForOwnFills
  BY ConnectedHolds, PTL DEF Connected

(* What an agent waits to settle is its own fill.                          *)
THEOREM AwaitsOwnFillsHolds == OIFSpec => []AwaitsOwnFills
  BY ConnectedHolds, PTL DEF Connected, AgentInv

(* An order is counted as claimed once, by the agent that was paid, also   *)
(* when several sweeps settle the same entry.                              *)
THEOREM CountedOnceHolds == OIFSpec => []CountedOnce
  BY ConnectedHolds, PTL DEF Connected
=============================================================================
