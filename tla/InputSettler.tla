---------------------------- MODULE InputSettler ----------------------------
(***************************************************************************)
(* The source-chain half of the Open Intents Framework:                    *)
(* src/packages/contracts/src/oif/InputSettler.sol.  Users lock tokens     *)
(* under an order, one solver claims it, and the order ends either in a    *)
(* settlement (the solver is paid once an oracle attests the fill) or in a *)
(* refund (anyone may trigger it after the fill deadline).                 *)
(*                                                                         *)
(* An order id is a hash in the code; here it is the tuple of the fields   *)
(* that are hashed, so two orders share an id exactly when the code makes  *)
(* them share one.  A transaction is one step; block numbers advance by    *)
(* Tick, and many transactions fit in one block.                           *)
(***************************************************************************)
EXTENDS Integers, FiniteSetsExt

CONSTANTS
  Accounts,     (* Externally owned accounts: users, solvers, anyone.      *)
  NoAccount,    (* address(0)                                              *)
  Tokens,
  NativeToken,  (* address(0) as a token                                   *)
  Requests,     (* The order data users submit.                            *)
  NoRecipient,  (* An output whose recipient is address(0).                *)
  NoOrder,      (* The default value of the orders mapping.                *)
  Signable,     (* <<account, request>> pairs that may get signed.         *)
  Oracles, Registries,
  InitialFunds, (* Token balances of the accounts before the first block.  *)
  CLAIM_DELAY,  (* 150 blocks in the code.                                 *)
  MaxBlock      (* Bound: the last block explored.                         *)

ASSUME DelayAssumption == CLAIM_DELAY \in Nat \ {0}
ASSUME BlockAssumption == MaxBlock \in Nat
ASSUME AccountAssumption == NoAccount \notin Accounts
ASSUME FiniteAssumption == IsFiniteSet(Accounts) /\ IsFiniteSet(Requests)
ASSUME RequestAssumption ==
  \A r \in Requests :
    /\ r.nonce \in Nat /\ r.amount \in Nat /\ r.token \in Tokens
    /\ r.openDeadline \in Nat /\ r.fillDeadline \in Nat
ASSUME SignableAssumption == Signable \subseteq Accounts \X Requests
ASSUME FundsAssumption == InitialFunds \in [Accounts -> [Tokens -> Nat]]

VARIABLES
  block,          (* block.number of the source chain                      *)
  orders,         (* [OrderIds -> Order \cup {NoOrder}]                    *)
  nonces,         (* [Accounts -> Nat]                                     *)
  oracle,         (* the oracle settle consults                            *)
  solverRegistry,
  attested,       (* [Oracles -> SUBSET OrderIds], what each oracle says   *)
  signed,         (* requests signed for openFor                           *)
  wallet,         (* token balances of the accounts                        *)
  held            (* token balances of the settler                         *)

vars == <<block, orders, nonces, oracle, solverRegistry, attested, signed,
          wallet, held>>

Blocks == 0..MaxBlock

(* Mutated form: an id that does not carry its block.                      *)
OrderId_noBlock(u, r, b) ==
  [user |-> u, nonce |-> r.nonce, token |-> r.token, amount |-> r.amount,
   dest |-> r.dest, createdBlock |-> 0]

(* keccak256(user, nonce, chainId, inputToken, inputAmount, destination,   *)
(* block.number): neither the output nor the deadlines are part of it.     *)
OrderId(u, r, b) ==
  [user |-> u, nonce |-> r.nonce, token |-> r.token, amount |-> r.amount,
   dest |-> r.dest, createdBlock |-> b]

OrderIds == {OrderId(u, r, b) : u \in Accounts, r \in Requests, b \in Blocks}

(* The fields that do not go into the id, with the mutable ones.           *)
Order == [request : Requests, solver : Accounts \cup {NoAccount},
          filled : BOOLEAN, refunded : BOOLEAN]

ASSUME NoOrderAssumption == NoOrder \notin Order

Exists(id) == orders[id] # NoOrder
Attested(id) == id \in attested[oracle]

Init ==
  /\ block = 0
  /\ orders = [id \in OrderIds |-> NoOrder]
  /\ nonces = [a \in Accounts |-> 0]
  /\ oracle \in Oracles
  /\ solverRegistry \in Registries
  /\ attested = [o \in Oracles |-> {}]
  /\ signed = {}
  /\ wallet = InitialFunds
  /\ held = [t \in Tokens |-> 0]

(***************************************************************************)
(* Opening.  open and openFor are not payable, so msg.value is 0 and the   *)
(* native branch always reverts: only ERC-20 inputs get through.           *)
(***************************************************************************)
NewOrder(r) ==
  [request |-> r, solver |-> NoAccount, filled |-> FALSE, refunded |-> FALSE]

(* Mutated forms, which only the mutation runs use.                        *)
Acceptable_anyDeadline(u, r) ==
  /\ block <= r.openDeadline
  /\ r.amount > 0 /\ wallet[u][r.token] >= r.amount

Acceptable_unfunded(u, r) ==
  /\ block <= r.openDeadline /\ r.fillDeadline > r.openDeadline
  /\ r.amount > 0

Acceptable(u, r) ==
  /\ block <= r.openDeadline
  /\ r.fillDeadline > r.openDeadline
  /\ r.amount > 0
  /\ r.output # NoRecipient
  /\ r.token # NativeToken
  /\ wallet[u][r.token] >= r.amount

OpenOrder(u, r) ==
  /\ Acceptable(u, r)
  /\ wallet' = [wallet EXCEPT ![u][r.token] = @ - r.amount]
  /\ held' = [held EXCEPT ![r.token] = @ + r.amount]
  /\ nonces' = [nonces EXCEPT ![u] = r.nonce + 1]
  /\ orders' = [orders EXCEPT ![OrderId(u, r, block)] = NewOrder(r)]
  /\ UNCHANGED <<block, oracle, solverRegistry, attested, signed>>

Open(u, r) == OpenOrder(u, r)

(* The signature covers the whole request; whoever holds it may submit it. *)
OpenFor(u, r) == <<u, r>> \in signed /\ OpenOrder(u, r)

(* External: the user signs a request in a wallet.                         *)
Sign(u, r) ==
  /\ <<u, r>> \in Signable \ signed
  /\ signed' = signed \cup {<<u, r>>}
  /\ UNCHANGED <<block, orders, nonces, oracle, solverRegistry, attested,
                 wallet, held>>

(***************************************************************************)
(* Claiming, settling, refunding.                                          *)
(***************************************************************************)
ClaimOrder(a, id) ==
  /\ Exists(id)
  /\ ~orders[id].filled /\ ~orders[id].refunded
  /\ block <= orders[id].request.openDeadline
  /\ orders[id].solver = NoAccount
  /\ orders' = [orders EXCEPT ![id].solver = a]
  /\ UNCHANGED <<block, nonces, oracle, solverRegistry, attested, signed,
                 wallet, held>>

(* Mutated form: the fee leaves the settler on top of the input amount.     *)
Transfer_withFee(a, t, amount) ==
  /\ held[t] >= amount + 1
  /\ held' = [held EXCEPT ![t] = @ - (amount + 1)]
  /\ wallet' = [wallet EXCEPT ![a][t] = @ + amount + 1]

(* An ERC-20 transfer out of the settler; it reverts when short of funds.  *)
Transfer(a, t, amount) ==
  /\ held[t] >= amount
  /\ held' = [held EXCEPT ![t] = @ - amount]
  /\ wallet' = [wallet EXCEPT ![a][t] = @ + amount]

(* Mutated form: no attestation is asked for.                              *)
CanSettle_unattested(id) ==
  /\ Exists(id)
  /\ ~orders[id].filled /\ ~orders[id].refunded
  /\ orders[id].solver # NoAccount
  /\ block >= id.createdBlock + CLAIM_DELAY

CanSettle(id) ==
  /\ Exists(id)
  /\ ~orders[id].filled /\ ~orders[id].refunded
  /\ orders[id].solver # NoAccount
  /\ Attested(id)
  /\ block >= id.createdBlock + CLAIM_DELAY

Settle(a, id) ==
  /\ orders[id] # NoOrder /\ orders[id].solver = a
  /\ CanSettle(id)
  /\ orders' = [orders EXCEPT ![id].filled = TRUE]
  /\ Transfer(a, id.token, id.amount)
  /\ UNCHANGED <<block, nonces, oracle, solverRegistry, attested, signed>>

(* Mutated forms: a settled order is refunded too; a claimed one never is. *)
CanRefund_evenFilled(id) ==
  /\ Exists(id) /\ ~orders[id].refunded
  /\ block > orders[id].request.fillDeadline

CanRefund_unclaimed(id) ==
  /\ Exists(id) /\ ~orders[id].filled /\ ~orders[id].refunded
  /\ orders[id].solver = NoAccount
  /\ block > orders[id].request.fillDeadline

CanRefund(id) ==
  /\ Exists(id)
  /\ ~orders[id].filled /\ ~orders[id].refunded
  /\ block > orders[id].request.fillDeadline

Refund(id) ==
  /\ CanRefund(id)
  /\ orders' = [orders EXCEPT ![id].refunded = TRUE]
  /\ Transfer(id.user, id.token, id.amount)
  /\ UNCHANGED <<block, nonces, oracle, solverRegistry, attested, signed>>

(***************************************************************************)
(* The owner's setters, the oracle (external to this contract; the model   *)
(* of the attesting contracts is OracleAdapter) and time.                  *)
(***************************************************************************)
SetOracle(o) ==
  /\ oracle' = o
  /\ UNCHANGED <<block, orders, nonces, solverRegistry, attested, signed,
                 wallet, held>>

SetSolverRegistry(g) ==
  /\ solverRegistry' = g
  /\ UNCHANGED <<block, orders, nonces, oracle, attested, signed, wallet,
                 held>>

Attest(o, id) ==
  /\ Exists(id)
  /\ attested' = [attested EXCEPT ![o] = @ \cup {id}]
  /\ UNCHANGED <<block, orders, nonces, oracle, solverRegistry, signed,
                 wallet, held>>

Tick ==
  /\ block < MaxBlock
  /\ block' = block + 1
  /\ UNCHANGED <<orders, nonces, oracle, solverRegistry, attested, signed,
                 wallet, held>>

Next ==
  \/ \E u \in Accounts, r \in Requests :
       Open(u, r) \/ OpenFor(u, r) \/ Sign(u, r)
  \/ \E a \in Accounts, id \in OrderIds : ClaimOrder(a, id) \/ Settle(a, id)
  \/ \E id \in OrderIds : Refund(id)
  \/ \E o \in Oracles : SetOracle(o)
  \/ \E g \in Registries : SetSolverRegistry(g)
  \/ \E o \in Oracles, id \in OrderIds : Attest(o, id)
  \/ Tick

Spec == Init /\ [][Next]_vars

(* Blocks keep coming, and refund, which anyone may call and from which    *)
(* the user gains, is eventually called on an order that stays refundable. *)
FairSpec == Spec /\ WF_vars(Tick) /\ \A id \in OrderIds : WF_vars(Refund(id))

-----------------------------------------------------------------------------
(* Correctness.                                                            *)

TypeOK ==
  /\ block \in Blocks
  /\ orders \in [OrderIds -> Order \cup {NoOrder}]
  /\ nonces \in [Accounts -> Nat]
  /\ oracle \in Oracles
  /\ solverRegistry \in Registries
  /\ attested \in [Oracles -> SUBSET OrderIds]
  /\ signed \subseteq Signable
  /\ wallet \in [Accounts -> [Tokens -> Nat]]
  /\ held \in [Tokens -> Nat]

Resolved(id) == Exists(id) /\ (orders[id].filled \/ orders[id].refunded)
Locked(id) == Exists(id) /\ ~Resolved(id)

(* No order is both settled and refunded, and one that is settled was      *)
(* claimed, attested and old enough: claimOrder, settle and refund may     *)
(* interleave with re-opening under the same id and with setOracle.        *)
SettledProperly ==
  \A id \in OrderIds : Exists(id) /\ orders[id].filled =>
    /\ ~orders[id].refunded
    /\ orders[id].solver # NoAccount
    /\ \E o \in Oracles : id \in attested[o]
    /\ block >= id.createdBlock + CLAIM_DELAY

(* The settler can always pay what it still owes: the orders that are      *)
(* neither settled nor refunded are covered by its token balance.          *)
Owed(id, t) == IF Locked(id) /\ id.token = t THEN id.amount ELSE 0
LockedAmount(t) == SumFunction([id \in OrderIds |-> Owed(id, t)])
Solvent == \A t \in Tokens : held[t] >= LockedAmount(t)

(* _openOrder overwrites whatever is stored under its id.  It never brings *)
(* back an order that already paid out, because an id carries its block    *)
(* and nothing pays out in the block an order was created in.              *)
ResolvedIsFinal ==
  [][\A id \in OrderIds : Resolved(id) => orders'[id] = orders[id]]_vars

(* After the block of its creation an order keeps its terms and, once      *)
(* claimed, its solver.                                                    *)
ClaimIsFinal ==
  [][\A id \in OrderIds : Exists(id) /\ block > id.createdBlock =>
       /\ orders'[id].request = orders[id].request
       /\ orders[id].solver # NoAccount =>
            orders'[id].solver = orders[id].solver]_vars

(* The contract implements the abstract escrow: funds move out of a slot   *)
(* once, on evidence to the solver or on expiry to the user.               *)
EscrowStatus(id) ==
  IF ~Exists(id) THEN "none"
  ELSE IF orders[id].filled THEN "paid"
  ELSE IF orders[id].refunded THEN "refunded"
  ELSE "locked"

PastDeadline(id) == Exists(id) /\ block > orders[id].request.fillDeadline

E == INSTANCE Escrow WITH
       Slots <- OrderIds,
       status <- [id \in OrderIds |-> EscrowStatus(id)],
       evidence <- UNION {attested[o] : o \in Oracles},
       expired <- {id \in OrderIds : PastDeadline(id)}

EscrowSpec == E!Spec

(* "Users can refund expired intents" (InputSettler.sol:35): every order   *)
(* ends, settled or refunded, as long as blocks go on past its deadline.   *)
EveryOrderEnds ==
  \A id \in OrderIds : Locked(id) ~> Resolved(id)
=============================================================================
