---------------------------- MODULE OutputSettler ----------------------------
(***************************************************************************)
(* The destination-chain half of the Open Intents Framework:               *)
(* src/packages/contracts/src/oif/OutputSettler.sol.  Solvers deposit      *)
(* tokens and ETH, or bring them along, and deliver an order's output to   *)
(* its recipient, once per order id.                                       *)
(*                                                                         *)
(* A transaction is one step.  A recipient that refuses ETH makes the      *)
(* whole transaction revert, which is the same as not sending it.          *)
(***************************************************************************)
EXTENDS Integers, FiniteSetsExt, Functions

CONSTANTS
  Solvers, Recipients,
  Tokens,       (* ERC-20 tokens                                           *)
  ETH,          (* address(0), the native token                            *)
  Ids,          (* order ids                                               *)
  Amounts,      (* amounts of deposits, withdrawals and fills              *)
  NoFill,       (* the default value of fillRecords                        *)
  InitialFunds

Holders == Solvers \cup Recipients
Assets == Tokens \cup {ETH}

VARIABLES
  solverLiquidity,  (* [Solvers -> [Tokens -> Nat]]                        *)
  solverETH,        (* [Solvers -> Nat]                                    *)
  fillRecords,      (* [Ids -> FillRecord \cup {NoFill}]                   *)
  wallet,           (* balances of the accounts                            *)
  held              (* balances of the settler                             *)

vars == <<solverLiquidity, solverETH, fillRecords, wallet, held>>

FillRecord == [solver : Solvers, recipient : Recipients, token : Assets,
               amount : Nat, gasProvided : Nat]

(* What the modules that instantiate this one assume of its constants.     *)
OutputAssumption ==
  /\ Amounts \subseteq Nat /\ ETH \notin Tokens
  /\ InitialFunds \in [Holders -> [Assets -> Nat]]
  /\ NoFill \notin FillRecord

(* filledOrders and fillRecords are always written together.               *)
IsFilled(id) == fillRecords[id] # NoFill

Init ==
  /\ solverLiquidity = [s \in Solvers |-> [t \in Tokens |-> 0]]
  /\ solverETH = [s \in Solvers |-> 0]
  /\ fillRecords = [id \in Ids |-> NoFill]
  /\ wallet = InitialFunds
  /\ held = [t \in Assets |-> 0]

-----------------------------------------------------------------------------
(* Liquidity.                                                              *)

(* An account pays or receives.                                            *)
Debit(w, a, t, amount) == [w EXCEPT ![a][t] = @ - amount]
Credit(w, a, t, amount) == [w EXCEPT ![a][t] = @ + amount]

(* Assets change hands between an account and the settler.                 *)
PayIn(a, t, amount) ==
  /\ wallet[a][t] >= amount
  /\ wallet' = Debit(wallet, a, t, amount)
  /\ held' = [held EXCEPT ![t] = @ + amount]

PayOut(a, t, amount) ==
  /\ held[t] >= amount
  /\ wallet' = Credit(wallet, a, t, amount)
  /\ held' = [held EXCEPT ![t] = @ - amount]

DepositLiquidity(s, t, amount) ==
  /\ amount > 0
  /\ PayIn(s, t, amount)
  /\ solverLiquidity' = [solverLiquidity EXCEPT ![s][t] = @ + amount]
  /\ UNCHANGED <<solverETH, fillRecords>>

DepositETH(s, amount) ==
  /\ amount > 0
  /\ PayIn(s, ETH, amount)
  /\ solverETH' = [solverETH EXCEPT ![s] = @ + amount]
  /\ UNCHANGED <<solverLiquidity, fillRecords>>

(* Mutated form: nobody compares the withdrawal with the solver's credit.  *)
WithdrawLiquidity_unchecked(s, t, amount) ==
  /\ solverLiquidity' = [solverLiquidity EXCEPT ![s][t] = @ - amount]
  /\ PayOut(s, t, amount)
  /\ UNCHANGED <<solverETH, fillRecords>>

WithdrawLiquidity(s, t, amount) ==
  /\ solverLiquidity[s][t] >= amount
  /\ solverLiquidity' = [solverLiquidity EXCEPT ![s][t] = @ - amount]
  /\ PayOut(s, t, amount)
  /\ UNCHANGED <<solverETH, fillRecords>>

(* Mutated form: the withdrawal leaves the solver's credit as it was.      *)
WithdrawETH_keepsCredit(s, amount) ==
  /\ solverETH[s] >= amount
  /\ PayOut(s, ETH, amount)
  /\ UNCHANGED <<solverLiquidity, solverETH, fillRecords>>

WithdrawETH(s, amount) ==
  /\ solverETH[s] >= amount
  /\ solverETH' = [solverETH EXCEPT ![s] = @ - amount]
  /\ PayOut(s, ETH, amount)
  /\ UNCHANGED <<solverLiquidity, fillRecords>>

(* receive(): plain ETH sent to the settler is credited to nobody.         *)
Receive(a, amount) ==
  /\ PayIn(a, ETH, amount)
  /\ UNCHANGED <<solverLiquidity, solverETH, fillRecords>>

-----------------------------------------------------------------------------
(* Filling.  The parameters come from the solver: nothing ties them to the *)
(* order of the source chain.                                              *)

(* Mutated form: a later fill of the same order is accepted.               *)
RecordFill_again(s, id, t, amount, r, gas) ==
  /\ amount > 0
  /\ fillRecords' = [fillRecords EXCEPT ![id] =
       [solver |-> s, recipient |-> r, token |-> t, amount |-> amount,
        gasProvided |-> gas]]

RecordFill(s, id, t, amount, r, gas) ==
  /\ ~IsFilled(id)
  /\ amount > 0
  /\ r \in Recipients
  /\ fillRecords' = [fillRecords EXCEPT ![id] =
       [solver |-> s, recipient |-> r, token |-> t, amount |-> amount,
        gasProvided |-> gas]]

(* A native fill paid with the ETH sent along; the excess comes back.      *)
FillNativeSent(s, id, amount, r, gas, value) ==
  /\ RecordFill(s, id, ETH, amount, r, gas)
  /\ wallet[s][ETH] >= value /\ value >= amount + gas
  /\ wallet' = Credit(Debit(wallet, s, ETH, amount + gas), r, ETH, amount + gas)
  /\ UNCHANGED <<solverLiquidity, solverETH, held>>

(* A native fill from deposited ETH.  What was sent along is kept and      *)
(* credited to nobody.                                                     *)
FillNativeDeposited(s, id, amount, r, gas, value) ==
  /\ RecordFill(s, id, ETH, amount, r, gas)
  /\ wallet[s][ETH] >= value /\ value < amount + gas
  /\ solverETH[s] >= amount + gas
  /\ solverETH' = [solverETH EXCEPT ![s] = @ - (amount + gas)]
  /\ wallet' = Credit(Debit(wallet, s, ETH, value), r, ETH, amount + gas)
  /\ held' = [held EXCEPT ![ETH] = @ + value - (amount + gas)]
  /\ UNCHANGED solverLiquidity

(* An ERC-20 fill from deposited tokens, with gas from deposited ETH.      *)
FillToken(s, id, t, amount, r, gas, value) ==
  /\ RecordFill(s, id, t, amount, r, gas)
  /\ wallet[s][ETH] >= value
  /\ solverLiquidity[s][t] >= amount
  /\ solverETH[s] >= gas
  /\ solverLiquidity' = [solverLiquidity EXCEPT ![s][t] = @ - amount]
  /\ solverETH' = [solverETH EXCEPT ![s] = @ - gas]
  /\ wallet' = Credit(Credit(Debit(wallet, s, ETH, value), r, ETH, gas),
                      r, t, amount)
  /\ held' = [held EXCEPT ![ETH] = @ + value - gas, ![t] = @ - amount]

Fill(s, id, amount, r, gas, value) ==
  \/ FillNativeSent(s, id, amount, r, gas, value)
  \/ FillNativeDeposited(s, id, amount, r, gas, value)
  \/ \E t \in Tokens : FillToken(s, id, t, amount, r, gas, value)

FillDirectNative(s, id, amount, r, value) ==
  /\ RecordFill(s, id, ETH, amount, r, 0)
  /\ wallet[s][ETH] >= value /\ value >= amount
  /\ wallet' = Credit(Debit(wallet, s, ETH, amount), r, ETH, amount)
  /\ UNCHANGED <<solverLiquidity, solverETH, held>>

FillDirectToken(s, id, t, amount, r, value) ==
  /\ RecordFill(s, id, t, amount, r, 0)
  /\ wallet[s][t] >= amount /\ wallet[s][ETH] >= value
  /\ wallet' = Credit(Debit(Debit(wallet, s, ETH, value), s, t, amount),
                      r, t, amount)
  /\ held' = [held EXCEPT ![ETH] = @ + value]
  /\ UNCHANGED <<solverLiquidity, solverETH>>

FillDirect(s, id, t, amount, r, value) ==
  IF t = ETH THEN FillDirectNative(s, id, amount, r, value)
             ELSE FillDirectToken(s, id, t, amount, r, value)

Next ==
  \E s \in Solvers, amount \in Amounts :
    \/ \E t \in Tokens : \/ DepositLiquidity(s, t, amount)
                         \/ WithdrawLiquidity(s, t, amount)
    \/ DepositETH(s, amount) \/ WithdrawETH(s, amount) \/ Receive(s, amount)
    \/ \E id \in Ids, r \in Recipients, value \in Amounts :
         \/ \E gas \in Amounts : Fill(s, id, amount, r, gas, value)
         \/ \E t \in Assets : FillDirect(s, id, t, amount, r, value)

Spec == Init /\ [][Next]_vars

-----------------------------------------------------------------------------
(* Correctness.                                                            *)

TypeOK ==
  /\ solverLiquidity \in [Solvers -> [Tokens -> Nat]]
  /\ solverETH \in [Solvers -> Nat]
  /\ fillRecords \in [Ids -> FillRecord \cup {NoFill}]
  /\ wallet \in [Holders -> [Assets -> Nat]]
  /\ held \in [Assets -> Nat]

(* Every solver could withdraw all it is credited with at the same time:   *)
(* fills, direct fills and stray ETH never eat into another's deposit.     *)
Backed ==
  /\ \A t \in Tokens :
       held[t] = SumFunction([s \in Solvers |-> solverLiquidity[s][t]])
  /\ held[ETH] >= SumFunction(solverETH)

(* A recipient receives exactly what the fill records say, each order      *)
(* once, whichever of the paths of fill and fillDirect delivered it.       *)
Receives(r, id) == IsFilled(id) /\ fillRecords[id].recipient = r
Delivered(r, t) ==
  SumFunction([id \in Ids |->
    IF Receives(r, id) /\ fillRecords[id].token = t
      THEN fillRecords[id].amount ELSE 0])
GasDelivered(r) ==
  SumFunction([id \in Ids |->
    IF Receives(r, id) THEN fillRecords[id].gasProvided ELSE 0])

RecipientsPaidOnce ==
  \A r \in Recipients \ Solvers :
    /\ \A t \in Tokens : wallet[r][t] = InitialFunds[r][t] + Delivered(r, t)
    /\ wallet[r][ETH] =
         InitialFunds[r][ETH] + Delivered(r, ETH) + GasDelivered(r)
=============================================================================
