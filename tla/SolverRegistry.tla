--------------------------- MODULE SolverRegistry ---------------------------
(***************************************************************************)
(* The bonds of OIF solvers: src/packages/contracts/src/oif/               *)
(* SolverRegistry.sol.  Solvers register with a stake, add to it, unbond   *)
(* it and take it out after a waiting period; slashers take part of it for *)
(* a victim.  A transaction is one step.  A victim or a solver that        *)
(* refuses ETH makes the transaction revert, as if it was not sent.        *)
(***************************************************************************)
EXTENDS Stake, ChainList

CONSTANTS
  Solvers,
  Victims,           (* who slashed funds go to                            *)
  Slashers,          (* accounts that may be authorised                    *)
  Owner,
  Chains,
  MAX_CHAINS,        (* 50                                                 *)
  UNBONDING_PERIOD,  (* 8 days                                             *)
  Amounts,           (* amounts that are sent, unbonded or claimed         *)
  InitialFunds,      (* ETH the solvers start with                         *)
  MaxTime,           (* Bound: the last time explored                      *)
  MaxFills,          (* Bound: recorded fills                              *)
  MaxReceived        (* Bound: ETH sent to receive()                       *)

ASSUME RegistryAssumption ==
  /\ UNBONDING_PERIOD \in Nat \ {0} /\ MAX_CHAINS \in Nat
  /\ Amounts \subseteq Nat /\ MaxTime \in Nat /\ MaxFills \in Nat
  /\ InitialFunds \in [Solvers -> Nat]
  /\ IsFiniteSet(Solvers) /\ Solvers \cap Victims = {}

VARIABLES
  stakes,             (* [Solvers -> SolverStake]                          *)
  solverChains,       (* [Solvers -> Seq(Chains)], may repeat a chain      *)
  totalStaked, totalSlashed, activeSolverCount,
  authorizedSlashers,
  fillCount,          (* [Solvers -> Nat]                                  *)
  successCount,       (* [Solvers -> Nat]                                  *)
  paused,
  now,                (* block.timestamp                                   *)
  balance,            (* ETH of the registry                               *)
  wallet,             (* [Solvers \cup Victims -> Nat]                     *)
  received,           (* history: ETH that came in through receive()       *)
  forfeited           (* history: stake that a new registration overwrote  *)

bondVars == <<stakes, totalStaked, totalSlashed, activeSolverCount>>
moneyVars == <<balance, wallet>>
adminVars == <<authorizedSlashers, fillCount, successCount, paused>>
historyVars == <<received, forfeited>>
vars == <<bondVars, solverChains, adminVars, now, moneyVars, historyVars>>

Accounts == Solvers \cup Victims
SolverStake == [staked : Nat, unbonding : Nat, start : Nat, slashed : Nat,
                active : BOOLEAN]
NoStake == [staked |-> 0, unbonding |-> 0, start |-> 0, slashed |-> 0,
            active |-> FALSE]

NewStake(amount) ==
  [staked |-> amount, unbonding |-> 0, start |-> 0, slashed |-> 0,
   active |-> TRUE]

ChainLists == UNION {[1..n -> Chains] : n \in 0..MAX_CHAINS}

Init ==
  /\ stakes = [s \in Solvers |-> NoStake]
  /\ solverChains = [s \in Solvers |-> <<>>]
  /\ totalStaked = 0 /\ totalSlashed = 0 /\ activeSolverCount = 0
  /\ authorizedSlashers = {}
  /\ fillCount = [s \in Solvers |-> 0]
  /\ successCount = [s \in Solvers |-> 0]
  /\ paused = FALSE
  /\ now = 0
  /\ balance = 0
  /\ wallet = [a \in Accounts |-> IF a \in Solvers THEN InitialFunds[a] ELSE 0]
  /\ received = 0 /\ forfeited = 0

-----------------------------------------------------------------------------
PayIn(a, amount) ==
  /\ wallet[a] >= amount
  /\ wallet' = [wallet EXCEPT ![a] = @ - amount]
  /\ balance' = balance + amount

PayOut(a, amount) ==
  /\ balance >= amount
  /\ wallet' = [wallet EXCEPT ![a] = @ + amount]
  /\ balance' = balance - amount

(* totalStaked -= amount reverts on underflow.                             *)
TakeFromTotal(amount) ==
  /\ totalStaked >= amount
  /\ totalStaked' = totalStaked - amount

(* Mutated form: re-registering is possible while active.                  *)
Register_again(s, amount, chains) ==
  /\ ~paused
  /\ amount >= MIN_STAKE /\ PayIn(s, amount)
  /\ stakes' = [stakes EXCEPT ![s] = NewStake(amount)]
  /\ solverChains' = [solverChains EXCEPT ![s] = chains]
  /\ totalStaked' = totalStaked + amount
  /\ activeSolverCount' = activeSolverCount + 1
  /\ forfeited' = forfeited + Total(stakes[s])
  /\ UNCHANGED <<totalSlashed, adminVars, now, received>>

(* The record is written anew, whatever the solver still had in it.        *)
Register(s, amount, chains) ==
  /\ ~paused
  /\ ~stakes[s].active
  /\ amount >= MIN_STAKE /\ PayIn(s, amount)
  /\ stakes' = [stakes EXCEPT ![s] = NewStake(amount)]
  /\ solverChains' = [solverChains EXCEPT ![s] = chains]
  /\ totalStaked' = totalStaked + amount
  /\ activeSolverCount' = activeSolverCount + 1
  /\ forfeited' = forfeited + Total(stakes[s])
  /\ UNCHANGED <<totalSlashed, adminVars, now, received>>

AddStake(s, amount) ==
  /\ ~paused
  /\ stakes[s].active
  /\ amount > 0 /\ PayIn(s, amount)
  /\ stakes' = [stakes EXCEPT ![s].staked = @ + amount]
  /\ totalStaked' = totalStaked + amount
  /\ UNCHANGED <<solverChains, totalSlashed, activeSolverCount, adminVars, now,
                 historyVars>>

StartUnbonding(s, amount) ==
  /\ ~paused
  /\ CanUnbond(stakes[s], amount)
  /\ stakes' = [stakes EXCEPT ![s] = Unbond(@, amount, now)]
  /\ activeSolverCount' =
       IF amount = stakes[s].staked THEN activeSolverCount - 1
                                    ELSE activeSolverCount
  /\ UNCHANGED <<solverChains, totalStaked, totalSlashed, adminVars, now,
                 moneyVars, historyVars>>

(* Mutated form: a pause stops withdrawals.                                *)
CompleteUnbonding_notPaused(s) ==
  /\ ~paused
  /\ stakes[s].unbonding > 0
  /\ now >= stakes[s].start + UNBONDING_PERIOD
  /\ stakes' = [stakes EXCEPT ![s] = Withdraw(@)]
  /\ TakeFromTotal(stakes[s].unbonding)
  /\ PayOut(s, stakes[s].unbonding)
  /\ UNCHANGED <<solverChains, totalSlashed, activeSolverCount, adminVars, now,
                 historyVars>>

CompleteUnbonding(s) ==
  /\ stakes[s].unbonding > 0
  /\ now >= stakes[s].start + UNBONDING_PERIOD
  /\ stakes' = [stakes EXCEPT ![s] = Withdraw(@)]
  /\ TakeFromTotal(stakes[s].unbonding)
  /\ PayOut(s, stakes[s].unbonding)
  /\ UNCHANGED <<solverChains, totalSlashed, activeSolverCount, adminVars, now,
                 historyVars>>

CancelUnbonding(s) ==
  /\ ~paused
  /\ stakes[s].unbonding > 0
  /\ stakes' = [stakes EXCEPT ![s] = Restake(@)]
  /\ activeSolverCount' =
       IF stakes[s].active THEN activeSolverCount ELSE activeSolverCount + 1
  /\ UNCHANGED <<solverChains, totalStaked, totalSlashed, adminVars, now,
                 moneyVars, historyVars>>

(* receive(): plain ETH sent to the registry is nobody's stake.            *)
Receive(a, amount) ==
  /\ received + amount <= MaxReceived
  /\ PayIn(a, amount)
  /\ received' = received + amount
  /\ UNCHANGED <<bondVars, solverChains, adminVars, now, forfeited>>

-----------------------------------------------------------------------------
(* Chains.                                                                 *)

AddChain(s, c) ==
  /\ ~paused
  /\ stakes[s].active
  /\ Len(solverChains[s]) < MAX_CHAINS
  /\ ~Lists(solverChains[s], c)
  /\ solverChains' = [solverChains EXCEPT ![s] = Append(@, c)]
  /\ UNCHANGED <<bondVars, adminVars, now, moneyVars, historyVars>>

RemoveChain(s, c) ==
  /\ Lists(solverChains[s], c)
  /\ solverChains' = [solverChains EXCEPT ![s] = Remove(@, c)]
  /\ UNCHANGED <<bondVars, adminVars, now, moneyVars, historyVars>>

-----------------------------------------------------------------------------
(* Slashing and the owner.  Neither looks at paused.                       *)

SlashSolver(slasher, s, amount, victim) ==
  LET taken == SlashAmount(stakes[s], amount)
      after == Slash(stakes[s], taken)
  IN  /\ slasher \in authorizedSlashers
      /\ Bonded(stakes[s])
      /\ stakes' = [stakes EXCEPT ![s] = after]
      /\ totalSlashed' = totalSlashed + taken
      /\ TakeFromTotal(taken)
      /\ activeSolverCount' =
           IF stakes[s].active /\ ~after.active THEN activeSolverCount - 1
                                                ELSE activeSolverCount
      /\ PayOut(victim, taken)
      /\ UNCHANGED <<solverChains, adminVars, now, historyVars>>

RecordFill(caller, s, success) ==
  /\ caller \in authorizedSlashers \cup {Owner}
  /\ SumFunction(fillCount) < MaxFills
  /\ fillCount' = [fillCount EXCEPT ![s] = @ + 1]
  /\ successCount' = [successCount EXCEPT ![s] = IF success THEN @ + 1 ELSE @]
  /\ UNCHANGED <<bondVars, solverChains, authorizedSlashers, paused, now,
                 moneyVars, historyVars>>

SetSlasher(slasher, authorized) ==
  /\ authorizedSlashers' = IF authorized THEN authorizedSlashers \cup {slasher}
                                         ELSE authorizedSlashers \ {slasher}
  /\ UNCHANGED <<bondVars, solverChains, fillCount, successCount, paused, now,
                 moneyVars, historyVars>>

SetPaused ==
  /\ paused' = ~paused
  /\ UNCHANGED <<bondVars, solverChains, authorizedSlashers, fillCount,
                 successCount, now, moneyVars, historyVars>>

Tick ==
  /\ now < MaxTime
  /\ now' = now + 1
  /\ UNCHANGED <<bondVars, solverChains, adminVars, moneyVars, historyVars>>

Next ==
  \/ \E s \in Solvers, amount \in Amounts :
       \/ \E chains \in ChainLists : Register(s, amount, chains)
       \/ AddStake(s, amount) \/ StartUnbonding(s, amount)
       \/ \E slasher \in Slashers, victim \in Victims :
            SlashSolver(slasher, s, amount, victim)
  \/ \E s \in Solvers : CompleteUnbonding(s) \/ CancelUnbonding(s)
  \/ \E a \in Accounts, amount \in Amounts : Receive(a, amount)
  \/ \E s \in Solvers, c \in Chains : AddChain(s, c) \/ RemoveChain(s, c)
  \/ \E caller \in Slashers \cup {Owner}, s \in Solvers, b \in BOOLEAN :
       RecordFill(caller, s, b)
  \/ \E slasher \in Slashers, b \in BOOLEAN : SetSlasher(slasher, b)
  \/ SetPaused
  \/ Tick

Spec == Init /\ [][Next]_vars

(* Time passes, and a solver whose waiting period is over withdraws.       *)
FairSpec ==
  Spec /\ WF_vars(Tick) /\ \A s \in Solvers : WF_vars(CompleteUnbonding(s))

-----------------------------------------------------------------------------
(* Correctness.                                                            *)

TypeOK ==
  /\ stakes \in [Solvers -> SolverStake]
  /\ solverChains \in [Solvers -> Seq(Chains)]
  /\ \A s \in Solvers : Len(solverChains[s]) <= MAX_CHAINS
  /\ totalStaked \in Nat /\ totalSlashed \in Nat
  /\ activeSolverCount \in Nat
  /\ authorizedSlashers \subseteq Slashers
  /\ fillCount \in [Solvers -> Nat] /\ successCount \in [Solvers -> Nat]
  /\ paused \in BOOLEAN
  /\ now \in 0..MaxTime
  /\ balance \in Nat
  /\ wallet \in [Accounts -> Nat]
  /\ received \in Nat /\ forfeited \in Nat

(* The books are exact: the registry holds what totalStaked counts and the *)
(* stray ETH of receive(), and totalStaked is the stakes on record and     *)
(* what registering anew has overwritten, no wei more or less, slashes,    *)
(* exits and cancellations included.                                       *)
SumOfStakes == SumFunction([s \in Solvers |-> Total(stakes[s])])
BooksBalance == balance = totalStaked + received
Backed == BooksBalance /\ totalStaked = SumOfStakes + forfeited

(* activeSolverCount is the number of active solvers.  Five functions move *)
(* it, each on its own condition; one off, and the last deactivation would *)
(* underflow and revert, a slash included.                                 *)
Active == {s \in Solvers : stakes[s].active}
CountIsExact == activeSolverCount = Cardinality(Active)

(* An active solver is below the minimum for one reason only: it was       *)
(* slashed, and cancelled an unbonding with less than the minimum in all.  *)
(* No registration, top-up, unbonding or withdrawal brings a solver below  *)
(* it, and a slash that does, or that finds it there, deactivates it.      *)
BelowMinimum(s) == stakes[s].active /\ stakes[s].staked < MIN_STAKE
CancelsTooLittle(s) ==
  /\ stakes[s].unbonding > 0 /\ stakes[s].slashed > 0
  /\ Total(stakes[s]) < MIN_STAKE
OnlyCancelGoesBelow ==
  [][\A s \in Solvers : BelowMinimum(s)' =>
       \/ CancelsTooLittle(s) /\ stakes'[s] = Restake(stakes[s])
       \/ BelowMinimum(s) /\ stakes'[s].slashed = stakes[s].slashed]_vars

(* Whoever started to unbond gets out (or changes their mind): a pause, a  *)
(* slash or a total that went wrong does not hold a withdrawal back.       *)
Leaving(s) ==
  stakes[s].unbonding > 0 /\ stakes[s].start + UNBONDING_PERIOD <= MaxTime
EveryExitCompletes ==
  \A s \in Solvers : Leaving(s) ~> stakes[s].unbonding = 0
=============================================================================
