--------------------------- MODULE L1StakeManager ---------------------------
(***************************************************************************)
(* The L1 bonds of cross-chain liquidity providers (XLPs) and the disputes *)
(* about their slashing: src/packages/contracts/src/eil/L1StakeManager.sol.*)
(* A stake goes through the same operations as in SolverRegistry; here the *)
(* waiting period depends on the chains the XLP serves, every slash leaves *)
(* a record, and arbitrators may give the slashed amount back.  A          *)
(* transaction is one step; one whose ETH transfer is refused reverts.     *)
(***************************************************************************)
EXTENDS Stake, ChainList

CONSTANTS
  Xlps,
  Victims,
  Slashers,
  Arbitrators,
  Chains,
  Vouchers,
  MAX_CHAINS,
  DEFAULT_UNBONDING_PERIOD, MIN_UNBONDING_PERIOD, MAX_UNBONDING_PERIOD,
  DISPUTE_CHALLENGE_PERIOD,
  MIN_ARBITRATOR_STAKE,
  InitialFunds,        (* ETH the XLPs and arbitrators start with          *)
  InitialPaymasters,   (* l2Paymasters and authorizedSlashers as the       *)
  InitialSlashers,     (* deployment scripts leave them                    *)
  Amounts,
  Periods,             (* Bound: the unbonding periods the owner tries     *)
  MaxExtraCalls,       (* Bound: calls of the owner and of receive()       *)
  MaxTime              (* Bound: the last time explored                    *)

Accounts == Xlps \cup Victims \cup Arbitrators

ASSUME L1Assumption ==
  /\ MAX_CHAINS \in Nat /\ DISPUTE_CHALLENGE_PERIOD \in Nat \ {0}
  /\ MIN_UNBONDING_PERIOD \in Nat \ {0}
  /\ DEFAULT_UNBONDING_PERIOD \in MIN_UNBONDING_PERIOD..MAX_UNBONDING_PERIOD
  /\ MIN_ARBITRATOR_STAKE \in Nat \ {0}
  /\ Amounts \subseteq Nat /\ Periods \subseteq Nat
  /\ MaxExtraCalls \in Nat /\ MaxTime \in Nat
  /\ InitialFunds \in [Xlps \cup Arbitrators -> Nat]
  /\ InitialPaymasters \subseteq Chains /\ InitialSlashers \subseteq Slashers
  /\ IsFiniteSet(Xlps) /\ IsFiniteSet(Arbitrators)
  /\ IsFiniteSet(Chains) /\ IsFiniteSet(Vouchers)
  /\ Victims \cap (Xlps \cup Arbitrators) = {}

VARIABLES
  stakes,              (* [Xlps -> XLPStake]                               *)
  xlpChains,           (* [Xlps -> Seq(Chains)]                            *)
  totalStaked, totalSlashed, activeXLPCount,
  slashRecords,        (* [SlashIds -> SlashRecord]                        *)
  disputeVotes,        (* [SlashIds -> SUBSET Arbitrators]                 *)
  votesForXLP, votesAgainstXLP,
  arbitrators,         (* [Arbitrators -> Nat], stake; 0 if not registered *)
  l2Paymasters,        (* the chains that have one                         *)
  chainPeriods,        (* chainUnbondingPeriods, 0 if unset                *)
  authorizedSlashers, paused,
  extraCalls,
  now, balance, wallet,
  received             (* ghost: ETH sent to receive()                     *)

bondVars == <<stakes, totalStaked, totalSlashed, activeXLPCount>>
voteVars == <<disputeVotes, votesForXLP, votesAgainstXLP>>
disputeVars == <<slashRecords, voteVars>>
ownerVars == <<l2Paymasters, chainPeriods, authorizedSlashers, paused,
               extraCalls>>
moneyVars == <<balance, wallet, received>>
vars == <<bondVars, xlpChains, disputeVars, arbitrators, ownerVars, now,
          moneyVars>>

(* keccak256(xlp, chainId, voucherId)                                      *)
SlashIds == Xlps \X Chains \X Vouchers

XLPStake == [staked : Nat, unbonding : Nat, start : Nat, locked : Nat,
             slashed : Nat, active : BOOLEAN]
NewStake(amount, isActive) ==
  [staked |-> amount, unbonding |-> 0, start |-> 0, locked |-> 0,
   slashed |-> 0, active |-> isActive]

DisputeStatus == {"None", "Pending", "ChallengedXLP", "Resolved", "Rejected"}
SlashRecord == [amount : Nat, executed : BOOLEAN, status : DisputeStatus,
                deadline : Nat]
NewRecord(amount, isExecuted) ==
  [amount |-> amount, executed |-> isExecuted, status |-> "None",
   deadline |-> 0]

ChainLists == UNION {[1..n -> Chains] : n \in 0..MAX_CHAINS}

Init ==
  /\ stakes = [x \in Xlps |-> NewStake(0, FALSE)]
  /\ xlpChains = [x \in Xlps |-> <<>>]
  /\ totalStaked = 0 /\ totalSlashed = 0 /\ activeXLPCount = 0
  /\ slashRecords = [id \in SlashIds |-> NewRecord(0, FALSE)]
  /\ disputeVotes = [id \in SlashIds |-> {}]
  /\ votesForXLP = [id \in SlashIds |-> 0]
  /\ votesAgainstXLP = [id \in SlashIds |-> 0]
  /\ arbitrators = [a \in Arbitrators |-> 0]
  /\ l2Paymasters = InitialPaymasters
  /\ chainPeriods = [c \in Chains |-> 0]
  /\ authorizedSlashers = InitialSlashers
  /\ paused = FALSE
  /\ extraCalls = 0
  /\ now = 0
  /\ balance = 0
  /\ wallet = [a \in Accounts |-> IF a \in Victims THEN 0 ELSE InitialFunds[a]]
  /\ received = 0

-----------------------------------------------------------------------------
PayIn(a, amount) ==
  /\ wallet[a] >= amount
  /\ wallet' = [wallet EXCEPT ![a] = @ - amount]
  /\ balance' = balance + amount

PayOut(a, amount) ==
  /\ balance >= amount
  /\ wallet' = [wallet EXCEPT ![a] = @ + amount]
  /\ balance' = balance - amount

TakeFromTotal(amount) ==
  /\ totalStaked >= amount
  /\ totalStaked' = totalStaked - amount

(* getXLPUnbondingPeriod: the longest of the chains it serves, and never   *)
(* less than the default.                                                  *)
XLPUnbondingPeriod(x) ==
  Max({DEFAULT_UNBONDING_PERIOD} \cup {chainPeriods[c] : c \in Range(xlpChains[x])})

Register(x, amount, chains) ==
  /\ ~paused
  /\ ~stakes[x].active
  /\ Range(chains) \subseteq l2Paymasters
  /\ amount >= MIN_STAKE /\ PayIn(x, amount)
  /\ stakes' = [stakes EXCEPT ![x] = NewStake(amount, TRUE)]
  /\ xlpChains' = [xlpChains EXCEPT ![x] = chains]
  /\ totalStaked' = totalStaked + amount
  /\ activeXLPCount' = activeXLPCount + 1
  /\ UNCHANGED <<totalSlashed, disputeVars, arbitrators, ownerVars, now,
                 received>>

AddStake(x, amount) ==
  /\ ~paused
  /\ stakes[x].active
  /\ amount > 0 /\ PayIn(x, amount)
  /\ stakes' = [stakes EXCEPT ![x].staked = @ + amount]
  /\ totalStaked' = totalStaked + amount
  /\ UNCHANGED <<xlpChains, totalSlashed, activeXLPCount, disputeVars,
                 arbitrators, ownerVars, now, received>>

StartUnbonding(x, amount) ==
  /\ ~paused
  /\ CanUnbond(stakes[x], amount)
  /\ stakes' = [stakes EXCEPT ![x] =
                  [Unbond(@, amount, now) EXCEPT !.locked = XLPUnbondingPeriod(x)]]
  /\ activeXLPCount' =
       IF amount = stakes[x].staked THEN activeXLPCount - 1 ELSE activeXLPCount
  /\ UNCHANGED <<xlpChains, totalStaked, totalSlashed, disputeVars,
                 arbitrators, ownerVars, now, moneyVars>>

(* Mutated form: the period is that of the chains served now.              *)
UnbondingOver_current(x) == now >= stakes[x].start + XLPUnbondingPeriod(x)

(* locked is at least the default: the fallback for 0 is never taken.      *)
UnbondingOver(x) == now >= stakes[x].start + stakes[x].locked

CompleteUnbonding(x) ==
  /\ stakes[x].unbonding > 0
  /\ UnbondingOver(x)
  /\ stakes' = [stakes EXCEPT ![x] = [Withdraw(@) EXCEPT !.locked = 0]]
  /\ TakeFromTotal(stakes[x].unbonding)
  /\ PayOut(x, stakes[x].unbonding)
  /\ UNCHANGED <<xlpChains, totalSlashed, activeXLPCount, disputeVars,
                 arbitrators, ownerVars, now, received>>

CancelUnbonding(x) ==
  /\ ~paused
  /\ stakes[x].unbonding > 0
  /\ stakes' = [stakes EXCEPT ![x] = [Restake(@) EXCEPT !.locked = 0]]
  /\ activeXLPCount' =
       IF stakes[x].active THEN activeXLPCount ELSE activeXLPCount + 1
  /\ UNCHANGED <<xlpChains, totalStaked, totalSlashed, disputeVars,
                 arbitrators, ownerVars, now, moneyVars>>

RegisterChain(x, c) ==
  /\ ~paused
  /\ stakes[x].active
  /\ c \in l2Paymasters
  /\ Len(xlpChains[x]) < MAX_CHAINS
  /\ ~Lists(xlpChains[x], c)
  /\ xlpChains' = [xlpChains EXCEPT ![x] = Append(@, c)]
  /\ UNCHANGED <<bondVars, disputeVars, arbitrators, ownerVars, now, moneyVars>>

UnregisterChain(x, c) ==
  /\ Lists(xlpChains[x], c)
  /\ xlpChains' = [xlpChains EXCEPT ![x] = Remove(@, c)]
  /\ UNCHANGED <<bondVars, disputeVars, arbitrators, ownerVars, now, moneyVars>>

-----------------------------------------------------------------------------
(* Slashing, and the dispute that may follow.                              *)

(* Mutated form: a voucher can be slashed for again.                       *)
FirstSlash_unchecked(id) == TRUE

FirstSlash(id) == ~slashRecords[id].executed

SlashXLP(slasher, id, amount, victim) ==
  LET x == id[1]
      taken == SlashAmount(stakes[x], amount)
      after == Slash(stakes[x], taken)
  IN  /\ slasher \in authorizedSlashers
      /\ Bonded(stakes[x])
      /\ FirstSlash(id)
      /\ stakes' = [stakes EXCEPT ![x] = after]
      /\ totalSlashed' = totalSlashed + taken
      /\ TakeFromTotal(taken)
      /\ activeXLPCount' = IF stakes[x].active /\ ~after.active
                           THEN activeXLPCount - 1 ELSE activeXLPCount
      /\ slashRecords' = [slashRecords EXCEPT ![id] = NewRecord(taken, TRUE)]
      /\ PayOut(victim, taken)
      /\ UNCHANGED <<xlpChains, voteVars, arbitrators, ownerVars, now, received>>

(* disputeSlash and disputeSlashWithEvidence, by the XLP, at any time.     *)
DisputeSlash(id) ==
  /\ slashRecords[id].executed /\ slashRecords[id].status = "None"
  /\ slashRecords' = [slashRecords EXCEPT
       ![id].status = "Pending", ![id].deadline = now + DISPUTE_CHALLENGE_PERIOD]
  /\ UNCHANGED <<bondVars, xlpChains, voteVars, arbitrators, ownerVars, now,
                 moneyVars>>

(* Mutated form: a dispute with a proof is no longer pending.              *)
Open_withoutProof(id) == slashRecords[id].status = "Pending"

Open(id) == slashRecords[id].status \in {"Pending", "ChallengedXLP"}

(* Mutated form: votes are taken until the dispute is resolved.            *)
InTime_always(id) == TRUE

InTime(id) == now <= slashRecords[id].deadline

(* The verifier, when there is one, accepts or refuses a proof; a refusal  *)
(* reverts.                                                                *)
SubmitFulfillmentProof(id) ==
  /\ slashRecords[id].status = "Pending"
  /\ InTime(id)
  /\ slashRecords' = [slashRecords EXCEPT ![id].status = "ChallengedXLP"]
  /\ UNCHANGED <<bondVars, xlpChains, voteVars, arbitrators, ownerVars, now,
                 moneyVars>>

RegisterArbitrator(a, amount) ==
  /\ ~paused
  /\ amount >= MIN_ARBITRATOR_STAKE
  /\ arbitrators[a] = 0
  /\ PayIn(a, amount)
  /\ arbitrators' = [arbitrators EXCEPT ![a] = amount]
  /\ UNCHANGED <<bondVars, xlpChains, disputeVars, ownerVars, now, received>>

CountVote(id, a, inFavorOfXLP) ==
  /\ disputeVotes' = [disputeVotes EXCEPT ![id] = @ \cup {a}]
  /\ votesForXLP' = [votesForXLP EXCEPT ![id] = IF inFavorOfXLP THEN @ + 1 ELSE @]
  /\ votesAgainstXLP' =
       [votesAgainstXLP EXCEPT ![id] = IF inFavorOfXLP THEN @ ELSE @ + 1]

VoteOnDispute(a, id, inFavorOfXLP) ==
  /\ arbitrators[a] > 0
  /\ Open(id)
  /\ InTime(id)
  /\ a \notin disputeVotes[id]
  /\ CountVote(id, a, inFavorOfXLP)
  /\ UNCHANGED <<bondVars, xlpChains, slashRecords, arbitrators, ownerVars, now,
                 moneyVars>>

(* What the XLP gets back when it won: the record grows, and no ETH moves. *)
Returned(k, amount) ==
  [k EXCEPT !.staked = @ + amount, !.slashed = @ - amount,
            !.active = @ \/ k.staked + amount >= MIN_STAKE]

Reactivated(x, after) == after.active /\ ~stakes[x].active

(* Mutated form: unchecked subtractions.                                   *)
Covered_unchecked(x, amount) == TRUE

(* The subtractions revert on underflow: an XLP that registered again      *)
(* since the slash has nothing slashed in its new record.                  *)
Covered(x, amount) == stakes[x].slashed >= amount /\ totalSlashed >= amount

ResolveDispute(id) ==
  LET x == id[1]
      amount == slashRecords[id].amount
      after == Returned(stakes[x], amount)
  IN  /\ Open(id)
      /\ now > slashRecords[id].deadline
      /\ IF votesForXLP[id] > votesAgainstXLP[id]
         THEN /\ Covered(x, amount)
              /\ slashRecords' = [slashRecords EXCEPT ![id].status = "Resolved"]
              /\ stakes' = [stakes EXCEPT ![x] = after]
              /\ totalSlashed' = totalSlashed - amount
              /\ totalStaked' = totalStaked + amount
              /\ activeXLPCount' = IF Reactivated(x, after)
                                   THEN activeXLPCount + 1 ELSE activeXLPCount
         ELSE /\ slashRecords' = [slashRecords EXCEPT ![id].status = "Rejected"]
              /\ UNCHANGED bondVars
      /\ UNCHANGED <<xlpChains, voteVars, arbitrators, ownerVars, now, moneyVars>>

-----------------------------------------------------------------------------
(* The owner, and ETH that is just sent here.                              *)

RegisterL2Paymaster(c) ==
  /\ l2Paymasters' = IF c \in l2Paymasters THEN l2Paymasters \ {c}
                                           ELSE l2Paymasters \cup {c}
  /\ UNCHANGED <<chainPeriods, authorizedSlashers, paused>>

SetChainUnbondingPeriod(c, period) ==
  /\ period \in MIN_UNBONDING_PERIOD..MAX_UNBONDING_PERIOD
  /\ chainPeriods' = [chainPeriods EXCEPT ![c] = period]
  /\ UNCHANGED <<l2Paymasters, authorizedSlashers, paused>>

SetAuthorizedSlasher(slasher, authorized) ==
  /\ authorizedSlashers' = IF authorized THEN authorizedSlashers \cup {slasher}
                                         ELSE authorizedSlashers \ {slasher}
  /\ UNCHANGED <<l2Paymasters, chainPeriods, paused>>

SetPaused ==
  /\ paused' = ~paused
  /\ UNCHANGED <<l2Paymasters, chainPeriods, authorizedSlashers>>

OwnerCalls ==
  /\ extraCalls < MaxExtraCalls
  /\ extraCalls' = extraCalls + 1
  /\ \/ \E c \in Chains : RegisterL2Paymaster(c)
     \/ \E c \in Chains, period \in Periods : SetChainUnbondingPeriod(c, period)
     \/ \E slasher \in Slashers, b \in BOOLEAN : SetAuthorizedSlasher(slasher, b)
     \/ SetPaused
  /\ UNCHANGED <<bondVars, xlpChains, disputeVars, arbitrators, now, moneyVars>>

Receive(x, amount) ==
  /\ extraCalls < MaxExtraCalls
  /\ extraCalls' = extraCalls + 1
  /\ PayIn(x, amount)
  /\ received' = received + amount
  /\ UNCHANGED <<bondVars, xlpChains, disputeVars, arbitrators, l2Paymasters,
                 chainPeriods, authorizedSlashers, paused, now>>

Tick ==
  /\ now < MaxTime
  /\ now' = now + 1
  /\ UNCHANGED <<bondVars, xlpChains, disputeVars, arbitrators, ownerVars,
                 moneyVars>>

Next ==
  \/ \E x \in Xlps, amount \in Amounts :
       \/ \E chains \in ChainLists : Register(x, amount, chains)
       \/ AddStake(x, amount) \/ StartUnbonding(x, amount) \/ Receive(x, amount)
  \/ \E x \in Xlps : CompleteUnbonding(x) \/ CancelUnbonding(x)
  \/ \E x \in Xlps, c \in Chains : RegisterChain(x, c) \/ UnregisterChain(x, c)
  \/ \E slasher \in Slashers, id \in SlashIds, amount \in Amounts,
        victim \in Victims : SlashXLP(slasher, id, amount, victim)
  \/ \E id \in SlashIds :
       DisputeSlash(id) \/ SubmitFulfillmentProof(id) \/ ResolveDispute(id)
  \/ \E a \in Arbitrators :
       \/ \E amount \in Amounts : RegisterArbitrator(a, amount)
       \/ \E id \in SlashIds, b \in BOOLEAN : VoteOnDispute(a, id, b)
  \/ OwnerCalls
  \/ Tick

Spec == Init /\ [][Next]_vars

(* Time passes, and somebody, the XLP for one, calls resolveDispute.       *)
FairSpec ==
  Spec /\ WF_vars(Tick) /\ \A id \in SlashIds : WF_vars(ResolveDispute(id))

-----------------------------------------------------------------------------
(* Correctness.                                                            *)

TypeOK ==
  /\ stakes \in [Xlps -> XLPStake]
  /\ xlpChains \in [Xlps -> Seq(Chains)]
  /\ \A x \in Xlps : Len(xlpChains[x]) <= MAX_CHAINS
  /\ totalStaked \in Nat /\ totalSlashed \in Nat /\ activeXLPCount \in Nat
  /\ slashRecords \in [SlashIds -> SlashRecord]
  /\ disputeVotes \in [SlashIds -> SUBSET Arbitrators]
  /\ votesForXLP \in [SlashIds -> Nat] /\ votesAgainstXLP \in [SlashIds -> Nat]
  /\ arbitrators \in [Arbitrators -> Nat]
  /\ l2Paymasters \subseteq Chains
  /\ chainPeriods \in [Chains -> Nat]
  /\ authorizedSlashers \subseteq Slashers
  /\ paused \in BOOLEAN /\ extraCalls \in 0..MaxExtraCalls
  /\ now \in 0..MaxTime
  /\ balance \in Nat /\ received \in Nat
  /\ wallet \in [Accounts -> Nat]

SumOfStakes == SumFunction([x \in Xlps |-> Total(stakes[x])])
ArbitratorStakes == SumFunction(arbitrators)

(* What a slash gave back, and what it took from the XLP for good so far.  *)
GivenBack(id) ==
  IF slashRecords[id].status = "Resolved" THEN slashRecords[id].amount ELSE 0
KeptFrom(x, id) ==
  IF id[1] = x /\ slashRecords[id].status # "Resolved"
  THEN slashRecords[id].amount ELSE 0
AllGivenBack == SumFunction([id \in SlashIds |-> GivenBack(id)])
Kept(x) == SumFunction([id \in SlashIds |-> KeptFrom(x, id)])

(* activeXLPCount is the number of active XLPs: six functions move it, and *)
(* a dispute can bring an XLP back that a slash retired.                   *)
Active == {x \in Xlps : stakes[x].active}
CountIsExact == activeXLPCount = Cardinality(Active)

(* The books follow every way ETH moves: what the contract owes to stakers *)
(* and arbitrators differs from what it holds by what it credited to XLPs  *)
(* that won a dispute, after the victim was paid, and by what was sent to  *)
(* it.  The slashes on record explain every XLP's slashedAmount, however   *)
(* slashes, disputes and new registrations interleave, and the XLPs that   *)
(* are active are counted.                                                 *)
BooksExplained ==
  /\ balance + AllGivenBack = totalStaked + ArbitratorStakes + received
  /\ SumOfStakes <= totalStaked
  /\ \A x \in Xlps : stakes[x].slashed <= Kept(x)
  /\ CountIsExact

(* A verdict is the count of the votes cast in time: the count does not    *)
(* move once the deadline is over, and the verdict is final once given.    *)
Decided(id) == slashRecords[id].status \in {"Resolved", "Rejected"}
Closed(id) == slashRecords[id].status # "None" /\ now > slashRecords[id].deadline
VotesInTime ==
  [][\A id \in SlashIds : Closed(id) =>
       /\ UNCHANGED <<votesForXLP[id], votesAgainstXLP[id]>>
       /\ Decided(id) => UNCHANGED slashRecords[id]]_vars

(* Leaving a chain, or the owner shortening a period, does not bring a     *)
(* withdrawal forward: it takes the longest period of the chains that were *)
(* served when it was asked for, the slashes of which may still come.      *)
Withdraws(x) == stakes[x].unbonding > 0 /\ wallet'[x] > wallet[x]
NoEarlyExit ==
  [][\A x \in Xlps :
       /\ Withdraws(x) => now >= stakes[x].start + stakes[x].locked
       /\ stakes[x].unbonding = 0 /\ stakes'[x].unbonding > 0 =>
            \A c \in Chains : Lists(xlpChains[x], c) =>
              stakes'[x].locked >= Max({chainPeriods[c], DEFAULT_UNBONDING_PERIOD})
       /\ stakes[x].unbonding > 0 /\ stakes'[x].unbonding > 0 =>
            UNCHANGED <<stakes[x].start, stakes[x].locked>>]_vars

(* A dispute is decided, unless the XLP registered again and wiped out the *)
(* slash that the dispute is about.                                        *)
Filed(id) == slashRecords[id].status # "None" /\ slashRecords[id].deadline < MaxTime
Wiped(id) == stakes[id[1]].slashed < slashRecords[id].amount
EveryDisputeDecided ==
  \A id \in SlashIds : Filed(id) ~> Decided(id) \/ Wiped(id)
=============================================================================
