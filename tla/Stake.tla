-------------------------------- MODULE Stake -------------------------------
(***************************************************************************)
(* One bonded stake and what may be done to it.  SolverRegistry.sol and    *)
(* L1StakeManager.sol under src/packages/contracts/src write the same code *)
(* over records that share these fields; the definitions follow            *)
(* SolverRegistry.sol.                                                     *)
(***************************************************************************)
EXTENDS Integers

CONSTANTS
  MIN_STAKE,      (* 0.5 ether for solvers, 1 ether for XLPs               *)
  SLASH_PERCENT   (* 50                                                    *)

ASSUME StakeAssumption ==
  /\ MIN_STAKE \in Nat \ {0}
  /\ SLASH_PERCENT \in 0..100

Total(k) == k.staked + k.unbonding

(* A stake that is neither active nor unbonding is out of everyone's reach.*)
Bonded(k) == k.active \/ k.unbonding > 0

(* startUnbonding: all of it, or leaving at least the minimum.             *)
CanUnbond(k, amount) ==
  /\ k.active /\ k.unbonding = 0
  /\ amount <= k.staked
  /\ amount = k.staked \/ k.staked - amount >= MIN_STAKE

Unbond(k, amount, time) ==
  [k EXCEPT !.staked = @ - amount, !.unbonding = amount, !.start = time,
            !.active = k.staked # amount]

(* Mutated form: what was unbonding stays there when it is restaked.       *)
Restake_twice(k) ==
  [k EXCEPT !.staked = @ + k.unbonding, !.active = TRUE]

(* cancelUnbonding activates the stake again, whatever its size.           *)
Restake(k) ==
  [k EXCEPT !.staked = @ + k.unbonding, !.unbonding = 0, !.start = 0,
            !.active = TRUE]

Withdraw(k) == [k EXCEPT !.unbonding = 0, !.start = 0]

(* Mutated form: the claim is paid in full, whatever is there.             *)
SlashAmount_uncapped(k, amount) == amount

SlashAmount(k, amount) ==
  LET share == (Total(k) * SLASH_PERCENT) \div 100
  IN  IF share > amount THEN amount ELSE share

(* Mutated form: a stake that fell below the minimum stays active.         *)
Slash_keepsActive(k, amount) ==
  [k EXCEPT !.staked = IF @ >= amount THEN @ - amount ELSE 0,
            !.unbonding = IF k.staked >= amount THEN @
                          ELSE @ - (amount - k.staked),
            !.slashed = @ + amount]

(* The active part pays first, then what is unbonding.                     *)
Slash(k, amount) ==
  LET left == IF k.staked >= amount THEN k.staked - amount ELSE 0
  IN  [k EXCEPT !.staked = left,
                !.unbonding = IF k.staked >= amount THEN @
                              ELSE @ - (amount - k.staked),
                !.slashed = @ + amount,
                !.active = @ /\ left >= MIN_STAKE]
=============================================================================
