------------------------ MODULE SolverRegistry_proofs -----------------------
(***************************************************************************)
(* Proofs about SolverRegistry, for any solvers, amounts, periods and      *)
(* minimum stake.                                                          *)
(*                                                                         *)
(* IInv joins the type invariant with what each of the others needs: the   *)
(* books balance and say where every wei of totalStaked is, the counter is *)
(* the cardinality of the active solvers, and a solver that was never      *)
(* slashed is bonded.  The last one is inductive only with LeavingIsBonded,*)
(* because cancelUnbonding activates whatever is unbonding.                *)
(***************************************************************************)
EXTENDS SolverRegistry, Sums, SequenceTheorems, TLAPS

(* An active solver has something at stake, the minimum before any slash.  *)
ActiveIsBonded ==
  \A s \in Solvers : stakes[s].active =>
    /\ stakes[s].staked > 0
    /\ stakes[s].slashed = 0 => stakes[s].staked >= MIN_STAKE

(* Before any slash an inactive stake has nothing left but what unbonds,   *)
(* which was at least the minimum when it was active.                      *)
LeavingIsBonded ==
  \A s \in Solvers : ~stakes[s].active /\ stakes[s].slashed = 0 =>
    /\ stakes[s].staked = 0
    /\ stakes[s].unbonding > 0 => stakes[s].unbonding >= MIN_STAKE

IInv == TypeOK /\ Backed /\ CountIsExact /\ ActiveIsBonded /\ LeavingIsBonded

-----------------------------------------------------------------------------
(* What the operators on a stake return.                                   *)

(* A share of a total is at most the total.                                *)
LEMMA ShareBound ==
  ASSUME NEW t \in Nat, NEW p \in 0..100
  PROVE  (t * p) \div 100 \in 0..t
<1>1. t * p \in Nat /\ t * p <= 100 * t
  BY SMT
<1>2. \A n \in Nat : n <= 100 * t => n \div 100 \in 0..t
  BY SMT
<1> QED
  BY <1>1, <1>2

(* What slash takes is no more than what there is.                         *)
LEMMA SlashAmountBound ==
  ASSUME NEW k \in SolverStake, NEW amount \in Nat
  PROVE  SlashAmount(k, amount) \in 0..Total(k)
<1>1. Total(k) \in Nat
  BY DEF Total, SolverStake
<1>2. (Total(k) * SLASH_PERCENT) \div 100 \in 0..Total(k)
  BY <1>1, ShareBound, StakeAssumption
<1> QED
  BY <1>1, <1>2 DEF SlashAmount

(* A slash keeps a stake well formed and bonded.                           *)
LEMMA SlashStake ==
  ASSUME NEW k \in SolverStake, NEW n \in 0..Total(k)
  PROVE  /\ Slash(k, n) \in SolverStake
         /\ Slash(k, n).slashed = k.slashed + n
         /\ Total(Slash(k, n)) = Total(k) - n
         /\ n = 0 => /\ Slash(k, n).staked = k.staked
                     /\ Slash(k, n).unbonding = k.unbonding
         /\ Slash(k, n).active <=> k.active /\ Slash(k, n).staked >= MIN_STAKE
<1>1. /\ k.staked \in Nat /\ k.unbonding \in Nat /\ k.slashed \in Nat
      /\ k.start \in Nat /\ k.active \in BOOLEAN /\ MIN_STAKE \in Nat
  BY StakeAssumption DEF SolverStake
<1>2. n \in Nat /\ n <= k.staked + k.unbonding
  BY <1>1 DEF Total
<1>3. PICK l \in Nat : l = IF k.staked >= n THEN k.staked - n ELSE 0
  BY <1>1, <1>2
<1>4. PICK u \in Nat :
        u = IF k.staked >= n THEN k.unbonding ELSE k.unbonding - (n - k.staked)
  BY <1>1, <1>2
<1>5. PICK b \in BOOLEAN : b <=> k.active /\ l >= MIN_STAKE
  BY Zenon
<1>6. Slash(k, n) = [k EXCEPT !.staked = l, !.unbonding = u,
                              !.slashed = k.slashed + n, !.active = b]
  <2>1. b = (k.active /\ l >= MIN_STAKE)
    BY <1>1, <1>5, Zenon
  <2> QED
    BY <1>3, <1>4, <2>1, Zenon DEF Slash
<1>7. /\ Slash(k, n) \in SolverStake
      /\ Slash(k, n).slashed = k.slashed + n
      /\ Slash(k, n).staked = l /\ Slash(k, n).unbonding = u
      /\ Slash(k, n).active = b
  <2>1. PICK m \in Nat : m = k.slashed + n
    BY <1>1, <1>2
  <2>2. Slash(k, n) = [k EXCEPT !.staked = l, !.unbonding = u,
                                !.slashed = m, !.active = b]
    BY <1>6, <2>1
  <2>3. Slash(k, n) \in SolverStake
    BY <2>2, <1>3, <1>4, <1>5, <2>1 DEF SolverStake
  <2>4. /\ Slash(k, n).slashed = m
        /\ Slash(k, n).staked = l /\ Slash(k, n).unbonding = u
        /\ Slash(k, n).active = b
    BY <2>2, <1>3, <1>4, <1>5, <2>1 DEF SolverStake
  <2> QED
    BY <2>1, <2>3, <2>4
<1>8. l + u = k.staked + k.unbonding - n
  BY <1>1, <1>2, <1>3, <1>4
<1> QED
  BY <1>1, <1>2, <1>3, <1>4, <1>5, <1>7, <1>8 DEF Total

-----------------------------------------------------------------------------
(* Counting.                                                               *)

(* One solver's activity changes: the count moves by one, or stays.        *)
LEMMA CountMoves ==
  ASSUME NEW old \in SUBSET Solvers, NEW s \in Solvers
  PROVE  /\ Cardinality(old) \in Nat
         /\ s \in old => Cardinality(old \ {s}) = Cardinality(old) - 1
         /\ s \notin old => Cardinality(old \cup {s}) = Cardinality(old) + 1
<1>1. IsFiniteSet(old)
  BY FS_Subset, RegistryAssumption
<1> QED
  BY <1>1, FS_CardinalityType, FS_AddElement, FS_RemoveElement

-----------------------------------------------------------------------------
(* The sum of all stakes.                                                  *)

(* It moves with the one stake that changes.                               *)
LEMMA SumOfStakesStep ==
  ASSUME TypeOK, NEW s \in Solvers, NEW k \in SolverStake,
         stakes' = [stakes EXCEPT ![s] = k]
  PROVE  /\ SumOfStakes \in Nat
         /\ SumOfStakes' = SumOfStakes + (Total(k) - Total(stakes[s]))
<1>1. PICK f, g : /\ f = [x \in Solvers |-> Total(stakes[x])]
                  /\ g = [x \in Solvers |-> Total(stakes'[x])]
  OBVIOUS
<1>2. \A x \in Solvers : stakes[x] \in SolverStake /\ stakes'[x] \in SolverStake
  BY DEF TypeOK
<1>3. f \in [Solvers -> Nat] /\ g \in [Solvers -> Nat]
  BY <1>1, <1>2 DEF Total, SolverStake
<1>4. g[s] = Total(k) /\ f[s] = Total(stakes[s])
  BY <1>1 DEF TypeOK
<1>5. \A x \in Solvers \ {s} : g[x] = f[x]
  BY <1>1 DEF TypeOK
<1>6. SumFunction(g) = SumFunction(f) + (g[s] - f[s])
  <2>1. f \in [Solvers -> Int] /\ g \in [Solvers -> Int]
    BY <1>3
  <2> QED
    BY <1>5, <2>1, RegistryAssumption, SumChange
<1>7. SumFunction(f) \in Nat
  BY <1>3, RegistryAssumption, SumNat
<1>8. SumOfStakes = SumFunction(f) /\ SumOfStakes' = SumFunction(g)
  BY <1>1, Zenon DEF SumOfStakes
<1> QED
  BY <1>4, <1>6, <1>7, <1>8

(* A record that changes by what totalStaked gains, less what is forfeited.*)
LEMMA BackedStep ==
  ASSUME TypeOK, Backed, NEW s \in Solvers, NEW k \in SolverStake,
         stakes' = [stakes EXCEPT ![s] = k],
         balance' = totalStaked' + received, received' = received,
         totalStaked' \in Nat, forfeited' \in Nat,
         (totalStaked' - totalStaked) - (forfeited' - forfeited)
           = Total(k) - Total(stakes[s])
  PROVE  Backed'
<1>1. stakes[s] \in SolverStake /\ totalStaked \in Nat /\ forfeited \in Nat
  BY DEF TypeOK
<1>2. Total(k) \in Nat /\ Total(stakes[s]) \in Nat
  BY <1>1 DEF Total, SolverStake
<1>3. /\ SumOfStakes \in Nat
      /\ SumOfStakes' = SumOfStakes + (Total(k) - Total(stakes[s]))
  BY SumOfStakesStep
<1>4. totalStaked' = SumOfStakes' + forfeited'
  BY <1>1, <1>2, <1>3 DEF Backed
<1> QED
  BY <1>4 DEF Backed, BooksBalance

-----------------------------------------------------------------------------
(* The invariant.                                                          *)

LEMMA InitIInv == Init => IInv
<1> SUFFICES ASSUME Init PROVE IInv
  OBVIOUS
<1> USE RegistryAssumption DEF Init
<1>1. TypeOK
  <2>1. stakes \in [Solvers -> SolverStake]
    BY DEF SolverStake, NoStake
  <2>2. \A s \in Solvers : solverChains[s] \in Seq(Chains) /\ Len(solverChains[s]) = 0
    BY EmptySeq
  <2>3. solverChains \in [Solvers -> Seq(Chains)]
    BY <2>2
  <2>4. wallet \in [Accounts -> Nat]
    BY DEF Accounts
  <2>5. /\ \A s \in Solvers : Len(solverChains[s]) <= MAX_CHAINS
        /\ totalStaked \in Nat /\ totalSlashed \in Nat
        /\ activeSolverCount \in Nat /\ balance \in Nat
        /\ now \in 0..MaxTime /\ received \in Nat /\ forfeited \in Nat
    BY <2>2
  <2>6. /\ authorizedSlashers \subseteq Slashers
        /\ fillCount \in [Solvers -> Nat] /\ successCount \in [Solvers -> Nat]
    OBVIOUS
  <2> QED
    BY <2>1, <2>3, <2>4, <2>5, <2>6, Zenon DEF TypeOK
<1>2. Backed
  <2>1. PICK f : f = [s \in Solvers |-> Total(stakes[s])]
    OBVIOUS
  <2>2. f \in [Solvers -> Int] /\ \A s \in Solvers : f[s] = 0
    BY <2>1 DEF Total, NoStake
  <2>3. SumFunction(f) = 0
    BY <2>2, SumZero
  <2> QED
    BY <2>1, <2>3 DEF Backed, BooksBalance, SumOfStakes
<1>3. CountIsExact
  <2>1. Active = {}
    BY DEF Active, NoStake
  <2> QED
    BY <2>1, FS_EmptySet DEF CountIsExact
<1>4. ActiveIsBonded /\ LeavingIsBonded
  BY DEF ActiveIsBonded, LeavingIsBonded, NoStake
<1> QED
  BY <1>1, <1>2, <1>3, <1>4 DEF IInv

(* Only these variables matter to the last three conjuncts.                *)
BondInv == CountIsExact /\ ActiveIsBonded /\ LeavingIsBonded

GoodStake(k) ==
  /\ k.active => k.staked > 0 /\ (k.slashed = 0 => k.staked >= MIN_STAKE)
  /\ ~k.active /\ k.slashed = 0 =>
       /\ k.staked = 0
       /\ k.unbonding > 0 => k.unbonding >= MIN_STAKE

CountAfter(s, k) ==
  IF k.active /\ ~stakes[s].active THEN activeSolverCount + 1
  ELSE IF ~k.active /\ stakes[s].active THEN activeSolverCount - 1
  ELSE activeSolverCount

(* One solver's record changes to k: what BondInv asks of k and the count. *)
LEMMA BondStep ==
  ASSUME TypeOK, BondInv, NEW s \in Solvers, NEW k \in SolverStake,
         stakes' = [stakes EXCEPT ![s] = k],
         activeSolverCount' = CountAfter(s, k), GoodStake(k)
  PROVE  BondInv' /\ activeSolverCount' \in Nat
<1>1. ActiveIsBonded' /\ LeavingIsBonded'
  BY DEF BondInv, ActiveIsBonded, LeavingIsBonded, TypeOK, GoodStake
<1>2. Active \subseteq Solvers /\ activeSolverCount = Cardinality(Active)
  BY DEF BondInv, CountIsExact, CountAfter, Active
<1>3. stakes'[s] = k /\ \A x \in Solvers \ {s} : stakes'[x] = stakes[x]
  BY DEF TypeOK
<1>4. CASE k.active /\ ~stakes[s].active
  <2>1. Active' = Active \cup {s} /\ s \notin Active
    BY <1>3, <1>4 DEF Active
  <2> QED
    BY <1>1, <1>2, <1>4, <2>1, CountMoves DEF BondInv, CountIsExact, CountAfter
<1>5. CASE ~k.active /\ stakes[s].active
  <2>1. Active' = Active \ {s} /\ s \in Active
    BY <1>3, <1>5 DEF Active
  <2>2. activeSolverCount' = Cardinality(Active')
    BY <1>2, <1>5, <2>1, CountMoves DEF CountAfter
  <2>3. IsFiniteSet(Active')
    BY <1>2, <2>1, FS_Subset, RegistryAssumption
  <2> QED
    BY <1>1, <2>2, <2>3, FS_CardinalityType DEF BondInv, CountIsExact, CountAfter
<1>6. CASE k.active <=> stakes[s].active
  <2>1. Active' = Active
    BY <1>3, <1>6 DEF Active
  <2> QED
    BY <1>1, <1>2, <1>6, <2>1, CountMoves DEF BondInv, CountIsExact, CountAfter
<1> QED
  BY <1>4, <1>5, <1>6 DEF SolverStake, TypeOK

(* Money that changes hands keeps its type.                                *)
LEMMA PayInOK ==
  ASSUME TypeOK, NEW a \in Accounts, NEW amount \in Nat, PayIn(a, amount)
  PROVE  wallet' \in [Accounts -> Nat] /\ balance' \in Nat
BY DEF TypeOK, PayIn

LEMMA PayOutOK ==
  ASSUME TypeOK, NEW a \in Accounts, NEW amount \in Nat, PayOut(a, amount)
  PROVE  wallet' \in [Accounts -> Nat] /\ balance' \in Nat
BY DEF TypeOK, PayOut

(* A list that lost its first c is a list, and no longer than before.      *)
LEMMA RemoveOK ==
  ASSUME NEW list \in Seq(Chains), NEW c, \E i \in DOMAIN list : list[i] = c
  PROVE  Remove(list, c) \in Seq(Chains) /\ Len(Remove(list, c)) <= Len(list)
<1>1. DOMAIN list = 1..Len(list) /\ Len(list) \in Nat /\ Len(list) > 0
  BY LenProperties
<1>2. PICK i : i = Min({j \in DOMAIN list : list[j] = c})
  BY Zenon
<1>3. PICK longer \in Seq(Chains) :
        /\ longer = [list EXCEPT ![i] = list[Len(list)]]
        /\ Len(longer) = Len(list)
  <2>1. list \in [1..Len(list) -> Chains]
    BY LenProperties
  <2>2. PICK last \in Chains : last = list[Len(list)]
    BY <1>1, <2>1
  <2>3. PICK longer : longer = [list EXCEPT ![i] = last]
    BY Zenon
  <2>4. longer \in [1..Len(list) -> Chains]
    BY <2>1, <2>2, <2>3
  <2>5. longer \in Seq(Chains)
    BY <1>1, <2>4, SeqDef
  <2>6. DOMAIN longer = 1..Len(list) /\ DOMAIN longer = 1..Len(longer)
    BY <2>4, <2>5, LenProperties
  <2>7. Len(longer) = Len(list)
    BY <1>1, <2>5, <2>6, LenProperties
  <2> QED
    BY <2>2, <2>3, <2>5, <2>7
<1>4. Remove(list, c) = SubSeq(longer, 1, Len(list) - 1)
  BY <1>2, <1>3, Zenon DEF Remove
<1> QED
  BY <1>1, <1>3, <1>4, SubSeqProperties

(* The part of TypeOK that no bond action writes.                          *)
LEMMA TypeStep ==
  ASSUME TypeOK,
         stakes' \in [Solvers -> SolverStake],
         solverChains' \in [Solvers -> Seq(Chains)],
         \A s \in Solvers : Len(solverChains'[s]) <= MAX_CHAINS,
         totalStaked' \in Nat, totalSlashed' \in Nat,
         activeSolverCount' \in Nat,
         balance' \in Nat, wallet' \in [Accounts -> Nat],
         received' \in Nat, forfeited' \in Nat,
         UNCHANGED <<adminVars, now>>
  PROVE  TypeOK'
BY Zenon DEF TypeOK, adminVars

(* A list of at most MAX_CHAINS chains takes the place of another.         *)
LEMMA ChainsStep ==
  ASSUME TypeOK, NEW s \in Solvers, NEW list \in Seq(Chains),
         Len(list) <= MAX_CHAINS,
         solverChains' = [solverChains EXCEPT ![s] = list]
  PROVE  /\ solverChains' \in [Solvers -> Seq(Chains)]
         /\ \A x \in Solvers : Len(solverChains'[x]) <= MAX_CHAINS
BY DEF TypeOK

LEMMA ChainsSame ==
  ASSUME TypeOK, UNCHANGED solverChains
  PROVE  /\ solverChains' \in [Solvers -> Seq(Chains)]
         /\ \A x \in Solvers : Len(solverChains'[x]) <= MAX_CHAINS
BY DEF TypeOK

LEMMA StakesStep ==
  ASSUME TypeOK, NEW s \in Solvers, NEW k \in SolverStake,
         stakes' = [stakes EXCEPT ![s] = k]
  PROVE  stakes' \in [Solvers -> SolverStake]
BY DEF TypeOK

LEMMA RegisterIInv ==
  ASSUME IInv, NEW s \in Solvers, NEW amount \in Amounts,
         NEW chains \in ChainLists, Register(s, amount, chains)
  PROVE  IInv'
<1>1. TypeOK /\ Backed /\ BooksBalance /\ BondInv /\ stakes[s] \in SolverStake
  BY DEF IInv, BondInv, Backed, TypeOK
<1>2. amount \in Nat /\ amount >= MIN_STAKE /\ MIN_STAKE \in Nat \ {0}
  BY RegistryAssumption, StakeAssumption DEF Register
<1>3. NewStake(amount) \in SolverStake /\ GoodStake(NewStake(amount))
  BY <1>2 DEF NewStake, SolverStake, GoodStake
<1>4. stakes' = [stakes EXCEPT ![s] = NewStake(amount)]
  BY DEF Register
<1>5. activeSolverCount' = CountAfter(s, NewStake(amount))
  BY DEF Register, CountAfter, NewStake
<1>6. BondInv' /\ activeSolverCount' \in Nat
  BY <1>1, <1>3, <1>4, <1>5, BondStep
<1>7. wallet' \in [Accounts -> Nat] /\ balance' \in Nat
  BY <1>1, <1>2, PayInOK DEF Register, Accounts
<1>8. /\ solverChains' \in [Solvers -> Seq(Chains)]
      /\ \A x \in Solvers : Len(solverChains'[x]) <= MAX_CHAINS
  <2>1. PICK n \in 0..MAX_CHAINS : chains \in [1..n -> Chains]
    BY DEF ChainLists
  <2>2. chains \in Seq(Chains)
    BY <2>1, SeqDef, RegistryAssumption
  <2>3. 1..Len(chains) = 1..n /\ Len(chains) \in Nat
    BY <2>1, <2>2, LenProperties
  <2>4. Len(chains) <= MAX_CHAINS
    BY <2>1, <2>3, RegistryAssumption
  <2>5. solverChains' = [solverChains EXCEPT ![s] = chains]
    BY DEF Register
  <2> QED
    BY <1>1, <2>2, <2>4, <2>5, ChainsStep
<1>9. /\ totalStaked' \in Nat /\ totalSlashed' \in Nat
      /\ totalStaked' = totalStaked + amount
      /\ received' = received /\ received' \in Nat
      /\ balance' = totalStaked' + received
  BY <1>1, <1>2 DEF Register, PayIn, BooksBalance, TypeOK
<1>12. /\ Total(NewStake(amount)) = amount /\ Total(stakes[s]) \in Nat
       /\ forfeited' = forfeited + Total(stakes[s]) /\ forfeited' \in Nat
  <2>1. Total(NewStake(amount)) = amount /\ Total(stakes[s]) \in Nat
    BY <1>1, <1>2 DEF Total, NewStake, SolverStake
  <2> QED
    BY <1>1, <2>1 DEF Register, TypeOK
<1>11. Backed'
  <2>1. (totalStaked' - totalStaked) - (forfeited' - forfeited)
          = Total(NewStake(amount)) - Total(stakes[s])
    BY <1>1, <1>2, <1>9, <1>12 DEF TypeOK
  <2> QED
    BY <1>1, <1>3, <1>4, <1>9, <1>12, <2>1, BackedStep
<1>10. TypeOK'
  <2>1. UNCHANGED <<adminVars, now>>
    BY DEF Register
  <2> QED
    BY <1>1, <1>3, <1>4, <1>6, <1>7, <1>8, <1>9, <1>12, <2>1, StakesStep, TypeStep
<1> QED
  BY <1>6, <1>10, <1>11 DEF IInv, BondInv

(* Everything but what is said of one solver's new record k.               *)
LEMMA BondAction ==
  ASSUME IInv, NEW s \in Solvers, NEW k \in SolverStake,
         stakes' = [stakes EXCEPT ![s] = k],
         activeSolverCount' = CountAfter(s, k), GoodStake(k),
         totalStaked' \in Nat, totalSlashed' \in Nat,
         Total(k) - Total(stakes[s]) = totalStaked' - totalStaked,
         balance' = totalStaked' + received, wallet' \in [Accounts -> Nat],
         UNCHANGED <<solverChains, adminVars, now, historyVars>>
  PROVE  IInv'
<1>1. TypeOK /\ Backed /\ BondInv
  BY DEF IInv, BondInv
<1>2. BondInv' /\ activeSolverCount' \in Nat
  BY <1>1, BondStep
<1>5. /\ received' = received /\ forfeited' = forfeited
      /\ received' \in Nat /\ forfeited' \in Nat
      /\ totalStaked \in Nat /\ balance' \in Nat
  <2>1. received' = received /\ forfeited' = forfeited
    BY DEF historyVars
  <2>2. received \in Nat /\ forfeited \in Nat /\ totalStaked \in Nat
    BY <1>1 DEF TypeOK
  <2>3. balance' \in Nat
    <3>1. \A m, n \in Nat : m + n \in Nat
      OBVIOUS
    <3> QED
      BY <2>2, <3>1, Zenon
  <2> QED
    BY <2>1, <2>2, <2>3
<1>4. Backed'
  <2>1. (totalStaked' - totalStaked) - (forfeited' - forfeited)
          = totalStaked' - totalStaked
    BY <1>1, <1>5 DEF TypeOK
  <2> QED
    BY <1>1, <1>5, <2>1, BackedStep
<1>3. TypeOK'
  BY <1>1, <1>2, <1>5, StakesStep, ChainsSame, TypeStep
<1> QED
  BY <1>2, <1>3, <1>4 DEF IInv, BondInv

LEMMA AddStakeIInv ==
  ASSUME IInv, NEW s \in Solvers, NEW amount \in Amounts, AddStake(s, amount)
  PROVE  IInv'
<1>1. TypeOK /\ BooksBalance /\ ActiveIsBonded /\ stakes[s].active
  BY DEF IInv, Backed, AddStake
<1>2. amount \in Nat
  BY RegistryAssumption
<1>3. stakes[s] \in SolverStake
  BY <1>1 DEF TypeOK
<1>4. PICK n \in Nat : n = stakes[s].staked + amount
  BY <1>2, <1>3 DEF SolverStake
<1>5. PICK k \in SolverStake : k = [stakes[s] EXCEPT !.staked = n]
  BY <1>3, <1>4 DEF SolverStake
<1>6. /\ k.staked = n /\ k.unbonding = stakes[s].unbonding
      /\ k.slashed = stakes[s].slashed /\ k.active = stakes[s].active
  BY <1>3, <1>4, <1>5 DEF SolverStake
<1>7. stakes' = [stakes EXCEPT ![s] = k]
  BY <1>4, <1>5 DEF AddStake
<1>8. GoodStake(k)
  <2>1. stakes[s].staked \in Nat /\ MIN_STAKE \in Nat
    BY <1>3, StakeAssumption DEF SolverStake
  <2> QED
    BY <1>1, <1>2, <1>4, <1>6, <2>1 DEF GoodStake, ActiveIsBonded
<1>9. activeSolverCount' = CountAfter(s, k)
  BY <1>1, <1>6 DEF AddStake, CountAfter
<1>10. wallet' \in [Accounts -> Nat]
  BY <1>1, <1>2, PayInOK DEF AddStake, Accounts
<1>11. /\ totalStaked' \in Nat /\ totalSlashed' \in Nat
       /\ balance' = totalStaked' + received
  BY <1>1, <1>2 DEF AddStake, PayIn, BooksBalance, TypeOK
<1>12. UNCHANGED <<solverChains, adminVars, now, historyVars>>
  BY DEF AddStake
<1>13. Total(k) - Total(stakes[s]) = totalStaked' - totalStaked
  <2>1. /\ totalStaked' = totalStaked + amount /\ totalStaked \in Nat
        /\ stakes[s].staked \in Nat /\ stakes[s].unbonding \in Nat
    BY <1>1, <1>3 DEF AddStake, TypeOK, SolverStake
  <2> QED
    BY <1>2, <1>4, <1>6, <2>1 DEF Total
<1> QED
  BY <1>5, <1>7, <1>8, <1>9, <1>10, <1>11, <1>12, <1>13, BondAction

LEMMA StartUnbondingIInv ==
  ASSUME IInv, NEW s \in Solvers, NEW amount \in Amounts,
         StartUnbonding(s, amount)
  PROVE  IInv'
<1>1. TypeOK /\ BooksBalance /\ ActiveIsBonded /\ CanUnbond(stakes[s], amount)
  BY DEF IInv, Backed, StartUnbonding
<1>2. amount \in Nat /\ MIN_STAKE \in Nat \ {0}
  BY RegistryAssumption, StakeAssumption
<1>3. stakes[s] \in SolverStake /\ now \in Nat
  BY <1>1, RegistryAssumption DEF TypeOK
<1>4. PICK n \in Nat : n = stakes[s].staked - amount
  BY <1>1, <1>2, <1>3 DEF SolverStake, CanUnbond
<1>5. PICK b \in BOOLEAN : b = (stakes[s].staked # amount)
  BY Zenon
<1>6. PICK k \in SolverStake :
        k = [stakes[s] EXCEPT !.staked = n, !.unbonding = amount,
                              !.start = now, !.active = b]
  BY <1>2, <1>3, <1>4, <1>5 DEF SolverStake
<1>7. /\ k.staked = n /\ k.unbonding = amount
      /\ k.slashed = stakes[s].slashed /\ k.active = b
  BY <1>2, <1>3, <1>4, <1>5, <1>6 DEF SolverStake
<1>8. stakes' = [stakes EXCEPT ![s] = k]
  <2>1. Unbond(stakes[s], amount, now) = k
    BY <1>4, <1>5, <1>6, Zenon DEF Unbond
  <2> QED
    BY <2>1 DEF StartUnbonding
<1>9. stakes[s].staked \in Nat
  BY <1>3 DEF SolverStake
<1>10. GoodStake(k)
  <2>1. /\ stakes[s].active /\ amount <= stakes[s].staked
        /\ amount = stakes[s].staked \/ stakes[s].staked - amount >= MIN_STAKE
    BY <1>1 DEF CanUnbond
  <2>2. stakes[s].slashed = 0 => stakes[s].staked >= MIN_STAKE
    BY <1>1, <2>1 DEF ActiveIsBonded
  <2>3. k.active <=> stakes[s].staked # amount
    BY <1>5, <1>7, Zenon
  <2> QED
    BY <1>2, <1>4, <1>7, <1>9, <2>1, <2>2, <2>3 DEF GoodStake
<1>11. activeSolverCount' = CountAfter(s, k)
  BY <1>1, <1>5, <1>7 DEF StartUnbonding, CountAfter, CanUnbond
<1>12. /\ wallet' \in [Accounts -> Nat]
       /\ totalStaked' \in Nat /\ totalSlashed' \in Nat
       /\ balance' = totalStaked' + received
       /\ UNCHANGED <<solverChains, adminVars, now, historyVars>>
  BY <1>1 DEF StartUnbonding, moneyVars, BooksBalance, TypeOK
<1>13. Total(k) - Total(stakes[s]) = totalStaked' - totalStaked
  <2>1. totalStaked' = totalStaked /\ totalStaked \in Nat
        /\ stakes[s].unbonding = 0
    BY <1>1 DEF StartUnbonding, CanUnbond, TypeOK
  <2> QED
    BY <1>2, <1>4, <1>7, <1>9, <2>1 DEF Total
<1> QED
  BY <1>6, <1>8, <1>10, <1>11, <1>12, <1>13, BondAction

LEMMA CompleteUnbondingIInv ==
  ASSUME IInv, NEW s \in Solvers, CompleteUnbonding(s)
  PROVE  IInv'
<1>1. TypeOK /\ BooksBalance /\ ActiveIsBonded /\ LeavingIsBonded
  BY DEF IInv, Backed
<1>2. stakes[s] \in SolverStake
  BY <1>1 DEF TypeOK
<1>3. stakes[s].unbonding \in Nat
  BY <1>2 DEF SolverStake
<1>4. PICK k \in SolverStake :
        k = [stakes[s] EXCEPT !.unbonding = 0, !.start = 0]
  BY <1>2 DEF SolverStake
<1>5. /\ k.staked = stakes[s].staked /\ k.unbonding = 0
      /\ k.slashed = stakes[s].slashed /\ k.active = stakes[s].active
  BY <1>2, <1>4 DEF SolverStake
<1>6. stakes' = [stakes EXCEPT ![s] = k]
  BY <1>4 DEF CompleteUnbonding, Withdraw
<1>7. GoodStake(k)
  BY <1>1, <1>5 DEF GoodStake, ActiveIsBonded, LeavingIsBonded
<1>8. activeSolverCount' = CountAfter(s, k)
  BY <1>5 DEF CompleteUnbonding, CountAfter
<1>9. wallet' \in [Accounts -> Nat]
  BY <1>1, <1>3, PayOutOK DEF CompleteUnbonding, Accounts
<1>10. /\ totalStaked' \in Nat /\ totalSlashed' \in Nat
       /\ balance' = totalStaked' + received
  BY <1>1, <1>3 DEF CompleteUnbonding, TakeFromTotal, PayOut, BooksBalance, TypeOK
<1>11. UNCHANGED <<solverChains, adminVars, now, historyVars>>
  BY DEF CompleteUnbonding
<1>12. Total(k) - Total(stakes[s]) = totalStaked' - totalStaked
  <2>1. totalStaked' = totalStaked - stakes[s].unbonding /\ totalStaked \in Nat
        /\ stakes[s].staked \in Nat
    BY <1>1, <1>2 DEF CompleteUnbonding, TakeFromTotal, TypeOK, SolverStake
  <2> QED
    BY <1>3, <1>5, <2>1 DEF Total
<1> QED
  BY <1>4, <1>6, <1>7, <1>8, <1>9, <1>10, <1>11, <1>12, BondAction

LEMMA CancelUnbondingIInv ==
  ASSUME IInv, NEW s \in Solvers, CancelUnbonding(s)
  PROVE  IInv'
<1>1. /\ TypeOK /\ BooksBalance /\ ActiveIsBonded /\ LeavingIsBonded
      /\ stakes[s].unbonding > 0
  BY DEF IInv, Backed, CancelUnbonding
<1>2. stakes[s] \in SolverStake
  BY <1>1 DEF TypeOK
<1>3. stakes[s].unbonding \in Nat /\ stakes[s].staked \in Nat /\ MIN_STAKE \in Nat
  BY <1>2, StakeAssumption DEF SolverStake
<1>4. PICK n \in Nat : n = stakes[s].staked + stakes[s].unbonding
  BY <1>3
<1>5. PICK k \in SolverStake :
        k = [stakes[s] EXCEPT !.staked = n, !.unbonding = 0, !.start = 0,
                              !.active = TRUE]
  BY <1>2, <1>4 DEF SolverStake
<1>6. /\ k.staked = n /\ k.unbonding = 0
      /\ k.slashed = stakes[s].slashed /\ k.active = TRUE
  BY <1>2, <1>4, <1>5 DEF SolverStake
<1>7. stakes' = [stakes EXCEPT ![s] = k]
  BY <1>4, <1>5 DEF CancelUnbonding, Restake
<1>8. GoodStake(k)
  <2>1. stakes[s].slashed = 0 =>
          stakes[s].staked >= MIN_STAKE \/ stakes[s].unbonding >= MIN_STAKE
    BY <1>1 DEF ActiveIsBonded, LeavingIsBonded
  <2> QED
    BY <1>1, <1>3, <1>4, <1>6, <2>1 DEF GoodStake
<1>9. activeSolverCount' = CountAfter(s, k)
  BY <1>6 DEF CancelUnbonding, CountAfter
<1>10. /\ wallet' \in [Accounts -> Nat]
       /\ totalStaked' \in Nat /\ totalSlashed' \in Nat
       /\ balance' = totalStaked' + received
       /\ UNCHANGED <<solverChains, adminVars, now, historyVars>>
  BY <1>1 DEF CancelUnbonding, moneyVars, BooksBalance, TypeOK
<1>11. Total(k) - Total(stakes[s]) = totalStaked' - totalStaked
  BY <1>1, <1>3, <1>4, <1>6 DEF Total, CancelUnbonding, TypeOK
<1> QED
  BY <1>5, <1>7, <1>8, <1>9, <1>10, <1>11, BondAction

LEMMA SlashSolverIInv ==
  ASSUME IInv, NEW slasher \in Slashers, NEW s \in Solvers,
         NEW amount \in Amounts, NEW victim \in Victims,
         SlashSolver(slasher, s, amount, victim)
  PROVE  IInv'
<1>1. /\ TypeOK /\ BooksBalance /\ ActiveIsBonded /\ LeavingIsBonded
      /\ Bonded(stakes[s])
  BY DEF IInv, Backed, SlashSolver
<1>2. stakes[s] \in SolverStake /\ amount \in Nat
  BY <1>1, RegistryAssumption DEF TypeOK
<1>3. PICK n \in 0..Total(stakes[s]) : n = SlashAmount(stakes[s], amount)
  BY <1>2, SlashAmountBound
<1>4. n \in Nat
  BY <1>2, <1>3 DEF Total, SolverStake
<1>5. PICK k \in SolverStake :
        /\ k = Slash(stakes[s], n)
        /\ k.slashed = stakes[s].slashed + n
        /\ Total(k) = Total(stakes[s]) - n
        /\ n = 0 => k.staked = stakes[s].staked /\ k.unbonding = stakes[s].unbonding
        /\ k.active <=> stakes[s].active /\ k.staked >= MIN_STAKE
  BY <1>2, <1>3, SlashStake
<1>6. stakes' = [stakes EXCEPT ![s] = k]
  BY <1>3, <1>5, Zenon DEF SlashSolver
<1>7. /\ stakes[s].slashed \in Nat /\ stakes[s].staked \in Nat
      /\ k.staked \in Nat /\ MIN_STAKE \in Nat \ {0}
      /\ k.active \in BOOLEAN /\ stakes[s].active \in BOOLEAN
  BY <1>2, <1>5, StakeAssumption DEF SolverStake
<1>8. GoodStake(k)
  <2>1. CASE k.active
    BY <1>5, <1>7, <2>1 DEF GoodStake
  <2>2. CASE ~k.active /\ k.slashed = 0
    <3>1. n = 0 /\ stakes[s].slashed = 0
      BY <1>4, <1>5, <1>7, <2>2
    <3>2. ~stakes[s].active
      BY <1>1, <1>5, <1>7, <2>2, <3>1 DEF ActiveIsBonded
    <3> QED
      BY <1>1, <1>5, <2>2, <3>1, <3>2 DEF GoodStake, LeavingIsBonded
  <2> QED
    BY <2>1, <2>2 DEF GoodStake
<1>9. activeSolverCount' = CountAfter(s, k)
  <2>1. activeSolverCount' =
          IF stakes[s].active /\ ~k.active THEN activeSolverCount - 1
                                           ELSE activeSolverCount
    BY <1>3, <1>5, Zenon DEF SlashSolver
  <2> QED
    BY <1>5, <1>7, <2>1 DEF CountAfter
<1>10. /\ TakeFromTotal(n) /\ PayOut(victim, n)
       /\ totalSlashed' = totalSlashed + n
  BY <1>3, Zenon DEF SlashSolver
<1>11. wallet' \in [Accounts -> Nat]
  BY <1>1, <1>4, <1>10, PayOutOK DEF Accounts
<1>12. /\ totalStaked' \in Nat /\ totalSlashed' \in Nat
       /\ balance' = totalStaked' + received
  BY <1>1, <1>4, <1>10 DEF TakeFromTotal, PayOut, BooksBalance, TypeOK
<1>13. UNCHANGED <<solverChains, adminVars, now, historyVars>>
  BY DEF SlashSolver
<1>14. Total(k) - Total(stakes[s]) = totalStaked' - totalStaked
  <2>1. Total(stakes[s]) \in Nat /\ totalStaked \in Nat
    BY <1>1, <1>2 DEF Total, SolverStake, TypeOK
  <2> QED
    BY <1>4, <1>5, <1>10, <2>1 DEF TakeFromTotal
<1> QED
  BY <1>5, <1>6, <1>8, <1>9, <1>11, <1>12, <1>13, <1>14, BondAction

(* Stray ETH enters the books as such.                                     *)
LEMMA ReceiveIInv ==
  ASSUME IInv, NEW a \in Accounts, NEW amount \in Amounts, Receive(a, amount)
  PROVE  IInv'
<1>1. TypeOK /\ Backed /\ amount \in Nat /\ PayIn(a, amount)
  BY RegistryAssumption DEF IInv, Receive
<1>2. wallet' \in [Accounts -> Nat] /\ balance' \in Nat
  BY <1>1, PayInOK
<1>3. /\ received' = received + amount /\ balance' = balance + amount
      /\ received \in Nat /\ totalStaked \in Nat /\ received' \in Nat
  BY <1>1 DEF Receive, PayIn, TypeOK
<1>4. UNCHANGED <<bondVars, solverChains, adminVars, now, forfeited>>
  BY DEF Receive
<1>5. TypeOK'
  BY <1>1, <1>2, <1>3, <1>4, Zenon DEF TypeOK, bondVars, adminVars
<1>6. SumOfStakes' = SumOfStakes
  BY <1>4, Zenon DEF SumOfStakes, bondVars
<1>7. Backed'
  <2>1. balance' = totalStaked' + received' /\ totalStaked' = SumOfStakes' + forfeited'
    BY <1>1, <1>3, <1>4, <1>6 DEF Backed, BooksBalance, bondVars
  <2> QED
    BY <2>1 DEF Backed, BooksBalance
<1>8. CountIsExact' /\ ActiveIsBonded' /\ LeavingIsBonded'
  BY <1>4, Zenon DEF IInv, CountIsExact, Active, ActiveIsBonded, LeavingIsBonded,
     bondVars
<1> QED
  BY <1>5, <1>7, <1>8 DEF IInv

(* Steps that touch no bond and no money.                                  *)
LEMMA QuietStep ==
  ASSUME IInv, TypeOK', UNCHANGED <<bondVars, moneyVars, historyVars>>
  PROVE  IInv'
BY Zenon DEF IInv, bondVars, moneyVars, historyVars, Backed, BooksBalance, SumOfStakes,
             CountIsExact, Active, ActiveIsBonded, LeavingIsBonded

LEMMA QuietType ==
  ASSUME TypeOK, UNCHANGED <<bondVars, moneyVars, historyVars>>,
         solverChains' \in [Solvers -> Seq(Chains)],
         \A s \in Solvers : Len(solverChains'[s]) <= MAX_CHAINS,
         authorizedSlashers' \subseteq Slashers,
         fillCount' \in [Solvers -> Nat], successCount' \in [Solvers -> Nat],
         paused' \in BOOLEAN, now' \in 0..MaxTime
  PROVE  TypeOK'
BY Zenon DEF TypeOK, bondVars, moneyVars, historyVars

LEMMA ChainsIInv ==
  ASSUME IInv, NEW s \in Solvers, NEW c \in Chains,
         AddChain(s, c) \/ RemoveChain(s, c)
  PROVE  IInv'
<1>1. TypeOK /\ solverChains[s] \in Seq(Chains) /\ Len(solverChains[s]) \in Nat
      /\ Len(solverChains[s]) <= MAX_CHAINS /\ MAX_CHAINS \in Nat
  BY LenProperties, RegistryAssumption DEF IInv, TypeOK
<1>2. PICK list \in Seq(Chains) :
        /\ Len(list) <= MAX_CHAINS
        /\ solverChains' = [solverChains EXCEPT ![s] = list]
  <2>1. CASE AddChain(s, c)
    <3>1. PICK list \in Seq(Chains) : list = Append(solverChains[s], c)
      BY <1>1, AppendProperties
    <3>2. Len(list) = Len(solverChains[s]) + 1 /\ Len(list) \in Nat
      BY <1>1, <3>1, AppendProperties, LenProperties
    <3>3. solverChains' = [solverChains EXCEPT ![s] = list]
      BY <2>1, <3>1, Zenon DEF AddChain
    <3>4. Len(list) <= MAX_CHAINS
      BY <1>1, <2>1, <3>2 DEF AddChain
    <3> QED
      BY <3>3, <3>4
  <2>2. CASE RemoveChain(s, c)
    <3>1. \E i \in DOMAIN solverChains[s] : solverChains[s][i] = c
      BY <2>2 DEF RemoveChain, Lists
    <3>2. PICK list \in Seq(Chains) :
            /\ list = Remove(solverChains[s], c)
            /\ Len(list) <= Len(solverChains[s])
      BY <1>1, <3>1, RemoveOK
    <3>3. solverChains' = [solverChains EXCEPT ![s] = list]
      BY <2>2, <3>2, Zenon DEF RemoveChain
    <3>4. Len(list) <= MAX_CHAINS
      BY <1>1, <3>2, LenProperties
    <3> QED
      BY <3>2, <3>3, <3>4
  <2> QED
    BY <2>1, <2>2
<1>3. UNCHANGED <<bondVars, moneyVars, adminVars, now, historyVars>>
  BY DEF AddChain, RemoveChain
<1>4. /\ solverChains' \in [Solvers -> Seq(Chains)]
      /\ \A x \in Solvers : Len(solverChains'[x]) <= MAX_CHAINS
  BY <1>1, <1>2, ChainsStep
<1>5. TypeOK'
  BY <1>1, <1>3, <1>4, Zenon DEF TypeOK, bondVars, moneyVars, adminVars, historyVars
<1> QED
  BY <1>3, <1>5, QuietStep

LEMMA AdminIInv ==
  ASSUME IInv,
         \/ \E caller \in Slashers \cup {Owner}, s \in Solvers, b \in BOOLEAN :
              RecordFill(caller, s, b)
         \/ \E slasher \in Slashers, b \in BOOLEAN : SetSlasher(slasher, b)
         \/ SetPaused
         \/ Tick
  PROVE  IInv'
<1>1. TypeOK /\ MaxTime \in Nat /\ UNCHANGED <<bondVars, moneyVars, solverChains, historyVars>>
  BY RegistryAssumption DEF IInv, RecordFill, SetSlasher, SetPaused, Tick
<1>2. /\ solverChains' \in [Solvers -> Seq(Chains)]
      /\ \A x \in Solvers : Len(solverChains'[x]) <= MAX_CHAINS
  BY <1>1, ChainsSame
<1>3. authorizedSlashers' \subseteq Slashers
  BY <1>1 DEF RecordFill, SetSlasher, SetPaused, Tick, TypeOK, adminVars
<1>4. fillCount' \in [Solvers -> Nat] /\ successCount' \in [Solvers -> Nat]
  <2>1. ASSUME NEW caller, NEW s \in Solvers, NEW b, RecordFill(caller, s, b)
        PROVE  fillCount' \in [Solvers -> Nat] /\ successCount' \in [Solvers -> Nat]
    <3>1. \A n \in Nat : n + 1 \in Nat
      OBVIOUS
    <3> QED
      BY <1>1, <2>1, <3>1 DEF RecordFill, TypeOK
  <2>2. CASE UNCHANGED <<fillCount, successCount>>
    BY <1>1, <2>2 DEF TypeOK
  <2> QED
    BY <2>1, <2>2 DEF SetSlasher, SetPaused, Tick, adminVars
<1>5. paused' \in BOOLEAN
  BY <1>1, Zenon DEF RecordFill, SetSlasher, SetPaused, Tick, TypeOK, adminVars
<1>6. now' \in 0..MaxTime
  BY <1>1 DEF RecordFill, SetSlasher, SetPaused, Tick, TypeOK
<1> QED
  BY <1>1, <1>2, <1>3, <1>4, <1>5, <1>6, QuietType, QuietStep

-----------------------------------------------------------------------------
(* Every step keeps the invariant.                                         *)

LEMMA NextIInv == IInv /\ [Next]_vars => IInv'
<1> SUFFICES ASSUME IInv, [Next]_vars PROVE IInv'
  OBVIOUS
<1>1. CASE \E s \in Solvers, amount \in Amounts :
             \/ \E chains \in ChainLists : Register(s, amount, chains)
             \/ AddStake(s, amount) \/ StartUnbonding(s, amount)
             \/ \E slasher \in Slashers, victim \in Victims :
                  SlashSolver(slasher, s, amount, victim)
  BY <1>1, RegisterIInv, AddStakeIInv, StartUnbondingIInv, SlashSolverIInv
<1>2. CASE \E s \in Solvers : CompleteUnbonding(s) \/ CancelUnbonding(s)
  BY <1>2, CompleteUnbondingIInv, CancelUnbondingIInv
<1>6. CASE \E a \in Accounts, amount \in Amounts : Receive(a, amount)
  BY <1>6, ReceiveIInv
<1>3. CASE \E s \in Solvers, c \in Chains : AddChain(s, c) \/ RemoveChain(s, c)
  BY <1>3, ChainsIInv
<1>4. CASE \/ \E caller \in Slashers \cup {Owner}, s \in Solvers, b \in BOOLEAN :
                RecordFill(caller, s, b)
           \/ \E slasher \in Slashers, b \in BOOLEAN : SetSlasher(slasher, b)
           \/ SetPaused
           \/ Tick
  BY <1>4, AdminIInv, Zenon
<1>5. CASE UNCHANGED vars
  <2>1. UNCHANGED <<bondVars, moneyVars, solverChains, adminVars, now, historyVars>>
    BY <1>5 DEF vars
  <2>2. TypeOK'
    BY <2>1, Zenon DEF IInv, TypeOK, bondVars, moneyVars, adminVars, historyVars
  <2> QED
    BY <2>1, <2>2, QuietStep
<1> QED
  BY <1>1, <1>2, <1>3, <1>4, <1>5, <1>6, Zenon DEF Next

-----------------------------------------------------------------------------
(* The theorems.                                                           *)

(* The registry's state keeps its types: no Solidity counter goes below    *)
(* zero, and no solver lists more than MAX_CHAINS chains.                  *)
THEOREM TypeCorrect == Spec => []TypeOK
<1>1. IInv => TypeOK
  BY DEF IInv
<1> QED
  BY InitIInv, NextIInv, <1>1, PTL DEF Spec

(* The registry holds exactly what totalStaked counts and what receive()   *)
(* took in, and totalStaked is the stakes on record and what registering   *)
(* anew has overwritten.                                                   *)
THEOREM BackedHolds == Spec => []Backed
<1>1. IInv => Backed
  BY DEF IInv
<1> QED
  BY InitIInv, NextIInv, <1>1, PTL DEF Spec

(* register, startUnbonding, cancelUnbonding and slash keep                *)
(* activeSolverCount the number of active solvers.                         *)
THEOREM CountIsExactHolds == Spec => []CountIsExact
<1>1. IInv => CountIsExact
  BY DEF IInv
<1> QED
  BY InitIInv, NextIInv, <1>1, PTL DEF Spec

(* What brings an active solver below the minimum: one step at a time,     *)
(* from the invariant of the state before.                                 *)
GoesBelow(s) ==
  BelowMinimum(s)' =>
    \/ CancelsTooLittle(s) /\ stakes'[s] = Restake(stakes[s])
    \/ BelowMinimum(s) /\ stakes'[s].slashed = stakes[s].slashed

LEMMA BelowStep ==
  ASSUME IInv, [Next]_vars, NEW s \in Solvers
  PROVE  GoesBelow(s)
<1>1. /\ TypeOK /\ ActiveIsBonded /\ LeavingIsBonded
      /\ stakes[s] \in SolverStake /\ stakes \in [Solvers -> SolverStake]
      /\ MIN_STAKE \in Nat \ {0} /\ Amounts \subseteq Nat
  BY RegistryAssumption, StakeAssumption DEF IInv, TypeOK
<1>2. CASE stakes'[s] = stakes[s]
  BY <1>2 DEF GoesBelow, BelowMinimum
<1>3. ASSUME NEW amount \in Amounts, NEW chains, Register(s, amount, chains)
      PROVE  GoesBelow(s)
  BY <1>1, <1>3 DEF Register, NewStake, GoesBelow, BelowMinimum
<1>4. ASSUME NEW amount \in Amounts, AddStake(s, amount)
      PROVE  GoesBelow(s)
  BY <1>1, <1>4 DEF AddStake, GoesBelow, BelowMinimum, SolverStake
<1>5. ASSUME NEW amount \in Amounts, StartUnbonding(s, amount)
      PROVE  GoesBelow(s)
  <2>1. /\ stakes[s].active /\ amount <= stakes[s].staked
        /\ amount = stakes[s].staked \/ stakes[s].staked - amount >= MIN_STAKE
        /\ stakes' = [stakes EXCEPT ![s] = Unbond(stakes[s], amount, now)]
    BY <1>5 DEF StartUnbonding, CanUnbond
  <2>2. /\ stakes'[s].staked = stakes[s].staked - amount
        /\ stakes'[s].active => stakes[s].staked # amount
    BY <1>1, <2>1 DEF Unbond, SolverStake
  <2>3. stakes[s].staked \in Nat /\ amount \in Nat
    BY <1>1 DEF SolverStake
  <2>4. stakes'[s].active => stakes'[s].staked >= MIN_STAKE
    BY <2>1, <2>2
  <2>5. ~BelowMinimum(s)'
    BY <1>1, <2>2, <2>3, <2>4 DEF BelowMinimum
  <2> QED
    BY <2>5 DEF GoesBelow
<1>6. CASE CompleteUnbonding(s)
  BY <1>1, <1>6 DEF CompleteUnbonding, Withdraw, GoesBelow, BelowMinimum, SolverStake
<1>7. CASE CancelUnbonding(s)
  <2>1. /\ stakes[s].unbonding > 0 /\ stakes'[s] = Restake(stakes[s])
        /\ stakes'[s].staked = stakes[s].staked + stakes[s].unbonding
    BY <1>1, <1>7 DEF CancelUnbonding, Restake, SolverStake
  <2>2. /\ stakes[s].staked \in Nat /\ stakes[s].unbonding \in Nat
        /\ stakes[s].slashed \in Nat
    BY <1>1 DEF SolverStake
  <2>3. stakes[s].slashed = 0 => Total(stakes[s]) >= MIN_STAKE
    BY <1>1, <2>1, <2>2 DEF ActiveIsBonded, LeavingIsBonded, Total
  <2> QED
    BY <1>1, <2>1, <2>2, <2>3 DEF GoesBelow, BelowMinimum, CancelsTooLittle, Total
<1>8. ASSUME NEW slasher \in Slashers, NEW amount \in Amounts, NEW victim \in Victims,
             SlashSolver(slasher, s, amount, victim)
      PROVE  GoesBelow(s)
  <2>1. PICK n \in 0..Total(stakes[s]) : n = SlashAmount(stakes[s], amount)
    BY <1>1, SlashAmountBound
  <2>2. stakes'[s] = Slash(stakes[s], n)
    BY <1>1, <1>8, <2>1, Zenon DEF SlashSolver
  <2>3. Slash(stakes[s], n).active <=> stakes[s].active /\ Slash(stakes[s], n).staked >= MIN_STAKE
    BY <1>1, SlashStake
  <2>4. Slash(stakes[s], n).staked \in Nat
    BY <1>1, SlashStake DEF SolverStake
  <2> QED
    BY <1>1, <2>2, <2>3, <2>4 DEF GoesBelow, BelowMinimum
<1>9. CASE \E x \in Solvers \ {s} :
        \/ CompleteUnbonding(x) \/ CancelUnbonding(x)
        \/ \E amount \in Amounts :
             \/ \E chains \in ChainLists : Register(x, amount, chains)
             \/ AddStake(x, amount) \/ StartUnbonding(x, amount)
             \/ \E slasher \in Slashers, victim \in Victims :
                  SlashSolver(slasher, x, amount, victim)
  <2>1. \E x \in Solvers \ {s} : \E k : stakes' = [stakes EXCEPT ![x] = k]
    BY <1>9, Zenon DEF CompleteUnbonding, CancelUnbonding, Register, AddStake,
       StartUnbonding, SlashSolver
  <2> QED
    BY <1>1, <1>2, <2>1
<1>10. CASE UNCHANGED stakes
  BY <1>2, <1>10
<1>11. CASE \/ \E a \in Accounts, amount \in Amounts : Receive(a, amount)
            \/ \E x \in Solvers, c \in Chains : AddChain(x, c) \/ RemoveChain(x, c)
            \/ \E caller \in Slashers \cup {Owner}, x \in Solvers, b \in BOOLEAN :
                 RecordFill(caller, x, b)
            \/ \E slasher \in Slashers, b \in BOOLEAN : SetSlasher(slasher, b)
            \/ SetPaused \/ Tick \/ UNCHANGED vars
  <2>1. UNCHANGED stakes
    BY <1>11, Zenon DEF Receive, AddChain, RemoveChain, RecordFill, SetSlasher,
       SetPaused, Tick, vars, bondVars
  <2> QED
    BY <1>10, <2>1
<1> QED
  BY <1>3, <1>4, <1>5, <1>6, <1>7, <1>8, <1>9, <1>11, Zenon DEF Next

(* An active solver falls below the minimum only by cancelling an          *)
(* unbonding after a slash: no other step leaves one there that was not,   *)
(* and a slash leaves none.                                                *)
THEOREM OnlyCancelGoesBelowHolds == Spec => OnlyCancelGoesBelow
<1>1. IInv /\ [Next]_vars => [\A s \in Solvers : GoesBelow(s)]_vars
  BY BelowStep
<1>2. [\A s \in Solvers : GoesBelow(s)]_vars <=>
        [\A s \in Solvers : BelowMinimum(s)' =>
           \/ CancelsTooLittle(s) /\ stakes'[s] = Restake(stakes[s])
           \/ BelowMinimum(s) /\ stakes'[s].slashed = stakes[s].slashed]_vars
  BY DEF GoesBelow
<1> QED
  BY InitIInv, NextIInv, <1>1, <1>2, PTL DEF Spec, OnlyCancelGoesBelow
=============================================================================
