------------------------ MODULE L1StakeManager_proofs -----------------------
(***************************************************************************)
(* Proofs about L1StakeManager, for any XLPs, arbitrators, chains,         *)
(* vouchers, amounts and periods.                                          *)
(*                                                                         *)
(* IInv joins the type invariant with BooksExplained and with what both    *)
(* need to be inductive: a record no slash has written is empty.  Without  *)
(* it a first slash could overwrite an amount that was given back, and a   *)
(* verdict could be overwritten by a slash.                                *)
(***************************************************************************)
EXTENDS L1StakeManager, Sums, SequenceTheorems, TLAPS

EmptyUntilSlashed ==
  \A id \in SlashIds : ~slashRecords[id].executed =>
    slashRecords[id].amount = 0 /\ slashRecords[id].status = "None"

IInv == TypeOK /\ BooksExplained /\ EmptyUntilSlashed

-----------------------------------------------------------------------------
(* What the operators on a stake return.                                   *)

(* A share of a total is at most the total.                                *)
LEMMA ShareBound ==
  ASSUME NEW t \in Nat, NEW p \in 0..100
  PROVE  (t * p) \div 100 \in 0..t
<1>1. t * p \in Nat /\ t * p <= 100 * t
  BY SMT
<1>2. \A n \in Nat : n <= 100 * t => n \div 100 \in 0..t
  BY SMT
<1> QED
  BY <1>1, <1>2

(* What slash takes is no more than what there is.                         *)
LEMMA SlashAmountBound ==
  ASSUME NEW k \in XLPStake, NEW amount \in Nat
  PROVE  SlashAmount(k, amount) \in 0..Total(k)
<1>1. Total(k) \in Nat
  BY DEF Total, XLPStake
<1>2. (Total(k) * SLASH_PERCENT) \div 100 \in 0..Total(k)
  BY <1>1, ShareBound, StakeAssumption
<1> QED
  BY <1>1, <1>2 DEF SlashAmount

(* A slash takes its amount from the stake, and starts no unbonding.       *)
LEMMA SlashStake ==
  ASSUME NEW k \in XLPStake, NEW n \in 0..Total(k)
  PROVE  /\ Slash(k, n) \in XLPStake
         /\ Slash(k, n).slashed = k.slashed + n
         /\ Total(Slash(k, n)) = Total(k) - n
         /\ Slash(k, n).start = k.start /\ Slash(k, n).locked = k.locked
         /\ Slash(k, n).unbonding <= k.unbonding
         /\ Slash(k, n).active => k.active
<1>1. /\ k.staked \in Nat /\ k.unbonding \in Nat /\ k.slashed \in Nat
      /\ k.active \in BOOLEAN /\ MIN_STAKE \in Nat
  BY StakeAssumption DEF XLPStake
<1>2. n \in Nat /\ n <= k.staked + k.unbonding
  BY <1>1 DEF Total
<1>3. PICK l \in Nat : l = IF k.staked >= n THEN k.staked - n ELSE 0
  BY <1>1, <1>2
<1>4. PICK u \in Nat :
        u = IF k.staked >= n THEN k.unbonding ELSE k.unbonding - (n - k.staked)
  BY <1>1, <1>2
<1>5. PICK b \in BOOLEAN : b = (k.active /\ l >= MIN_STAKE)
  BY Zenon
<1>6. PICK m \in Nat : m = k.slashed + n
  BY <1>1, <1>2
<1>7. Slash(k, n) = [k EXCEPT !.staked = l, !.unbonding = u,
                              !.slashed = m, !.active = b]
  BY <1>3, <1>4, <1>5, <1>6, Zenon DEF Slash
<1>8. Slash(k, n) \in XLPStake
  BY <1>3, <1>4, <1>5, <1>6, <1>7 DEF XLPStake
<1>9. /\ Slash(k, n).staked = l /\ Slash(k, n).unbonding = u
      /\ Slash(k, n).slashed = m /\ Slash(k, n).active = b
      /\ Slash(k, n).start = k.start /\ Slash(k, n).locked = k.locked
  BY <1>3, <1>4, <1>5, <1>6, <1>7 DEF XLPStake
<1>10. l + u = k.staked + k.unbonding - n /\ u <= k.unbonding
  BY <1>1, <1>2, <1>3, <1>4
<1> QED
  BY <1>1, <1>2, <1>5, <1>6, <1>8, <1>9, <1>10 DEF Total

-----------------------------------------------------------------------------
(* The longest unbonding period.                                           *)

(* A finite set of integers that has an element has a largest one.         *)
LEMMA MaxOf ==
  ASSUME NEW S \in SUBSET Int, IsFiniteSet(S), S # {}
  PROVE  Max(S) \in S /\ \A y \in S : Max(S) >= y
<1>1. PICK good : good = {T \in SUBSET S : T # {} => \E m \in T : \A y \in T : m >= y}
  OBVIOUS
<1>2. {} \in good
  BY <1>1
<1>3. ASSUME NEW T \in SUBSET S, T # {}, \A x \in T : T \ {x} \in good
      PROVE  T \in good
  <2>1. PICK x \in T : T \ {x} \in good
    BY <1>3
  <2>2. CASE T \ {x} = {}
    <3>1. x \in Int /\ \A y \in T : y = x
      BY <2>2
    <3> QED
      BY <1>1, <3>1
  <2>3. CASE T \ {x} # {}
    <3>1. PICK m \in T : \A y \in T \ {x} : m >= y
      BY <1>1, <2>1, <2>3
    <3>2. x \in Int /\ m \in Int /\ \A y \in T : y \in Int
      OBVIOUS
    <3>3. PICK n \in T : n >= m /\ n >= x
      BY <3>1, <3>2
    <3>4. \A y \in T : n >= y
      BY <3>1, <3>2, <3>3
    <3> QED
      BY <1>1, <3>3, <3>4
  <2> QED
    BY <2>2, <2>3
<1>4. \A T \in SUBSET S : T \in good
  BY <1>2, <1>3, SubsetInduction, Zenon
<1>5. \E m \in S : \A y \in S : m >= y
  BY <1>1, <1>4
<1> QED
  BY <1>5 DEF Max

(* The period an XLP waits: no less than that of any chain it serves.      *)
LEMMA PeriodOK ==
  ASSUME TypeOK, NEW x \in Xlps
  PROVE  /\ XLPUnbondingPeriod(x) \in Nat
         /\ \A c \in Chains : Lists(xlpChains[x], c) =>
              XLPUnbondingPeriod(x) >= Max({chainPeriods[c], DEFAULT_UNBONDING_PERIOD})
<1>1. /\ chainPeriods \in [Chains -> Nat] /\ xlpChains[x] \in Seq(Chains)
      /\ DEFAULT_UNBONDING_PERIOD \in Nat
  BY L1Assumption DEF TypeOK
<1>2. Range(xlpChains[x]) \subseteq Chains
  BY <1>1, ElementOfSeq, LenProperties DEF Range
<1>3. PICK I : I = {chainPeriods[c] : c \in Chains}
  OBVIOUS
<1>4. IsFiniteSet(I)
  <2>1. chainPeriods \in Surjection(Chains, I)
    BY <1>1, <1>3 DEF Surjection
  <2> QED
    BY <2>1, FS_Surjection, L1Assumption
<1>5. PICK S : S = {DEFAULT_UNBONDING_PERIOD} \cup {chainPeriods[c] : c \in Range(xlpChains[x])}
  OBVIOUS
<1>6. IsFiniteSet(S) /\ S \in SUBSET Nat /\ S # {}
  <2>1. S \subseteq I \cup {DEFAULT_UNBONDING_PERIOD}
    BY <1>2, <1>3, <1>5
  <2>2. IsFiniteSet(I \cup {DEFAULT_UNBONDING_PERIOD})
    BY <1>4, FS_AddElement
  <2>3. IsFiniteSet(S)
    BY <2>1, <2>2, FS_Subset
  <2> QED
    BY <1>1, <1>2, <1>5, <2>3
<1>7. Max(S) \in S /\ \A y \in S : Max(S) >= y
  <2>1. S \in SUBSET Int
    BY <1>6
  <2> QED
    BY <1>6, <2>1, MaxOf
<1>8. XLPUnbondingPeriod(x) = Max(S)
  BY <1>5, Zenon DEF XLPUnbondingPeriod
<1>9. ASSUME NEW c \in Chains, Lists(xlpChains[x], c)
      PROVE  XLPUnbondingPeriod(x) >= Max({chainPeriods[c], DEFAULT_UNBONDING_PERIOD})
  <2>1. c \in Range(xlpChains[x])
    BY <1>9 DEF Lists, Range
  <2>2. chainPeriods[c] \in S /\ DEFAULT_UNBONDING_PERIOD \in S
    BY <1>5, <2>1
  <2>3. PICK P : P = {chainPeriods[c], DEFAULT_UNBONDING_PERIOD}
    OBVIOUS
  <2>4. P \in SUBSET Int /\ P # {} /\ P \subseteq S
    BY <1>1, <2>2, <2>3
  <2>5. IsFiniteSet(P)
    BY <1>6, <2>4, FS_Subset
  <2>6. Max(P) \in P
    BY <2>4, <2>5, MaxOf
  <2> QED
    BY <1>7, <1>8, <2>3, <2>4, <2>6
<1> QED
  BY <1>6, <1>7, <1>8, <1>9

-----------------------------------------------------------------------------
(* What a record adds to the sums.                                         *)

LEMMA FiniteIds == IsFiniteSet(SlashIds)
<1>1. IsFiniteSet(Xlps \X Chains) /\ IsFiniteSet(Vouchers)
  BY FS_Product, L1Assumption
<1>2. PICK P : P = (Xlps \X Chains) \X Vouchers
  OBVIOUS
<1>3. IsFiniteSet(P)
  BY <1>1, <1>2, FS_Product
<1>4. PICK f : f = [p \in P |-> <<p[1][1], p[1][2], p[2]>>]
  OBVIOUS
<1>5. f \in Surjection(P, SlashIds)
  <2>1. f \in [P -> SlashIds]
    BY <1>2, <1>4 DEF SlashIds
  <2>2. ASSUME NEW id \in SlashIds PROVE \E p \in P : f[p] = id
    <3>1. PICK x \in Xlps, c \in Chains, n \in Vouchers : id = <<x, c, n>>
      BY DEF SlashIds
    <3>2. <<<<x, c>>, n>> \in P
      BY <1>2
    <3>3. f[<<<<x, c>>, n>>] = id
      BY <1>4, <3>1, <3>2
    <3> QED
      BY <3>2, <3>3
  <2> QED
    BY <2>1, <2>2 DEF Surjection
<1> QED
  BY <1>3, <1>5, FS_Surjection

LEMMA IdType == ASSUME NEW id \in SlashIds PROVE id[1] \in Xlps
BY DEF SlashIds

(* The sums are natural, and a slash that is kept is part of its sum.      *)
LEMMA SlashSums ==
  ASSUME TypeOK
  PROVE  /\ AllGivenBack \in Nat
         /\ \A x \in Xlps : Kept(x) \in Nat
         /\ \A x \in Xlps, id \in SlashIds : KeptFrom(x, id) <= Kept(x)
<1>1. \A id \in SlashIds : slashRecords[id].amount \in Nat
  BY DEF TypeOK, SlashRecord
<1>2. AllGivenBack \in Nat
  <2>1. PICK f : f = [id \in SlashIds |-> GivenBack(id)]
    OBVIOUS
  <2>2. f \in [SlashIds -> Nat]
    BY <1>1, <2>1 DEF GivenBack
  <2>3. SumFunction(f) \in Nat
    BY <2>2, FiniteIds, SumNat
  <2> QED
    BY <2>1, <2>3 DEF AllGivenBack
<1>3. ASSUME NEW x \in Xlps
      PROVE  Kept(x) \in Nat /\ \A id \in SlashIds : KeptFrom(x, id) <= Kept(x)
  <2>1. PICK f : f = [id \in SlashIds |-> KeptFrom(x, id)]
    OBVIOUS
  <2>2. f \in [SlashIds -> Nat]
    BY <1>1, <2>1 DEF KeptFrom
  <2>3. SumFunction(f) \in Nat /\ \A id \in SlashIds : f[id] <= SumFunction(f)
    BY <2>2, FiniteIds, SumNat
  <2> QED
    BY <2>1, <2>3 DEF Kept
<1> QED
  BY <1>2, <1>3

(* One record changes, and the sums by what it adds to them.               *)
LEMMA RecordStep ==
  ASSUME TypeOK, NEW id \in SlashIds, NEW r \in SlashRecord,
         slashRecords' = [slashRecords EXCEPT ![id] = r]
  PROVE  /\ slashRecords' \in [SlashIds -> SlashRecord]
         /\ AllGivenBack' = AllGivenBack + (GivenBack(id)' - GivenBack(id))
         /\ \A x \in Xlps :
              Kept(x)' = Kept(x) + (KeptFrom(x, id)' - KeptFrom(x, id))
<1>1. slashRecords' \in [SlashIds -> SlashRecord]
  BY DEF TypeOK
<1>2. \A j \in SlashIds : /\ slashRecords[j].amount \in Nat
                          /\ slashRecords'[j].amount \in Nat
  BY <1>1 DEF TypeOK, SlashRecord
<1>3. \A j \in SlashIds \ {id} : slashRecords'[j] = slashRecords[j]
  BY DEF TypeOK
<1>4. AllGivenBack' = AllGivenBack + (GivenBack(id)' - GivenBack(id))
  <2>1. PICK f, g : /\ f = [j \in SlashIds |-> GivenBack(j)]
                    /\ g = [j \in SlashIds |-> GivenBack(j)']
    OBVIOUS
  <2>2. f \in [SlashIds -> Int] /\ g \in [SlashIds -> Int]
    BY <1>2, <2>1 DEF GivenBack
  <2>3. \A j \in SlashIds \ {id} : g[j] = f[j]
    BY <1>3, <2>1 DEF GivenBack
  <2>4. SumFunction(g) = SumFunction(f) + (g[id] - f[id])
    BY <2>2, <2>3, FiniteIds, SumChange
  <2> QED
    BY <2>1, <2>4 DEF AllGivenBack
<1>5. ASSUME NEW x \in Xlps
      PROVE  Kept(x)' = Kept(x) + (KeptFrom(x, id)' - KeptFrom(x, id))
  <2>1. PICK f, g : /\ f = [j \in SlashIds |-> KeptFrom(x, j)]
                    /\ g = [j \in SlashIds |-> KeptFrom(x, j)']
    OBVIOUS
  <2>2. f \in [SlashIds -> Int] /\ g \in [SlashIds -> Int]
    BY <1>2, <2>1 DEF KeptFrom
  <2>3. \A j \in SlashIds \ {id} : g[j] = f[j]
    BY <1>3, <2>1 DEF KeptFrom
  <2>4. SumFunction(g) = SumFunction(f) + (g[id] - f[id])
    BY <2>2, <2>3, FiniteIds, SumChange
  <2> QED
    BY <2>1, <2>4 DEF Kept
<1> QED
  BY <1>1, <1>4, <1>5

(* Records that stay as they are add what they added.                      *)
LEMMA RecordsSame ==
  ASSUME UNCHANGED slashRecords
  PROVE  AllGivenBack' = AllGivenBack /\ \A x : Kept(x)' = Kept(x)
BY DEF AllGivenBack, Kept, GivenBack, KeptFrom

-----------------------------------------------------------------------------
(* What a stake adds to the sums and to the count.                         *)

CountAfter(x, k) ==
  IF k.active /\ ~stakes[x].active THEN activeXLPCount + 1
  ELSE IF ~k.active /\ stakes[x].active THEN activeXLPCount - 1
  ELSE activeXLPCount

(* One XLP's activity changes: the count moves by one, or stays.           *)
LEMMA CountMoves ==
  ASSUME NEW old \in SUBSET Xlps, NEW x \in Xlps
  PROVE  /\ Cardinality(old) \in Nat
         /\ x \in old => Cardinality(old \ {x}) = Cardinality(old) - 1
         /\ x \notin old => Cardinality(old \cup {x}) = Cardinality(old) + 1
<1>1. IsFiniteSet(old)
  BY FS_Subset, L1Assumption
<1> QED
  BY <1>1, FS_CardinalityType, FS_AddElement, FS_RemoveElement

LEMMA CountStep ==
  ASSUME TypeOK, CountIsExact, NEW x \in Xlps, NEW k \in XLPStake,
         stakes' = [stakes EXCEPT ![x] = k], activeXLPCount' = CountAfter(x, k)
  PROVE  CountIsExact' /\ activeXLPCount' \in Nat
<1>1. Active \subseteq Xlps /\ activeXLPCount = Cardinality(Active)
  BY DEF CountIsExact, Active
<1>2. stakes'[x] = k /\ \A y \in Xlps \ {x} : stakes'[y] = stakes[y]
  BY DEF TypeOK
<1>3. CASE k.active /\ ~stakes[x].active
  <2>1. Active' = Active \cup {x} /\ x \notin Active
    BY <1>2, <1>3 DEF Active
  <2> QED
    BY <1>1, <1>3, <2>1, CountMoves DEF CountIsExact, CountAfter
<1>4. CASE ~k.active /\ stakes[x].active
  <2>1. Active' = Active \ {x} /\ x \in Active
    BY <1>2, <1>4 DEF Active
  <2>2. activeXLPCount' = Cardinality(Active')
    BY <1>1, <1>4, <2>1, CountMoves DEF CountAfter
  <2>3. IsFiniteSet(Active')
    BY <1>1, <2>1, FS_Subset, L1Assumption
  <2> QED
    BY <2>2, <2>3, FS_CardinalityType DEF CountIsExact
<1>5. CASE k.active <=> stakes[x].active
  <2>1. Active' = Active
    BY <1>2, <1>5 DEF Active
  <2> QED
    BY <1>1, <1>5, <2>1, CountMoves DEF CountIsExact, CountAfter
<1> QED
  BY <1>3, <1>4, <1>5 DEF XLPStake, TypeOK

LEMMA SumOfStakesStep ==
  ASSUME TypeOK, NEW x \in Xlps, NEW k \in XLPStake,
         stakes' = [stakes EXCEPT ![x] = k]
  PROVE  /\ SumOfStakes \in Nat
         /\ SumOfStakes' = SumOfStakes + (Total(k) - Total(stakes[x]))
<1>1. PICK f, g : /\ f = [y \in Xlps |-> Total(stakes[y])]
                  /\ g = [y \in Xlps |-> Total(stakes'[y])]
  OBVIOUS
<1>2. \A y \in Xlps : stakes[y] \in XLPStake /\ stakes'[y] \in XLPStake
  BY DEF TypeOK
<1>3. f \in [Xlps -> Nat] /\ g \in [Xlps -> Nat]
  BY <1>1, <1>2 DEF Total, XLPStake
<1>4. g[x] = Total(k) /\ f[x] = Total(stakes[x])
  BY <1>1 DEF TypeOK
<1>5. \A y \in Xlps \ {x} : g[y] = f[y]
  BY <1>1 DEF TypeOK
<1>6. SumFunction(g) = SumFunction(f) + (g[x] - f[x])
  <2>1. f \in [Xlps -> Int] /\ g \in [Xlps -> Int]
    BY <1>3
  <2> QED
    BY <1>5, <2>1, L1Assumption, SumChange
<1>7. SumFunction(f) \in Nat
  BY <1>3, L1Assumption, SumNat
<1>8. SumOfStakes = SumFunction(f) /\ SumOfStakes' = SumFunction(g)
  BY <1>1, Zenon DEF SumOfStakes
<1> QED
  BY <1>4, <1>6, <1>7, <1>8

(* The stakes of the arbitrators, and the one that is paid in.             *)
LEMMA ArbitratorSum ==
  ASSUME TypeOK
  PROVE  ArbitratorStakes \in Nat
BY SumNat, L1Assumption DEF TypeOK, ArbitratorStakes

LEMMA ArbitratorStep ==
  ASSUME TypeOK, NEW a \in Arbitrators, NEW amount \in Nat,
         arbitrators' = [arbitrators EXCEPT ![a] = amount]
  PROVE  /\ arbitrators' \in [Arbitrators -> Nat]
         /\ ArbitratorStakes' = ArbitratorStakes + (amount - arbitrators[a])
<1>1. PICK f, g : f = arbitrators /\ g = arbitrators'
  OBVIOUS
<1>2. f \in [Arbitrators -> Int] /\ g \in [Arbitrators -> Int]
  BY <1>1 DEF TypeOK
<1>3. g[a] = amount /\ \A b \in Arbitrators \ {a} : g[b] = f[b]
  BY <1>1 DEF TypeOK
<1>4. SumFunction(g) = SumFunction(f) + (g[a] - f[a])
  BY <1>2, <1>3, L1Assumption, SumChange
<1> QED
  BY <1>1, <1>3, <1>4 DEF TypeOK, ArbitratorStakes

-----------------------------------------------------------------------------
(* The invariant: the start, and what every action has to show.            *)

LEMMA InitIInv == Init => IInv
<1> SUFFICES ASSUME Init PROVE IInv
  OBVIOUS
<1>1. /\ stakes \in [Xlps -> XLPStake]
      /\ slashRecords \in [SlashIds -> SlashRecord]
      /\ \A id \in SlashIds : /\ slashRecords[id].amount = 0
                              /\ slashRecords[id].status = "None"
      /\ \A x \in Xlps : /\ stakes[x].staked = 0 /\ stakes[x].unbonding = 0
                         /\ stakes[x].slashed = 0 /\ ~stakes[x].active
  BY DEF Init, XLPStake, NewStake, SlashRecord, NewRecord, DisputeStatus
<1>2. TypeOK
  <2>1. \A x \in Xlps : xlpChains[x] \in Seq(Chains) /\ Len(xlpChains[x]) = 0
    BY EmptySeq DEF Init
  <2>2. xlpChains \in [Xlps -> Seq(Chains)]
    BY <2>1 DEF Init
  <2>3. \A x \in Xlps : Len(xlpChains[x]) <= MAX_CHAINS
    BY <2>1, L1Assumption
  <2>4. wallet \in [Accounts -> Nat]
    <3>1. \A a \in Accounts \ Victims : InitialFunds[a] \in Nat
      BY L1Assumption DEF Accounts
    <3> QED
      BY <3>1 DEF Init
  <2>5. /\ disputeVotes \in [SlashIds -> SUBSET Arbitrators]
        /\ votesForXLP \in [SlashIds -> Nat]
        /\ votesAgainstXLP \in [SlashIds -> Nat]
        /\ arbitrators \in [Arbitrators -> Nat]
        /\ chainPeriods \in [Chains -> Nat]
    BY DEF Init
  <2>6. /\ totalStaked \in Nat /\ totalSlashed \in Nat /\ activeXLPCount \in Nat
        /\ extraCalls \in 0..MaxExtraCalls /\ now \in 0..MaxTime
        /\ balance \in Nat /\ received \in Nat
    BY L1Assumption DEF Init
  <2>7. /\ l2Paymasters \subseteq Chains /\ authorizedSlashers \subseteq Slashers
        /\ paused \in BOOLEAN
    BY L1Assumption DEF Init
  <2> QED
    BY <1>1, <2>2, <2>3, <2>4, <2>5, <2>6, <2>7, Zenon DEF TypeOK
<1>3. CountIsExact
  <2>1. Active = {}
    BY <1>1 DEF Active
  <2> QED
    BY <2>1, FS_EmptySet DEF CountIsExact, Init
<1>4. SumOfStakes = 0
  <2>1. PICK f : f = [x \in Xlps |-> Total(stakes[x])]
    OBVIOUS
  <2>2. f \in [Xlps -> Int] /\ \A x \in Xlps : f[x] = 0
    BY <1>1, <2>1 DEF Total
  <2>3. SumFunction(f) = 0
    BY <2>2, SumZero, L1Assumption
  <2> QED
    BY <2>1, <2>3 DEF SumOfStakes
<1>5. ArbitratorStakes = 0
  <2>1. PICK f : f = arbitrators
    OBVIOUS
  <2>2. f \in [Arbitrators -> Int] /\ \A a \in Arbitrators : f[a] = 0
    BY <2>1 DEF Init
  <2>3. SumFunction(f) = 0
    BY <2>2, SumZero, L1Assumption
  <2> QED
    BY <2>1, <2>3 DEF ArbitratorStakes
<1>6. AllGivenBack = 0
  <2>1. PICK f : f = [id \in SlashIds |-> GivenBack(id)]
    OBVIOUS
  <2>2. f \in [SlashIds -> Int] /\ \A id \in SlashIds : f[id] = 0
    BY <1>1, <2>1 DEF GivenBack
  <2>3. SumFunction(f) = 0
    BY <2>2, FiniteIds, SumZero
  <2> QED
    BY <2>1, <2>3 DEF AllGivenBack
<1>7. \A x \in Xlps : stakes[x].slashed <= Kept(x)
  BY <1>1, <1>2, SlashSums
<1>8. BooksExplained
  <2>1. balance = 0 /\ totalStaked = 0 /\ received = 0
    BY DEF Init
  <2>2. balance + AllGivenBack = totalStaked + ArbitratorStakes + received
    BY <1>5, <1>6, <2>1
  <2>3. SumOfStakes <= totalStaked
    BY <1>4, <2>1
  <2> QED
    BY <1>3, <1>7, <2>2, <2>3, Zenon DEF BooksExplained
<1>9. EmptyUntilSlashed
  BY <1>1 DEF EmptyUntilSlashed
<1> QED
  BY <1>2, <1>8, <1>9 DEF IInv

(* One stake changes to k: what BooksExplained asks of k and the totals.   *)
LEMMA BooksStep ==
  ASSUME TypeOK, BooksExplained, NEW x \in Xlps, NEW k \in XLPStake,
         stakes' = [stakes EXCEPT ![x] = k], activeXLPCount' = CountAfter(x, k),
         totalStaked' \in Nat,
         Total(k) - Total(stakes[x]) <= totalStaked' - totalStaked,
         balance' + AllGivenBack' = totalStaked' + ArbitratorStakes' + received',
         k.slashed <= Kept(x)', \A y \in Xlps \ {x} : Kept(y)' = Kept(y)
  PROVE  BooksExplained' /\ activeXLPCount' \in Nat
<1>1. CountIsExact' /\ activeXLPCount' \in Nat
  BY CountStep DEF BooksExplained
<1>2. SumOfStakes' <= totalStaked'
  <2>1. stakes[x] \in XLPStake /\ totalStaked \in Nat /\ SumOfStakes <= totalStaked
    BY DEF TypeOK, BooksExplained
  <2>2. Total(k) \in Nat /\ Total(stakes[x]) \in Nat
    BY <2>1 DEF Total, XLPStake
  <2>3. /\ SumOfStakes \in Nat
        /\ SumOfStakes' = SumOfStakes + (Total(k) - Total(stakes[x]))
    BY SumOfStakesStep
  <2> QED
    BY <2>1, <2>2, <2>3
<1>3. \A y \in Xlps : stakes'[y].slashed <= Kept(y)'
  BY DEF TypeOK, BooksExplained
<1> QED
  BY <1>1, <1>2, <1>3 DEF BooksExplained

(* The part of TypeOK that no action on a stake or a record writes.        *)
LEMMA TypeStep ==
  ASSUME TypeOK,
         stakes' \in [Xlps -> XLPStake],
         xlpChains' \in [Xlps -> Seq(Chains)],
         \A x \in Xlps : Len(xlpChains'[x]) <= MAX_CHAINS,
         totalStaked' \in Nat, totalSlashed' \in Nat, activeXLPCount' \in Nat,
         slashRecords' \in [SlashIds -> SlashRecord],
         balance' \in Nat, wallet' \in [Accounts -> Nat],
         UNCHANGED <<voteVars, arbitrators, ownerVars, now, received>>
  PROVE  TypeOK'
BY Zenon DEF TypeOK, voteVars, ownerVars

LEMMA StakesStep ==
  ASSUME TypeOK, NEW x \in Xlps, NEW k \in XLPStake,
         stakes' = [stakes EXCEPT ![x] = k]
  PROVE  stakes' \in [Xlps -> XLPStake]
BY DEF TypeOK

(* Money that changes hands keeps its type.                                *)
LEMMA PayInOK ==
  ASSUME TypeOK, NEW a \in Accounts, NEW amount \in Nat, PayIn(a, amount)
  PROVE  wallet' \in [Accounts -> Nat] /\ balance' \in Nat
BY DEF TypeOK, PayIn

LEMMA PayOutOK ==
  ASSUME TypeOK, NEW a \in Accounts, NEW amount \in Nat, PayOut(a, amount)
  PROVE  wallet' \in [Accounts -> Nat] /\ balance' \in Nat
BY DEF TypeOK, PayOut

(* ETH that totalStaked follows keeps the books.                           *)
LEMMA BooksFollow ==
  ASSUME TypeOK, BooksExplained, balance' \in Nat, totalStaked' \in Nat,
         balance' - balance = totalStaked' - totalStaked,
         UNCHANGED <<slashRecords, arbitrators, received>>
  PROVE  balance' + AllGivenBack' = totalStaked' + ArbitratorStakes' + received'
<1>1. AllGivenBack' = AllGivenBack /\ ArbitratorStakes' = ArbitratorStakes
  BY RecordsSame DEF ArbitratorStakes
<1>2. /\ AllGivenBack \in Nat /\ ArbitratorStakes \in Nat
      /\ balance \in Nat /\ totalStaked \in Nat /\ received \in Nat
      /\ balance + AllGivenBack = totalStaked + ArbitratorStakes + received
  BY SlashSums, ArbitratorSum DEF TypeOK, BooksExplained
<1> QED
  BY <1>1, <1>2

(* An action on one stake that leaves records and arbitrators alone: what  *)
(* it moves in is what totalStaked grows by, and it slashes nothing.       *)
LEMMA BondAction ==
  ASSUME IInv, NEW x \in Xlps, NEW k \in XLPStake,
         stakes' = [stakes EXCEPT ![x] = k], activeXLPCount' = CountAfter(x, k),
         xlpChains' \in [Xlps -> Seq(Chains)],
         \A y \in Xlps : Len(xlpChains'[y]) <= MAX_CHAINS,
         totalStaked' \in Nat, totalSlashed' \in Nat,
         Total(k) - Total(stakes[x]) <= totalStaked' - totalStaked,
         balance' \in Nat, balance' - balance = totalStaked' - totalStaked,
         k.slashed <= stakes[x].slashed,
         wallet' \in [Accounts -> Nat],
         UNCHANGED <<disputeVars, arbitrators, ownerVars, now, received>>
  PROVE  IInv'
<1>1. TypeOK /\ BooksExplained /\ EmptyUntilSlashed
  BY DEF IInv
<1>2. UNCHANGED slashRecords /\ UNCHANGED voteVars
  BY DEF disputeVars
<1>3. AllGivenBack' = AllGivenBack /\ \A y \in Xlps : Kept(y)' = Kept(y)
  BY <1>2, RecordsSame
<1>5. balance' + AllGivenBack' = totalStaked' + ArbitratorStakes' + received'
  BY <1>1, <1>2, BooksFollow
<1>6. k.slashed <= Kept(x)'
  <2>1. k.slashed \in Nat /\ stakes[x].slashed \in Nat /\ Kept(x) \in Nat
    BY <1>1, SlashSums DEF TypeOK, XLPStake
  <2> QED
    BY <1>1, <1>3, <2>1 DEF BooksExplained
<1>7. BooksExplained' /\ activeXLPCount' \in Nat
  BY <1>1, <1>3, <1>5, <1>6, BooksStep
<1>8. TypeOK'
  <2>1. slashRecords' \in [SlashIds -> SlashRecord]
    BY <1>1, <1>2 DEF TypeOK
  <2> QED
    BY <1>1, <1>2, <1>7, <2>1, StakesStep, TypeStep
<1>9. EmptyUntilSlashed'
  BY <1>1, <1>2 DEF EmptyUntilSlashed
<1> QED
  BY <1>7, <1>8, <1>9 DEF IInv

-----------------------------------------------------------------------------
(* Stakes: one lemma per action.                                           *)

(* A list of at most MAX_CHAINS chains takes the place of another.         *)
LEMMA ChainsStep ==
  ASSUME TypeOK, NEW x \in Xlps, NEW list \in Seq(Chains),
         Len(list) <= MAX_CHAINS,
         xlpChains' = [xlpChains EXCEPT ![x] = list]
  PROVE  /\ xlpChains' \in [Xlps -> Seq(Chains)]
         /\ \A y \in Xlps : Len(xlpChains'[y]) <= MAX_CHAINS
BY DEF TypeOK

LEMMA ChainsSame ==
  ASSUME TypeOK, UNCHANGED xlpChains
  PROVE  /\ xlpChains' \in [Xlps -> Seq(Chains)]
         /\ \A y \in Xlps : Len(xlpChains'[y]) <= MAX_CHAINS
BY DEF TypeOK

LEMMA RegisterIInv ==
  ASSUME IInv, NEW x \in Xlps, NEW amount \in Amounts,
         NEW chains \in ChainLists, Register(x, amount, chains)
  PROVE  IInv'
<1>1. TypeOK /\ stakes[x] \in XLPStake /\ amount \in Nat
  BY L1Assumption DEF IInv, TypeOK
<1>2. PICK k \in XLPStake : k = NewStake(amount, TRUE)
  BY <1>1 DEF NewStake, XLPStake
<1>3. /\ k.active /\ ~stakes[x].active /\ k.slashed = 0
      /\ k.staked = amount /\ k.unbonding = 0
  BY <1>2 DEF NewStake, Register
<1>4. stakes' = [stakes EXCEPT ![x] = k] /\ activeXLPCount' = CountAfter(x, k)
  BY <1>2, <1>3 DEF Register, CountAfter
<1>5. /\ xlpChains' \in [Xlps -> Seq(Chains)]
      /\ \A y \in Xlps : Len(xlpChains'[y]) <= MAX_CHAINS
  <2>1. PICK n \in 0..MAX_CHAINS : chains \in [1..n -> Chains]
    BY DEF ChainLists
  <2>2. chains \in Seq(Chains)
    BY <2>1, SeqDef, L1Assumption
  <2>3. 1..Len(chains) = 1..n /\ Len(chains) \in Nat
    BY <2>1, <2>2, LenProperties
  <2>4. Len(chains) <= MAX_CHAINS
    BY <2>1, <2>3, L1Assumption
  <2>5. xlpChains' = [xlpChains EXCEPT ![x] = chains]
    BY DEF Register
  <2> QED
    BY <1>1, <2>2, <2>4, <2>5, ChainsStep
<1>6. wallet' \in [Accounts -> Nat] /\ balance' \in Nat
  BY <1>1, PayInOK DEF Register, Accounts
<1>7. /\ totalStaked \in Nat /\ totalStaked' = totalStaked + amount
      /\ totalStaked' \in Nat /\ totalSlashed' \in Nat
  BY <1>1 DEF Register, TypeOK
<1>8. balance' - balance = totalStaked' - totalStaked
  BY <1>1, <1>7 DEF Register, PayIn, TypeOK
<1>9. /\ stakes[x].slashed \in Nat /\ Total(k) = amount /\ Total(stakes[x]) \in Nat
  BY <1>1, <1>3 DEF Total, XLPStake
<1>10. Total(k) - Total(stakes[x]) <= totalStaked' - totalStaked
  BY <1>1, <1>7, <1>9
<1>11. k.slashed <= stakes[x].slashed
  BY <1>3, <1>9
<1>12. UNCHANGED <<disputeVars, arbitrators, ownerVars, now, received>>
  BY DEF Register
<1> QED
  BY <1>4, <1>5, <1>6, <1>7, <1>8, <1>10, <1>11, <1>12, BondAction

LEMMA AddStakeIInv ==
  ASSUME IInv, NEW x \in Xlps, NEW amount \in Amounts, AddStake(x, amount)
  PROVE  IInv'
<1>1. TypeOK /\ stakes[x] \in XLPStake /\ amount \in Nat
  BY L1Assumption DEF IInv, TypeOK
<1>2. /\ stakes[x].staked \in Nat /\ stakes[x].unbonding \in Nat
      /\ stakes[x].slashed \in Nat
  BY <1>1 DEF XLPStake
<1>3. PICK n \in Nat : n = stakes[x].staked + amount
  BY <1>1, <1>2
<1>4. PICK k \in XLPStake : k = [stakes[x] EXCEPT !.staked = n]
  BY <1>1, <1>3 DEF XLPStake
<1>5. /\ k.staked = n /\ k.unbonding = stakes[x].unbonding
      /\ k.slashed = stakes[x].slashed /\ k.active = stakes[x].active
  BY <1>1, <1>3, <1>4 DEF XLPStake
<1>6. stakes' = [stakes EXCEPT ![x] = k] /\ activeXLPCount' = CountAfter(x, k)
  BY <1>3, <1>4, <1>5 DEF AddStake, CountAfter
<1>7. wallet' \in [Accounts -> Nat] /\ balance' \in Nat
  BY <1>1, PayInOK DEF AddStake, Accounts
<1>8. /\ totalStaked \in Nat /\ totalStaked' = totalStaked + amount
      /\ totalStaked' \in Nat /\ totalSlashed' \in Nat
  BY <1>1 DEF AddStake, TypeOK
<1>9. balance' - balance = totalStaked' - totalStaked
  BY <1>1, <1>8 DEF AddStake, PayIn, TypeOK
<1>10. Total(k) - Total(stakes[x]) <= totalStaked' - totalStaked
  BY <1>1, <1>2, <1>3, <1>5, <1>8 DEF Total
<1>11. k.slashed <= stakes[x].slashed
  BY <1>2, <1>5
<1>12. UNCHANGED <<xlpChains, disputeVars, arbitrators, ownerVars, now, received>>
  BY DEF AddStake
<1> QED
  BY <1>1, <1>6, <1>7, <1>8, <1>9, <1>10, <1>11, <1>12, ChainsSame, BondAction

LEMMA StartUnbondingIInv ==
  ASSUME IInv, NEW x \in Xlps, NEW amount \in Amounts, StartUnbonding(x, amount)
  PROVE  IInv'
<1>1. /\ TypeOK /\ stakes[x] \in XLPStake /\ amount \in Nat /\ now \in Nat
      /\ CanUnbond(stakes[x], amount)
  <2>1. TypeOK /\ stakes[x] \in XLPStake /\ now \in 0..MaxTime
    BY DEF IInv, TypeOK
  <2>2. amount \in Nat /\ MaxTime \in Nat
    BY L1Assumption
  <2> QED
    BY <2>1, <2>2 DEF StartUnbonding
<1>2. /\ stakes[x].staked \in Nat /\ stakes[x].unbonding = 0
      /\ stakes[x].slashed \in Nat
      /\ amount <= stakes[x].staked /\ stakes[x].active
  BY <1>1 DEF XLPStake, CanUnbond
<1>3. PICK n \in Nat : n = stakes[x].staked - amount
  BY <1>1, <1>2
<1>4. PICK b \in BOOLEAN : b = (stakes[x].staked # amount)
  BY Zenon
<1>5. PICK p \in Nat : p = XLPUnbondingPeriod(x)
  BY <1>1, PeriodOK
<1>6. PICK k \in XLPStake :
        k = [stakes[x] EXCEPT !.staked = n, !.unbonding = amount,
                              !.start = now, !.active = b, !.locked = p]
  BY <1>1, <1>3, <1>4, <1>5 DEF XLPStake
<1>7. /\ k.staked = n /\ k.unbonding = amount
      /\ k.slashed = stakes[x].slashed /\ k.active = b
  BY <1>1, <1>3, <1>4, <1>5, <1>6 DEF XLPStake
<1>8. stakes' = [stakes EXCEPT ![x] = k]
  <2>1. [Unbond(stakes[x], amount, now) EXCEPT !.locked = XLPUnbondingPeriod(x)] = k
    BY <1>3, <1>4, <1>5, <1>6, Zenon DEF Unbond
  <2> QED
    BY <2>1 DEF StartUnbonding
<1>9. activeXLPCount' = CountAfter(x, k)
  BY <1>2, <1>4, <1>7 DEF StartUnbonding, CountAfter
<1>10. /\ UNCHANGED <<totalStaked, totalSlashed, balance, wallet>>
       /\ UNCHANGED <<xlpChains, disputeVars, arbitrators, ownerVars, now, received>>
  BY DEF StartUnbonding, moneyVars
<1>11. /\ totalStaked' \in Nat /\ totalSlashed' \in Nat /\ balance' \in Nat
       /\ wallet' \in [Accounts -> Nat]
       /\ balance' - balance = totalStaked' - totalStaked
  BY <1>1, <1>10 DEF TypeOK
<1>12. Total(k) - Total(stakes[x]) <= totalStaked' - totalStaked
  BY <1>1, <1>2, <1>3, <1>7, <1>10, <1>11 DEF Total
<1>13. k.slashed <= stakes[x].slashed
  BY <1>2, <1>7
<1> QED
  BY <1>1, <1>8, <1>9, <1>10, <1>11, <1>12, <1>13, ChainsSame, BondAction

LEMMA CompleteUnbondingIInv ==
  ASSUME IInv, NEW x \in Xlps, CompleteUnbonding(x)
  PROVE  IInv'
<1>1. TypeOK /\ stakes[x] \in XLPStake
  BY DEF IInv, TypeOK
<1>2. PICK n \in Nat : n = stakes[x].unbonding
  BY <1>1 DEF XLPStake
<1>3. PICK k \in XLPStake :
        k = [stakes[x] EXCEPT !.unbonding = 0, !.start = 0, !.locked = 0]
  BY <1>1 DEF XLPStake
<1>4. /\ k.staked = stakes[x].staked /\ k.unbonding = 0
      /\ k.slashed = stakes[x].slashed /\ k.active = stakes[x].active
      /\ stakes[x].staked \in Nat /\ stakes[x].slashed \in Nat
  BY <1>1, <1>3 DEF XLPStake
<1>5. stakes' = [stakes EXCEPT ![x] = k]
  <2>1. [Withdraw(stakes[x]) EXCEPT !.locked = 0] = k
    BY <1>3, Zenon DEF Withdraw
  <2> QED
    BY <2>1 DEF CompleteUnbonding
<1>6. activeXLPCount' = CountAfter(x, k)
  BY <1>4 DEF CompleteUnbonding, CountAfter
<1>7. TakeFromTotal(n) /\ PayOut(x, n) /\ totalSlashed' = totalSlashed
  BY <1>2 DEF CompleteUnbonding
<1>8. wallet' \in [Accounts -> Nat] /\ balance' \in Nat
  BY <1>1, <1>7, PayOutOK DEF Accounts
<1>9. /\ totalStaked' = totalStaked - n /\ totalStaked \in Nat
      /\ balance' = balance - n /\ balance \in Nat
      /\ totalStaked' \in Nat /\ totalSlashed' \in Nat
  BY <1>1, <1>7 DEF TakeFromTotal, PayOut, TypeOK
<1>10. balance' - balance = totalStaked' - totalStaked
  BY <1>9
<1>11. Total(k) - Total(stakes[x]) <= totalStaked' - totalStaked
  BY <1>2, <1>4, <1>9 DEF Total
<1>12. k.slashed <= stakes[x].slashed
  BY <1>4
<1>13. UNCHANGED <<xlpChains, disputeVars, arbitrators, ownerVars, now, received>>
  BY DEF CompleteUnbonding
<1> QED
  BY <1>1, <1>5, <1>6, <1>8, <1>9, <1>10, <1>11, <1>12, <1>13, ChainsSame, BondAction

LEMMA CancelUnbondingIInv ==
  ASSUME IInv, NEW x \in Xlps, CancelUnbonding(x)
  PROVE  IInv'
<1>1. TypeOK /\ stakes[x] \in XLPStake
  BY DEF IInv, TypeOK
<1>2. /\ stakes[x].staked \in Nat /\ stakes[x].unbonding \in Nat
      /\ stakes[x].slashed \in Nat
  BY <1>1 DEF XLPStake
<1>3. PICK n \in Nat : n = stakes[x].staked + stakes[x].unbonding
  BY <1>2
<1>4. PICK k \in XLPStake :
        k = [stakes[x] EXCEPT !.staked = n, !.unbonding = 0, !.start = 0,
                              !.active = TRUE, !.locked = 0]
  BY <1>1, <1>3 DEF XLPStake
<1>5. /\ k.staked = n /\ k.unbonding = 0 /\ k.slashed = stakes[x].slashed
      /\ k.active = TRUE
  BY <1>1, <1>3, <1>4 DEF XLPStake
<1>6. stakes' = [stakes EXCEPT ![x] = k]
  <2>1. [Restake(stakes[x]) EXCEPT !.locked = 0] = k
    BY <1>3, <1>4, Zenon DEF Restake
  <2> QED
    BY <2>1 DEF CancelUnbonding
<1>7. activeXLPCount' = CountAfter(x, k)
  BY <1>5 DEF CancelUnbonding, CountAfter
<1>8. /\ UNCHANGED <<totalStaked, totalSlashed, balance, wallet>>
      /\ UNCHANGED <<xlpChains, disputeVars, arbitrators, ownerVars, now, received>>
  BY DEF CancelUnbonding, moneyVars
<1>9. /\ totalStaked' \in Nat /\ totalSlashed' \in Nat /\ balance' \in Nat
      /\ wallet' \in [Accounts -> Nat]
      /\ balance' - balance = totalStaked' - totalStaked
  BY <1>1, <1>8 DEF TypeOK
<1>10. Total(k) - Total(stakes[x]) <= totalStaked' - totalStaked
  BY <1>2, <1>3, <1>5, <1>8, <1>9 DEF Total
<1>11. k.slashed <= stakes[x].slashed
  BY <1>2, <1>5
<1> QED
  BY <1>1, <1>6, <1>7, <1>8, <1>9, <1>10, <1>11, ChainsSame, BondAction

-----------------------------------------------------------------------------
(* Slashes and disputes: one lemma per action.                             *)

(* What IInv asks of an action on the stake and the record of a slash.     *)
LEMMA SlashAction ==
  ASSUME IInv, NEW id \in SlashIds, NEW x \in Xlps, x = id[1],
         NEW k \in XLPStake, NEW r \in SlashRecord,
         stakes' = [stakes EXCEPT ![x] = k], activeXLPCount' = CountAfter(x, k),
         slashRecords' = [slashRecords EXCEPT ![id] = r],
         r.executed, totalStaked' \in Nat, totalSlashed' \in Nat,
         Total(k) - Total(stakes[x]) <= totalStaked' - totalStaked,
         balance' + AllGivenBack' = totalStaked' + ArbitratorStakes' + received',
         k.slashed <= Kept(x)',
         balance' \in Nat, wallet' \in [Accounts -> Nat],
         UNCHANGED <<xlpChains, voteVars, arbitrators, ownerVars, now, received>>
  PROVE  IInv'
<1>1. TypeOK /\ BooksExplained /\ EmptyUntilSlashed
  BY DEF IInv
<1>2. \A y \in Xlps \ {x} : Kept(y)' = Kept(y)
  <2>1. \A y \in Xlps : /\ Kept(y)' = Kept(y) + (KeptFrom(y, id)' - KeptFrom(y, id))
                        /\ Kept(y) \in Nat
    BY <1>1, RecordStep, SlashSums
  <2>2. \A y \in Xlps \ {x} : KeptFrom(y, id)' = 0 /\ KeptFrom(y, id) = 0
    BY DEF KeptFrom
  <2> QED
    BY <2>1, <2>2
<1>3. BooksExplained' /\ activeXLPCount' \in Nat
  BY <1>1, <1>2, BooksStep
<1>4. TypeOK'
  BY <1>1, <1>3, RecordStep, StakesStep, ChainsSame, TypeStep
<1>5. EmptyUntilSlashed'
  BY <1>1 DEF EmptyUntilSlashed, TypeOK
<1> QED
  BY <1>3, <1>4, <1>5 DEF IInv

LEMMA SlashXLPIInv ==
  ASSUME IInv, NEW slasher \in Slashers, NEW id \in SlashIds,
         NEW amount \in Amounts, NEW victim \in Victims,
         SlashXLP(slasher, id, amount, victim)
  PROVE  IInv'
<1>1. PICK x \in Xlps : x = id[1]
  BY IdType
<1>2. /\ TypeOK /\ BooksExplained /\ EmptyUntilSlashed
      /\ stakes[x] \in XLPStake /\ amount \in Nat /\ victim \in Accounts
  BY L1Assumption DEF IInv, TypeOK, Accounts
<1>3. PICK n \in 0..Total(stakes[x]) : n = SlashAmount(stakes[x], amount)
  BY <1>2, SlashAmountBound
<1>4. Total(stakes[x]) \in Nat /\ stakes[x].slashed \in Nat /\ n \in Nat
  BY <1>2, <1>3 DEF Total, XLPStake
<1>5. PICK k \in XLPStake :
        /\ k = Slash(stakes[x], n) /\ k.slashed = stakes[x].slashed + n
        /\ Total(k) = Total(stakes[x]) - n /\ (k.active => stakes[x].active)
  BY <1>2, <1>3, SlashStake
<1>6. PICK r \in SlashRecord : r = NewRecord(n, TRUE)
  BY <1>4 DEF SlashRecord, NewRecord, DisputeStatus
<1>7. r.executed /\ r.amount = n /\ r.status = "None"
  BY <1>6 DEF NewRecord
<1>8. /\ ~slashRecords[id].executed
      /\ stakes' = [stakes EXCEPT ![x] = k]
      /\ slashRecords' = [slashRecords EXCEPT ![id] = r]
      /\ totalSlashed' = totalSlashed + n
      /\ TakeFromTotal(n) /\ PayOut(victim, n)
      /\ activeXLPCount' = IF stakes[x].active /\ ~k.active
                           THEN activeXLPCount - 1 ELSE activeXLPCount
      /\ UNCHANGED <<xlpChains, voteVars, arbitrators, ownerVars, now, received>>
  BY <1>1, <1>3, <1>5, <1>6, Zenon DEF SlashXLP, FirstSlash
<1>9. activeXLPCount' = CountAfter(x, k)
  BY <1>5, <1>8 DEF CountAfter
<1>10. wallet' \in [Accounts -> Nat] /\ balance' \in Nat
  BY <1>2, <1>4, <1>8, PayOutOK
<1>11. /\ totalStaked \in Nat /\ balance \in Nat /\ received \in Nat
       /\ totalStaked' = totalStaked - n /\ balance' = balance - n
       /\ totalStaked' \in Nat /\ totalSlashed' \in Nat
  BY <1>2, <1>4, <1>8 DEF TakeFromTotal, PayOut, TypeOK
<1>12. Total(k) - Total(stakes[x]) <= totalStaked' - totalStaked
  BY <1>4, <1>5, <1>11
<1>13. /\ slashRecords[id].amount = 0 /\ slashRecords[id].status = "None"
       /\ slashRecords'[id] = r
  BY <1>2, <1>8 DEF EmptyUntilSlashed, TypeOK
<1>14. AllGivenBack' = AllGivenBack /\ AllGivenBack \in Nat
  <2>1. GivenBack(id) = 0 /\ GivenBack(id)' = 0
    BY <1>7, <1>13 DEF GivenBack
  <2>2. /\ AllGivenBack' = AllGivenBack + (GivenBack(id)' - GivenBack(id))
        /\ AllGivenBack \in Nat
    BY <1>2, <1>8, RecordStep, SlashSums
  <2> QED
    BY <2>1, <2>2
<1>15. balance' + AllGivenBack' = totalStaked' + ArbitratorStakes' + received'
  <2>1. /\ ArbitratorStakes \in Nat /\ ArbitratorStakes' = ArbitratorStakes
        /\ balance + AllGivenBack = totalStaked + ArbitratorStakes + received
        /\ received' = received
    BY <1>2, <1>8, ArbitratorSum DEF BooksExplained, ArbitratorStakes
  <2> QED
    BY <1>4, <1>11, <1>14, <2>1
<1>16. k.slashed <= Kept(x)'
  <2>1. KeptFrom(x, id) = 0 /\ KeptFrom(x, id)' = n
    BY <1>1, <1>7, <1>13 DEF KeptFrom
  <2>2. /\ Kept(x)' = Kept(x) + (KeptFrom(x, id)' - KeptFrom(x, id))
        /\ Kept(x) \in Nat /\ stakes[x].slashed <= Kept(x)
    BY <1>2, <1>8, RecordStep, SlashSums DEF BooksExplained
  <2> QED
    BY <1>4, <1>5, <2>1, <2>2
<1> QED
  BY <1>1, <1>7, <1>8, <1>9, <1>10, <1>11, <1>12, <1>15, <1>16, SlashAction

(* A verdict for the XLP moves its slash from what is kept to what is      *)
(* given back, and credits the XLP with it.                                *)
LEMMA ResolveIInv ==
  ASSUME IInv, NEW id \in SlashIds, ResolveDispute(id),
         votesForXLP[id] > votesAgainstXLP[id]
  PROVE  IInv'
<1>1. PICK x \in Xlps : x = id[1]
  BY IdType
<1>2. /\ TypeOK /\ BooksExplained /\ EmptyUntilSlashed
      /\ stakes[x] \in XLPStake /\ slashRecords[id] \in SlashRecord
  BY DEF IInv, TypeOK
<1>3. PICK n \in Nat : n = slashRecords[id].amount
  BY <1>2 DEF SlashRecord
<1>4. /\ Open(id) /\ Covered(x, n)
      /\ slashRecords' = [slashRecords EXCEPT ![id].status = "Resolved"]
      /\ stakes' = [stakes EXCEPT ![x] = Returned(stakes[x], n)]
      /\ totalSlashed' = totalSlashed - n
      /\ totalStaked' = totalStaked + n
      /\ activeXLPCount' = IF Reactivated(x, Returned(stakes[x], n))
                           THEN activeXLPCount + 1 ELSE activeXLPCount
      /\ UNCHANGED <<xlpChains, voteVars, arbitrators, ownerVars, now, moneyVars>>
  BY <1>1, <1>3, Zenon DEF ResolveDispute
<1>5. /\ stakes[x].staked \in Nat /\ stakes[x].unbonding \in Nat
      /\ stakes[x].slashed \in Nat /\ stakes[x].slashed >= n
      /\ stakes[x].active \in BOOLEAN /\ MIN_STAKE \in Nat
  BY <1>2, <1>4, StakeAssumption DEF XLPStake, Covered
<1>6. PICK l \in Nat : l = stakes[x].staked + n
  BY <1>3, <1>5
<1>7. PICK m \in Nat : m = stakes[x].slashed - n
  BY <1>3, <1>5
<1>8. PICK b \in BOOLEAN : b = (stakes[x].active \/ l >= MIN_STAKE)
  BY Zenon
<1>9. PICK k \in XLPStake :
        k = [stakes[x] EXCEPT !.staked = l, !.slashed = m, !.active = b]
  BY <1>2, <1>6, <1>7, <1>8 DEF XLPStake
<1>10. /\ k.staked = l /\ k.unbonding = stakes[x].unbonding
       /\ k.slashed = m /\ k.active = b
  BY <1>2, <1>6, <1>7, <1>8, <1>9 DEF XLPStake
<1>11. Returned(stakes[x], n) = k
  BY <1>6, <1>7, <1>8, <1>9, Zenon DEF Returned
<1>12. activeXLPCount' = CountAfter(x, k)
  <2>1. stakes[x].active => k.active
    BY <1>8, <1>10, Zenon
  <2> QED
    BY <1>4, <1>11, <2>1 DEF CountAfter, Reactivated
<1>13. /\ slashRecords[id].executed
       /\ slashRecords[id].status \in {"Pending", "ChallengedXLP"}
  BY <1>2, <1>4 DEF Open, EmptyUntilSlashed
<1>14. PICK r \in SlashRecord : r = [slashRecords[id] EXCEPT !.status = "Resolved"]
  BY <1>2 DEF SlashRecord, DisputeStatus
<1>15. /\ r.executed /\ r.amount = n /\ r.status = "Resolved"
       /\ slashRecords' = [slashRecords EXCEPT ![id] = r]
       /\ slashRecords'[id] = r
  BY <1>2, <1>3, <1>4, <1>13, <1>14 DEF SlashRecord, TypeOK
<1>16. /\ wallet' \in [Accounts -> Nat] /\ balance' \in Nat
       /\ UNCHANGED <<balance, received>>
  BY <1>2, <1>4 DEF TypeOK, moneyVars
<1>17. /\ totalStaked \in Nat /\ balance \in Nat /\ received \in Nat
       /\ totalStaked' \in Nat /\ totalSlashed' \in Nat
  <2>1. /\ totalStaked \in Nat /\ balance \in Nat /\ received \in Nat
        /\ totalSlashed \in Nat
    BY <1>2 DEF TypeOK
  <2>2. totalSlashed >= n
    BY <1>4 DEF Covered
  <2> QED
    BY <1>3, <1>4, <2>1, <2>2
<1>18. Total(k) - Total(stakes[x]) <= totalStaked' - totalStaked
  BY <1>3, <1>4, <1>5, <1>6, <1>10, <1>17 DEF Total
<1>19. AllGivenBack' = AllGivenBack + n /\ AllGivenBack \in Nat
  <2>1. GivenBack(id) = 0 /\ GivenBack(id)' = n
    BY <1>13, <1>15 DEF GivenBack
  <2>2. /\ AllGivenBack' = AllGivenBack + (GivenBack(id)' - GivenBack(id))
        /\ AllGivenBack \in Nat
    BY <1>2, <1>15, RecordStep, SlashSums
  <2> QED
    BY <1>3, <2>1, <2>2
<1>20. balance' + AllGivenBack' = totalStaked' + ArbitratorStakes' + received'
  <2>1. /\ ArbitratorStakes \in Nat /\ ArbitratorStakes' = ArbitratorStakes
        /\ balance + AllGivenBack = totalStaked + ArbitratorStakes + received
    BY <1>2, <1>4, ArbitratorSum DEF BooksExplained, ArbitratorStakes
  <2> QED
    BY <1>3, <1>4, <1>16, <1>17, <1>19, <2>1
<1>21. k.slashed <= Kept(x)'
  <2>1. KeptFrom(x, id) = n /\ KeptFrom(x, id)' = 0
    BY <1>1, <1>3, <1>13, <1>15 DEF KeptFrom
  <2>2. /\ Kept(x)' = Kept(x) + (KeptFrom(x, id)' - KeptFrom(x, id))
        /\ Kept(x) \in Nat /\ stakes[x].slashed <= Kept(x)
    BY <1>2, <1>15, RecordStep, SlashSums DEF BooksExplained
  <2> QED
    BY <1>3, <1>5, <1>7, <1>10, <2>1, <2>2
<1>22. stakes' = [stakes EXCEPT ![x] = k]
  BY <1>4, <1>11
<1>23. UNCHANGED <<xlpChains, voteVars, arbitrators, ownerVars, now, received>>
  BY <1>4, <1>16
<1> QED
  BY <1>1, <1>12, <1>15, <1>16, <1>17, <1>18, <1>20, <1>21, <1>22, <1>23, SlashAction

(* The sums and the count are functions of these variables alone.          *)
LEMMA BooksSame ==
  ASSUME BooksExplained, UNCHANGED <<bondVars, slashRecords, arbitrators>>,
         balance' - balance = received' - received,
         balance \in Nat, balance' \in Nat, received \in Nat, received' \in Nat,
         TypeOK
  PROVE  BooksExplained'
<1>1. /\ AllGivenBack' = AllGivenBack /\ \A x \in Xlps : Kept(x)' = Kept(x)
      /\ ArbitratorStakes' = ArbitratorStakes /\ SumOfStakes' = SumOfStakes
  BY RecordsSame DEF ArbitratorStakes, SumOfStakes, bondVars
<1>2. /\ CountIsExact' /\ SumOfStakes' <= totalStaked'
      /\ \A x \in Xlps : stakes'[x].slashed <= Kept(x)'
  BY <1>1 DEF BooksExplained, bondVars, CountIsExact, Active
<1>3. balance' + AllGivenBack' = totalStaked' + ArbitratorStakes' + received'
  <2>1. /\ balance + AllGivenBack = totalStaked + ArbitratorStakes + received
        /\ AllGivenBack \in Nat /\ ArbitratorStakes \in Nat /\ totalStaked \in Nat
        /\ totalStaked' = totalStaked
    BY SlashSums, ArbitratorSum DEF BooksExplained, TypeOK, bondVars
  <2> QED
    BY <1>1, <2>1
<1> QED
  BY <1>2, <1>3 DEF BooksExplained

(* A record's status or deadline changes, and no slash is given back.      *)
LEMMA DisputeAction ==
  ASSUME IInv, NEW id \in SlashIds, NEW r \in SlashRecord,
         slashRecords' = [slashRecords EXCEPT ![id] = r],
         r.executed, r.amount = slashRecords[id].amount,
         r.status # "Resolved", slashRecords[id].status # "Resolved",
         UNCHANGED <<bondVars, xlpChains, voteVars, arbitrators, ownerVars, now,
                     moneyVars>>
  PROVE  IInv'
<1>1. TypeOK /\ BooksExplained /\ EmptyUntilSlashed
  BY DEF IInv
<1>2. slashRecords'[id] = r
  BY <1>1 DEF TypeOK
<1>3. /\ AllGivenBack' = AllGivenBack + (GivenBack(id)' - GivenBack(id))
      /\ AllGivenBack \in Nat /\ GivenBack(id)' = 0 /\ GivenBack(id) = 0
  BY <1>1, <1>2, RecordStep, SlashSums DEF GivenBack
<1>4. ASSUME NEW x \in Xlps PROVE Kept(x)' = Kept(x)
  <2>1. /\ Kept(x)' = Kept(x) + (KeptFrom(x, id)' - KeptFrom(x, id))
        /\ Kept(x) \in Nat
    BY <1>1, RecordStep, SlashSums
  <2>2. KeptFrom(x, id)' = KeptFrom(x, id) /\ KeptFrom(x, id) \in Nat
    BY <1>1, <1>2 DEF KeptFrom, TypeOK, SlashRecord
  <2> QED
    BY <2>1, <2>2
<1>5. UNCHANGED <<stakes, totalStaked, totalSlashed, activeXLPCount, balance,
                  received, wallet>>
  BY DEF bondVars, moneyVars
<1>6. BooksExplained'
  <2>1. AllGivenBack' = AllGivenBack
    BY <1>3
  <2>2. ArbitratorStakes' = ArbitratorStakes /\ SumOfStakes' = SumOfStakes
    BY <1>5 DEF ArbitratorStakes, SumOfStakes
  <2>3. CountIsExact'
    BY <1>1, <1>5 DEF BooksExplained, CountIsExact, Active
  <2>4. balance' + AllGivenBack' = totalStaked' + ArbitratorStakes' + received'
    BY <1>1, <1>5, <2>1, <2>2 DEF BooksExplained
  <2>5. SumOfStakes' <= totalStaked' /\ \A x \in Xlps : stakes'[x].slashed <= Kept(x)'
    BY <1>1, <1>4, <1>5, <2>2 DEF BooksExplained
  <2> QED
    BY <2>3, <2>4, <2>5 DEF BooksExplained
<1>7. TypeOK'
  <2>1. slashRecords' \in [SlashIds -> SlashRecord]
    BY <1>1, RecordStep
  <2> QED
    BY <1>1, <1>5, <2>1, Zenon DEF TypeOK, voteVars, ownerVars
<1>8. EmptyUntilSlashed'
  BY <1>1 DEF EmptyUntilSlashed, TypeOK
<1> QED
  BY <1>6, <1>7, <1>8 DEF IInv

LEMMA DisputeIInv ==
  ASSUME IInv, NEW id \in SlashIds,
         \/ DisputeSlash(id) \/ SubmitFulfillmentProof(id)
         \/ ResolveDispute(id) /\ ~(votesForXLP[id] > votesAgainstXLP[id])
  PROVE  IInv'
<1>1. /\ TypeOK /\ EmptyUntilSlashed /\ slashRecords[id] \in SlashRecord
      /\ slashRecords \in [SlashIds -> SlashRecord]
  BY DEF IInv, TypeOK
<1>2. slashRecords[id].status # "None" => slashRecords[id].executed
  BY <1>1 DEF EmptyUntilSlashed
<1>3. UNCHANGED <<bondVars, xlpChains, voteVars, arbitrators, ownerVars, now,
                  moneyVars>>
  BY DEF DisputeSlash, SubmitFulfillmentProof, ResolveDispute
<1>4. CASE DisputeSlash(id)
  <2>1. PICK d \in Nat : d = now + DISPUTE_CHALLENGE_PERIOD
    <3>1. now \in 0..MaxTime /\ MaxTime \in Nat /\ DISPUTE_CHALLENGE_PERIOD \in Nat
      BY <1>1, L1Assumption DEF TypeOK
    <3> QED
      BY <3>1
  <2>2. PICK r \in SlashRecord :
          r = [slashRecords[id] EXCEPT !.status = "Pending", !.deadline = d]
    BY <1>1 DEF SlashRecord, DisputeStatus
  <2>3. /\ slashRecords[id].executed /\ slashRecords[id].status = "None"
        /\ slashRecords' = [slashRecords EXCEPT ![id] = r]
    BY <1>1, <1>4, <2>1, <2>2 DEF DisputeSlash
  <2>4. /\ r.executed = slashRecords[id].executed
        /\ r.amount = slashRecords[id].amount /\ r.status = "Pending"
    BY <1>1, <2>2 DEF SlashRecord
  <2> QED
    BY <1>3, <2>3, <2>4, DisputeAction
<1>5. CASE SubmitFulfillmentProof(id) \/ ResolveDispute(id)
  <2>1. PICK s \in {"ChallengedXLP", "Rejected"} :
          slashRecords' = [slashRecords EXCEPT ![id].status = s]
    <3>1. CASE SubmitFulfillmentProof(id)
      BY <3>1, Zenon DEF SubmitFulfillmentProof
    <3>2. CASE ResolveDispute(id) /\ ~(votesForXLP[id] > votesAgainstXLP[id])
      BY <3>2, Zenon DEF ResolveDispute
    <3>3. CASE DisputeSlash(id)
      BY <1>2, <1>5, <3>3 DEF DisputeSlash, SubmitFulfillmentProof, ResolveDispute, Open
    <3> QED
      BY <3>1, <3>2, <3>3
  <2>2. slashRecords[id].status \in {"Pending", "ChallengedXLP"}
    BY <1>5 DEF SubmitFulfillmentProof, ResolveDispute, Open
  <2>3. PICK r \in SlashRecord : r = [slashRecords[id] EXCEPT !.status = s]
    BY <1>1, <2>1 DEF SlashRecord, DisputeStatus
  <2>4. /\ r.executed = slashRecords[id].executed
        /\ r.amount = slashRecords[id].amount /\ r.status = s
    BY <1>1, <2>3 DEF SlashRecord
  <2>5. slashRecords' = [slashRecords EXCEPT ![id] = r]
    BY <1>1, <2>1, <2>3
  <2>6. r.executed /\ r.status # "Resolved" /\ slashRecords[id].status # "Resolved"
    BY <1>2, <2>1, <2>2, <2>4
  <2> QED
    BY <1>3, <2>4, <2>5, <2>6, DisputeAction
<1> QED
  BY <1>4, <1>5

-----------------------------------------------------------------------------
(* Arbitrators, chains, the owner and the clock.                           *)

LEMMA RegisterArbitratorIInv ==
  ASSUME IInv, NEW a \in Arbitrators, NEW amount \in Amounts,
         RegisterArbitrator(a, amount)
  PROVE  IInv'
<1>1. /\ TypeOK /\ BooksExplained /\ EmptyUntilSlashed
      /\ amount \in Nat /\ a \in Accounts
  BY L1Assumption DEF IInv, Accounts
<1>2. /\ arbitrators[a] = 0 /\ PayIn(a, amount)
      /\ arbitrators' = [arbitrators EXCEPT ![a] = amount]
      /\ UNCHANGED <<bondVars, xlpChains, disputeVars, ownerVars, now, received>>
  BY DEF RegisterArbitrator
<1>3. UNCHANGED <<stakes, totalStaked, totalSlashed, activeXLPCount,
                  slashRecords, voteVars>>
  BY <1>2 DEF bondVars, disputeVars
<1>4. /\ wallet' \in [Accounts -> Nat] /\ balance' \in Nat
      /\ balance' = balance + amount
  BY <1>1, <1>2, PayInOK DEF PayIn
<1>5. /\ arbitrators' \in [Arbitrators -> Nat]
      /\ ArbitratorStakes' = ArbitratorStakes + (amount - arbitrators[a])
      /\ ArbitratorStakes \in Nat
  BY <1>1, <1>2, ArbitratorStep, ArbitratorSum
<1>6. BooksExplained'
  <2>1. AllGivenBack' = AllGivenBack /\ \A x \in Xlps : Kept(x)' = Kept(x)
    BY <1>3, RecordsSame
  <2>2. /\ balance + AllGivenBack = totalStaked + ArbitratorStakes + received
        /\ AllGivenBack \in Nat /\ totalStaked \in Nat /\ received \in Nat
        /\ balance \in Nat
    BY <1>1, SlashSums DEF BooksExplained, TypeOK
  <2>3. balance' + AllGivenBack' = totalStaked' + ArbitratorStakes' + received'
    BY <1>1, <1>2, <1>3, <1>4, <1>5, <2>1, <2>2
  <2>4. CountIsExact' /\ SumOfStakes' <= totalStaked'
    BY <1>1, <1>3 DEF BooksExplained, CountIsExact, Active, SumOfStakes
  <2>5. \A x \in Xlps : stakes'[x].slashed <= Kept(x)'
    BY <1>1, <1>3, <2>1 DEF BooksExplained
  <2> QED
    BY <2>3, <2>4, <2>5 DEF BooksExplained
<1>7. TypeOK'
  BY <1>1, <1>2, <1>3, <1>4, <1>5, Zenon DEF TypeOK, voteVars, ownerVars
<1>8. EmptyUntilSlashed'
  BY <1>1, <1>3 DEF EmptyUntilSlashed
<1> QED
  BY <1>6, <1>7, <1>8 DEF IInv

(* A step that leaves all stakes, records and ETH alone keeps the books.   *)
LEMMA QuietStep ==
  ASSUME IInv, TypeOK', UNCHANGED <<bondVars, slashRecords, arbitrators, moneyVars>>
  PROVE  IInv'
<1>1. TypeOK /\ BooksExplained /\ EmptyUntilSlashed
  BY DEF IInv
<1>2. BooksExplained'
  <2>1. /\ UNCHANGED <<bondVars, slashRecords, arbitrators, balance, received>>
        /\ balance \in Nat /\ received \in Nat
    BY <1>1 DEF TypeOK, moneyVars
  <2> QED
    BY <1>1, <2>1, BooksSame
<1>3. EmptyUntilSlashed'
  BY <1>1 DEF EmptyUntilSlashed
<1> QED
  BY <1>2, <1>3 DEF IInv

LEMMA VoteIInv ==
  ASSUME IInv, NEW a \in Arbitrators, NEW id \in SlashIds, NEW b \in BOOLEAN,
         VoteOnDispute(a, id, b)
  PROVE  IInv'
<1>1. TypeOK
  BY DEF IInv
<1>2. /\ CountVote(id, a, b)
      /\ UNCHANGED <<bondVars, xlpChains, slashRecords, arbitrators, ownerVars,
                     now, moneyVars>>
  BY DEF VoteOnDispute
<1>3. disputeVotes' \in [SlashIds -> SUBSET Arbitrators]
  BY <1>1, <1>2 DEF TypeOK, CountVote
<1>4. votesForXLP' \in [SlashIds -> Nat] /\ votesAgainstXLP' \in [SlashIds -> Nat]
  <2>1. /\ votesForXLP \in [SlashIds -> Nat] /\ votesAgainstXLP \in [SlashIds -> Nat]
        /\ \A n \in Nat : n + 1 \in Nat
    BY <1>1 DEF TypeOK
  <2> QED
    BY <1>2, <2>1 DEF CountVote
<1>5. TypeOK'
  BY <1>1, <1>2, <1>3, <1>4, Zenon DEF TypeOK, bondVars, ownerVars, moneyVars
<1> QED
  BY <1>2, <1>5, QuietStep

(* A list that lost its first c is a list, and no longer than before.      *)
LEMMA RemoveOK ==
  ASSUME NEW list \in Seq(Chains), NEW c, Lists(list, c)
  PROVE  Remove(list, c) \in Seq(Chains) /\ Len(Remove(list, c)) <= Len(list)
<1>1. DOMAIN list = 1..Len(list) /\ Len(list) \in Nat /\ Len(list) > 0
  BY LenProperties DEF Lists
<1>2. PICK i : i = Min({j \in DOMAIN list : list[j] = c})
  BY Zenon
<1>3. PICK last \in Chains : last = list[Len(list)]
  BY <1>1, ElementOfSeq
<1>4. PICK longer : longer = [list EXCEPT ![i] = last]
  BY Zenon
<1>5. longer \in Seq(Chains) /\ Len(longer) = Len(list)
  <2>1. list \in [1..Len(list) -> Chains]
    BY LenProperties
  <2>2. longer \in [1..Len(list) -> Chains]
    BY <1>3, <1>4, <2>1
  <2>3. longer \in Seq(Chains)
    BY <1>1, <2>2, SeqDef
  <2>4. DOMAIN longer = 1..Len(list) /\ DOMAIN longer = 1..Len(longer)
    BY <2>2, <2>3, LenProperties
  <2> QED
    BY <1>1, <2>3, <2>4, LenProperties
<1>6. Remove(list, c) = SubSeq(longer, 1, Len(list) - 1)
  BY <1>2, <1>3, <1>4, Zenon DEF Remove
<1> QED
  BY <1>1, <1>5, <1>6, SubSeqProperties

LEMMA ChainsIInv ==
  ASSUME IInv, NEW x \in Xlps, NEW c \in Chains,
         RegisterChain(x, c) \/ UnregisterChain(x, c)
  PROVE  IInv'
<1>1. TypeOK /\ xlpChains[x] \in Seq(Chains) /\ Len(xlpChains[x]) \in Nat
      /\ Len(xlpChains[x]) <= MAX_CHAINS /\ MAX_CHAINS \in Nat
  BY LenProperties, L1Assumption DEF IInv, TypeOK
<1>2. PICK list \in Seq(Chains) :
        /\ Len(list) <= MAX_CHAINS
        /\ xlpChains' = [xlpChains EXCEPT ![x] = list]
  <2>1. CASE RegisterChain(x, c)
    <3>1. PICK list \in Seq(Chains) : list = Append(xlpChains[x], c)
      BY <1>1, AppendProperties
    <3>2. Len(list) = Len(xlpChains[x]) + 1 /\ Len(list) \in Nat
      BY <1>1, <3>1, AppendProperties, LenProperties
    <3>3. xlpChains' = [xlpChains EXCEPT ![x] = list]
      BY <2>1, <3>1, Zenon DEF RegisterChain
    <3>4. Len(list) <= MAX_CHAINS
      BY <1>1, <2>1, <3>2 DEF RegisterChain
    <3> QED
      BY <3>3, <3>4
  <2>2. CASE UnregisterChain(x, c)
    <3>1. Lists(xlpChains[x], c)
      BY <2>2 DEF UnregisterChain
    <3>2. PICK list \in Seq(Chains) :
            /\ list = Remove(xlpChains[x], c)
            /\ Len(list) <= Len(xlpChains[x])
      BY <1>1, <3>1, RemoveOK
    <3>3. xlpChains' = [xlpChains EXCEPT ![x] = list]
      BY <2>2, <3>2, Zenon DEF UnregisterChain
    <3>4. Len(list) <= MAX_CHAINS
      BY <1>1, <3>2, LenProperties
    <3> QED
      BY <3>2, <3>3, <3>4
  <2> QED
    BY <2>1, <2>2
<1>3. /\ UNCHANGED <<bondVars, disputeVars, arbitrators, ownerVars, now, moneyVars>>
      /\ UNCHANGED <<slashRecords, voteVars>>
  BY DEF RegisterChain, UnregisterChain, disputeVars
<1>4. /\ xlpChains' \in [Xlps -> Seq(Chains)]
      /\ \A y \in Xlps : Len(xlpChains'[y]) <= MAX_CHAINS
  BY <1>1, <1>2, ChainsStep
<1>5. TypeOK'
  BY <1>1, <1>3, <1>4, Zenon DEF TypeOK, bondVars, voteVars, ownerVars, moneyVars
<1> QED
  BY <1>3, <1>5, QuietStep

LEMMA OwnerIInv ==
  ASSUME IInv, OwnerCalls
  PROVE  IInv'
<1>1. TypeOK
  BY DEF IInv
<1>2. /\ UNCHANGED <<bondVars, xlpChains, disputeVars, arbitrators, now, moneyVars>>
      /\ UNCHANGED <<slashRecords, voteVars>>
  BY DEF OwnerCalls, disputeVars
<1>3. extraCalls' \in 0..MaxExtraCalls
  BY <1>1, L1Assumption DEF OwnerCalls, TypeOK
<1>4. l2Paymasters' \subseteq Chains /\ authorizedSlashers' \subseteq Slashers
  BY <1>1 DEF OwnerCalls, TypeOK, RegisterL2Paymaster, SetChainUnbondingPeriod,
              SetAuthorizedSlasher, SetPaused
<1>5. chainPeriods' \in [Chains -> Nat]
  <2>1. ASSUME NEW c \in Chains, NEW period \in Periods,
               SetChainUnbondingPeriod(c, period)
        PROVE  chainPeriods' \in [Chains -> Nat]
    BY <1>1, <2>1, L1Assumption DEF SetChainUnbondingPeriod, TypeOK
  <2>2. CASE UNCHANGED chainPeriods
    BY <1>1, <2>2 DEF TypeOK
  <2> QED
    BY <2>1, <2>2 DEF OwnerCalls, RegisterL2Paymaster, SetAuthorizedSlasher, SetPaused
<1>6. paused' \in BOOLEAN
  BY <1>1, Zenon DEF OwnerCalls, TypeOK, RegisterL2Paymaster,
                     SetChainUnbondingPeriod, SetAuthorizedSlasher, SetPaused
<1>7. TypeOK'
  BY <1>1, <1>2, <1>3, <1>4, <1>5, <1>6, Zenon
     DEF TypeOK, bondVars, voteVars, moneyVars
<1> QED
  BY <1>2, <1>7, QuietStep

LEMMA ReceiveIInv ==
  ASSUME IInv, NEW x \in Xlps, NEW amount \in Amounts, Receive(x, amount)
  PROVE  IInv'
<1>1. /\ TypeOK /\ BooksExplained /\ EmptyUntilSlashed
      /\ amount \in Nat /\ x \in Accounts
  BY L1Assumption DEF IInv, Accounts
<1>2. /\ PayIn(x, amount) /\ received' = received + amount
      /\ UNCHANGED <<bondVars, xlpChains, disputeVars, arbitrators, l2Paymasters,
                     chainPeriods, authorizedSlashers, paused, now>>
      /\ UNCHANGED <<slashRecords, voteVars>>
  BY DEF Receive, disputeVars
<1>3. wallet' \in [Accounts -> Nat] /\ balance' \in Nat
  BY <1>1, <1>2, PayInOK
<1>4. /\ balance \in Nat /\ received \in Nat /\ received' \in Nat
      /\ balance' - balance = received' - received
  BY <1>1, <1>2 DEF TypeOK, PayIn
<1>5. BooksExplained'
  BY <1>1, <1>2, <1>3, <1>4, BooksSame
<1>6. extraCalls' \in 0..MaxExtraCalls
  BY <1>1, L1Assumption DEF Receive, TypeOK
<1>7. TypeOK'
  BY <1>1, <1>2, <1>3, <1>4, <1>6, Zenon DEF TypeOK, bondVars, voteVars
<1>8. EmptyUntilSlashed'
  BY <1>1, <1>2 DEF EmptyUntilSlashed
<1> QED
  BY <1>5, <1>7, <1>8 DEF IInv

LEMMA TickIInv == ASSUME IInv, Tick PROVE IInv'
<1>1. TypeOK
  BY DEF IInv
<1>2. /\ UNCHANGED <<bondVars, xlpChains, disputeVars, arbitrators, ownerVars,
                     moneyVars>>
      /\ UNCHANGED <<slashRecords, voteVars>>
  BY DEF Tick, disputeVars
<1>3. now' \in 0..MaxTime
  BY <1>1, L1Assumption DEF Tick, TypeOK
<1>4. TypeOK'
  BY <1>1, <1>2, <1>3, Zenon DEF TypeOK, bondVars, voteVars, ownerVars, moneyVars
<1> QED
  BY <1>2, <1>4, QuietStep

(* Every step keeps the invariant.                                         *)
LEMMA NextIInv == IInv /\ [Next]_vars => IInv'
<1> SUFFICES ASSUME IInv, [Next]_vars PROVE IInv'
  OBVIOUS
<1>1. CASE \E x \in Xlps, amount \in Amounts :
             \/ \E chains \in ChainLists : Register(x, amount, chains)
             \/ AddStake(x, amount) \/ StartUnbonding(x, amount)
             \/ Receive(x, amount)
  BY <1>1, RegisterIInv, AddStakeIInv, StartUnbondingIInv, ReceiveIInv
<1>2. CASE \E x \in Xlps : CompleteUnbonding(x) \/ CancelUnbonding(x)
  BY <1>2, CompleteUnbondingIInv, CancelUnbondingIInv
<1>3. CASE \E x \in Xlps, c \in Chains : RegisterChain(x, c) \/ UnregisterChain(x, c)
  BY <1>3, ChainsIInv
<1>4. CASE \E slasher \in Slashers, id \in SlashIds, amount \in Amounts,
              victim \in Victims : SlashXLP(slasher, id, amount, victim)
  BY <1>4, SlashXLPIInv
<1>5. CASE \E id \in SlashIds :
             DisputeSlash(id) \/ SubmitFulfillmentProof(id) \/ ResolveDispute(id)
  BY <1>5, DisputeIInv, ResolveIInv
<1>6. CASE \E a \in Arbitrators :
             \/ \E amount \in Amounts : RegisterArbitrator(a, amount)
             \/ \E id \in SlashIds, b \in BOOLEAN : VoteOnDispute(a, id, b)
  BY <1>6, RegisterArbitratorIInv, VoteIInv
<1>7. CASE OwnerCalls \/ Tick
  BY <1>7, OwnerIInv, TickIInv
<1>8. CASE UNCHANGED vars
  <2>1. /\ UNCHANGED <<bondVars, xlpChains, disputeVars, arbitrators, ownerVars,
                       now, moneyVars>>
        /\ UNCHANGED <<slashRecords, voteVars>>
    BY <1>8 DEF vars, disputeVars
  <2>2. TypeOK'
    BY <2>1, Zenon DEF IInv, TypeOK, bondVars, voteVars, ownerVars, moneyVars
  <2> QED
    BY <2>1, <2>2, QuietStep
<1> QED
  BY <1>1, <1>2, <1>3, <1>4, <1>5, <1>6, <1>7, <1>8, Zenon DEF Next

-----------------------------------------------------------------------------
(* The theorems.                                                           *)

(* The manager's state keeps its types: no Solidity counter goes below     *)
(* zero, whatever is slashed, disputed, resolved and registered again.     *)
THEOREM TypeCorrect == Spec => []TypeOK
<1>1. IInv => TypeOK
  BY DEF IInv
<1> QED
  BY InitIInv, NextIInv, <1>1, PTL DEF Spec

(* The ETH of the contract, its totals, the slash records and the count    *)
(* of active XLPs explain each other after every call.                     *)
THEOREM BooksExplainedHolds == Spec => []BooksExplained
<1>1. IInv => BooksExplained
  BY DEF IInv
<1> QED
  BY InitIInv, NextIInv, <1>1, PTL DEF Spec

-----------------------------------------------------------------------------
(* What a step may do to a dispute that is closed.                         *)

(* A verdict was given on a record that a slash wrote, and nothing but a   *)
(* first slash, a first dispute or an open dispute rewrites a record.      *)
LEMMA VerdictIsFinal ==
  ASSUME IInv, [Next]_vars, NEW id \in SlashIds, Decided(id)
  PROVE  slashRecords'[id] = slashRecords[id]
<1>1. /\ slashRecords \in [SlashIds -> SlashRecord]
      /\ slashRecords[id].executed
      /\ slashRecords[id].status \notin {"None", "Pending", "ChallengedXLP"}
  BY DEF IInv, TypeOK, EmptyUntilSlashed, Decided
<1>2. ASSUME NEW slasher, NEW j \in SlashIds, NEW amount, NEW victim,
             SlashXLP(slasher, j, amount, victim)
      PROVE  slashRecords'[id] = slashRecords[id]
  BY <1>1, <1>2 DEF SlashXLP, FirstSlash
<1>3. ASSUME NEW j \in SlashIds,
             DisputeSlash(j) \/ SubmitFulfillmentProof(j) \/ ResolveDispute(j)
      PROVE  slashRecords'[id] = slashRecords[id]
  <2>1. j # id
    BY <1>1, <1>3 DEF DisputeSlash, SubmitFulfillmentProof, ResolveDispute, Open
  <2> QED
    BY <1>1, <1>3, <2>1 DEF DisputeSlash, SubmitFulfillmentProof, ResolveDispute
<1>4. CASE UNCHANGED slashRecords
  BY <1>4
<1> QED
  BY <1>2, <1>3, <1>4, Zenon
     DEF Next, Register, AddStake, StartUnbonding, Receive, CompleteUnbonding,
         CancelUnbonding, RegisterChain, UnregisterChain, RegisterArbitrator,
         VoteOnDispute, OwnerCalls, Tick, vars, disputeVars

(* A vote is cast in time.                                                 *)
LEMMA CountIsClosed ==
  ASSUME IInv, [Next]_vars, NEW id \in SlashIds, Closed(id)
  PROVE  /\ votesForXLP'[id] = votesForXLP[id]
         /\ votesAgainstXLP'[id] = votesAgainstXLP[id]
<1>1. ASSUME NEW a, NEW j \in SlashIds, NEW b, VoteOnDispute(a, j, b)
      PROVE  /\ votesForXLP'[id] = votesForXLP[id]
             /\ votesAgainstXLP'[id] = votesAgainstXLP[id]
  <2>1. now \in Nat /\ slashRecords[id].deadline \in Nat
    <3>1. now \in 0..MaxTime /\ slashRecords[id] \in SlashRecord
      BY DEF IInv, TypeOK
    <3> QED
      BY <3>1, L1Assumption DEF SlashRecord
  <2>2. j # id
    BY <1>1, <2>1 DEF VoteOnDispute, InTime, Closed
  <2> QED
    BY <1>1, <2>2 DEF VoteOnDispute, CountVote, IInv, TypeOK
<1>2. CASE UNCHANGED voteVars
  BY <1>2 DEF voteVars
<1> QED
  BY <1>1, <1>2, Zenon
     DEF Next, Register, AddStake, StartUnbonding, Receive, CompleteUnbonding,
         CancelUnbonding, RegisterChain, UnregisterChain, SlashXLP, DisputeSlash,
         SubmitFulfillmentProof, ResolveDispute, RegisterArbitrator, OwnerCalls,
         Tick, vars, disputeVars

(* After the deadline no vote is counted, and a verdict is never revised,  *)
(* whatever calls race the deadline.                                       *)
THEOREM VotesInTimeHolds == Spec => VotesInTime
<1>1. ASSUME IInv, [Next]_vars
      PROVE  [\A id \in SlashIds : Closed(id) =>
                /\ UNCHANGED <<votesForXLP[id], votesAgainstXLP[id]>>
                /\ Decided(id) => UNCHANGED slashRecords[id]]_vars
  BY <1>1, VerdictIsFinal, CountIsClosed
<1> QED
  BY <1>1, InitIInv, NextIInv, PTL DEF Spec, VotesInTime

-----------------------------------------------------------------------------
(* What a step may do to a withdrawal.                                     *)

(* Only completeUnbonding pays an XLP.                                     *)
LEMMA PaidByWithdrawal ==
  ASSUME IInv, [Next]_vars, NEW x \in Xlps, wallet'[x] > wallet[x]
  PROVE  CompleteUnbonding(x)
<1>1. wallet \in [Accounts -> Nat] /\ x \in Accounts
  BY DEF IInv, TypeOK, Accounts
<1>2. wallet[x] \in Nat /\ wallet'[x] # wallet[x]
  BY <1>1
<1>3. ASSUME NEW a \in Accounts, NEW amount \in Nat, PayIn(a, amount)
      PROVE  FALSE
  <2>1. wallet' = [wallet EXCEPT ![a] = wallet[a] - amount] /\ wallet[a] \in Nat
    BY <1>1, <1>3 DEF PayIn
  <2> QED
    BY <1>1, <1>2, <2>1
<1>4. ASSUME NEW a \in Accounts, a # x, NEW amount, PayOut(a, amount)
      PROVE  FALSE
  BY <1>1, <1>2, <1>4 DEF PayOut
<1>5. Xlps \subseteq Accounts /\ Arbitrators \subseteq Accounts
      /\ Victims \subseteq Accounts /\ x \notin Victims /\ Amounts \subseteq Nat
  BY L1Assumption DEF Accounts
<1>6. ~ UNCHANGED wallet
  BY <1>2
<1>7. ASSUME NEW y \in Xlps, NEW amount \in Amounts,
             \/ \E chains \in ChainLists : Register(y, amount, chains)
             \/ AddStake(y, amount) \/ StartUnbonding(y, amount)
             \/ Receive(y, amount)
      PROVE  FALSE
  BY <1>3, <1>5, <1>6, <1>7
     DEF Register, AddStake, StartUnbonding, Receive, moneyVars
<1>8. ASSUME NEW y \in Xlps, CompleteUnbonding(y) \/ CancelUnbonding(y)
      PROVE  CompleteUnbonding(x)
  <2>1. CompleteUnbonding(y)
    BY <1>6, <1>8 DEF CancelUnbonding, moneyVars
  <2>2. y = x
    BY <1>4, <1>5, <2>1 DEF CompleteUnbonding
  <2> QED
    BY <2>1, <2>2
<1>9. ASSUME NEW slasher, NEW id, NEW amount, NEW victim \in Victims,
             SlashXLP(slasher, id, amount, victim)
      PROVE  FALSE
  BY <1>4, <1>5, <1>9 DEF SlashXLP
<1>10. ASSUME NEW a \in Arbitrators, NEW amount \in Amounts,
              RegisterArbitrator(a, amount)
       PROVE  FALSE
  BY <1>3, <1>5, <1>10 DEF RegisterArbitrator
<1>11. CASE UNCHANGED moneyVars
  BY <1>6, <1>11 DEF moneyVars
<1> QED
  BY <1>6, <1>7, <1>8, <1>9, <1>10, <1>11, Zenon
     DEF Next, RegisterChain, UnregisterChain, DisputeSlash,
         SubmitFulfillmentProof, ResolveDispute, VoteOnDispute, OwnerCalls, Tick,
         vars, moneyVars

(* A stake that is unbonding after a step was so before, since the same    *)
(* time and for the same period, or has just begun to.                     *)
ExitKept(x) ==
  \/ stakes'[x].unbonding = 0
  \/ /\ stakes'[x].start = stakes[x].start /\ stakes'[x].locked = stakes[x].locked
     /\ stakes[x].unbonding = 0 => stakes'[x].unbonding = 0
  \/ stakes[x].unbonding = 0 /\ stakes'[x].locked = XLPUnbondingPeriod(x)

LEMMA ExitStep ==
  ASSUME IInv, [Next]_vars, NEW x \in Xlps
  PROVE  ExitKept(x)
<1>1. /\ TypeOK /\ stakes \in [Xlps -> XLPStake] /\ stakes[x] \in XLPStake
      /\ stakes[x].unbonding \in Nat /\ Amounts \subseteq Nat
  BY L1Assumption DEF IInv, TypeOK, XLPStake
<1>2. ASSUME stakes'[x] = stakes[x] PROVE ExitKept(x)
  BY <1>2 DEF ExitKept
<1>3. ASSUME NEW amount \in Amounts, NEW chains \in ChainLists,
             Register(x, amount, chains)
      PROVE  ExitKept(x)
  BY <1>1, <1>3 DEF Register, NewStake, ExitKept
<1>4. ASSUME NEW amount \in Amounts, AddStake(x, amount)
      PROVE  ExitKept(x)
  <2>1. stakes'[x] = [stakes[x] EXCEPT !.staked = stakes[x].staked + amount]
    BY <1>1, <1>4 DEF AddStake
  <2> QED
    BY <1>1, <2>1 DEF ExitKept, XLPStake
<1>5. ASSUME NEW amount \in Amounts, StartUnbonding(x, amount)
      PROVE  ExitKept(x)
  <2>1. PICK u : u = Unbond(stakes[x], amount, now)
    OBVIOUS
  <2>2. stakes'[x] = [u EXCEPT !.locked = XLPUnbondingPeriod(x)]
    BY <1>1, <1>5, <2>1 DEF StartUnbonding
  <2>3. "locked" \in DOMAIN u
    BY <1>1, <2>1 DEF Unbond, XLPStake
  <2>4. stakes[x].unbonding = 0
    BY <1>5 DEF StartUnbonding, CanUnbond
  <2> QED
    BY <2>2, <2>3, <2>4 DEF ExitKept
<1>6. ASSUME CompleteUnbonding(x) \/ CancelUnbonding(x)
      PROVE  ExitKept(x)
  BY <1>1, <1>6
     DEF CompleteUnbonding, CancelUnbonding, Withdraw, Restake, ExitKept, XLPStake
<1>7. ASSUME NEW slasher, NEW id \in SlashIds, NEW amount \in Amounts, NEW victim,
             SlashXLP(slasher, id, amount, victim), id[1] = x
      PROVE  ExitKept(x)
  <2>1. PICK n \in 0..Total(stakes[x]) : n = SlashAmount(stakes[x], amount)
    BY <1>1, SlashAmountBound
  <2>2. PICK k \in XLPStake :
          /\ k = Slash(stakes[x], n)
          /\ k.start = stakes[x].start /\ k.locked = stakes[x].locked
          /\ k.unbonding <= stakes[x].unbonding
    BY <1>1, <2>1, SlashStake
  <2>3. stakes'[x] = k
    BY <1>1, <1>7, <2>1, <2>2 DEF SlashXLP
  <2>4. k.unbonding \in Nat
    BY <2>2 DEF XLPStake
  <2> QED
    BY <1>1, <2>2, <2>3, <2>4 DEF ExitKept
<1>8. ASSUME NEW id \in SlashIds, ResolveDispute(id), id[1] = x
      PROVE  ExitKept(x)
  <2>1. CASE UNCHANGED stakes
    BY <1>2, <2>1
  <2>2. CASE stakes' = [stakes EXCEPT ![x] = Returned(stakes[x], slashRecords[id].amount)]
    BY <1>1, <2>2 DEF Returned, ExitKept, XLPStake
  <2> QED
    BY <1>8, <2>1, <2>2, Zenon DEF ResolveDispute, bondVars
<1>9. ASSUME NEW y \in Xlps, y # x, NEW k, stakes' = [stakes EXCEPT ![y] = k]
      PROVE  ExitKept(x)
  BY <1>1, <1>2, <1>9
<1>10. ASSUME UNCHANGED stakes PROVE ExitKept(x)
  BY <1>2, <1>10
<1>11. ASSUME NEW y \in Xlps, NEW amount \in Amounts,
             \/ \E chains \in ChainLists : Register(y, amount, chains)
             \/ AddStake(y, amount) \/ StartUnbonding(y, amount)
             \/ Receive(y, amount)
       PROVE  ExitKept(x)
  <2>1. CASE y = x
    BY <1>3, <1>4, <1>5, <1>10, <1>11, <2>1, Zenon DEF Receive, bondVars
  <2>2. CASE y # x
    BY <1>9, <1>10, <1>11, <2>2, Zenon
       DEF Register, AddStake, StartUnbonding, Receive, bondVars
  <2> QED
    BY <2>1, <2>2
<1>12. ASSUME NEW y \in Xlps, CompleteUnbonding(y) \/ CancelUnbonding(y)
       PROVE  ExitKept(x)
  <2>1. CASE y = x
    BY <1>6, <1>12, <2>1
  <2>2. CASE y # x
    BY <1>9, <1>12, <2>2, Zenon DEF CompleteUnbonding, CancelUnbonding
  <2> QED
    BY <2>1, <2>2
<1>13. ASSUME NEW slasher, NEW id \in SlashIds, NEW amount \in Amounts, NEW victim,
              SlashXLP(slasher, id, amount, victim)
       PROVE  ExitKept(x)
  <2>1. CASE id[1] = x
    BY <1>7, <1>13, <2>1
  <2>2. CASE id[1] # x
    BY <1>9, <1>13, <2>2, IdType, Zenon DEF SlashXLP
  <2> QED
    BY <2>1, <2>2
<1>14. ASSUME NEW id \in SlashIds,
              DisputeSlash(id) \/ SubmitFulfillmentProof(id) \/ ResolveDispute(id)
       PROVE  ExitKept(x)
  <2>1. CASE ResolveDispute(id) /\ id[1] = x
    BY <1>8, <2>1
  <2>2. CASE ResolveDispute(id) /\ id[1] # x
    BY <1>9, <1>10, <2>2, IdType, Zenon DEF ResolveDispute, bondVars
  <2>3. CASE DisputeSlash(id) \/ SubmitFulfillmentProof(id)
    BY <1>10, <2>3 DEF DisputeSlash, SubmitFulfillmentProof, bondVars
  <2> QED
    BY <1>14, <2>1, <2>2, <2>3
<1> QED
  BY <1>10, <1>11, <1>12, <1>13, <1>14, Zenon
     DEF Next, RegisterChain, UnregisterChain, RegisterArbitrator, VoteOnDispute,
         OwnerCalls, Tick, vars, bondVars

(* No call of the XLP, of the owner or of a slasher brings a withdrawal    *)
(* forward: it waits for the longest period of the chains that were served *)
(* when it was asked for.                                                  *)
THEOREM NoEarlyExitHolds == Spec => NoEarlyExit
<1>1. ASSUME IInv, [Next]_vars, NEW x \in Xlps
      PROVE  /\ Withdraws(x) => now >= stakes[x].start + stakes[x].locked
             /\ stakes[x].unbonding = 0 /\ stakes'[x].unbonding > 0 =>
                  \A c \in Chains : Lists(xlpChains[x], c) =>
                    stakes'[x].locked >= Max({chainPeriods[c], DEFAULT_UNBONDING_PERIOD})
             /\ stakes[x].unbonding > 0 /\ stakes'[x].unbonding > 0 =>
                  UNCHANGED <<stakes[x].start, stakes[x].locked>>
  <2>1. Withdraws(x) => now >= stakes[x].start + stakes[x].locked
    BY <1>1, PaidByWithdrawal DEF Withdraws, CompleteUnbonding, UnbondingOver
  <2>2. /\ stakes[x].unbonding \in Nat
        /\ stakes[x].unbonding > 0 <=> stakes[x].unbonding # 0
    BY <1>1 DEF IInv, TypeOK, XLPStake
  <2>3. ASSUME stakes[x].unbonding = 0, stakes'[x].unbonding > 0,
               NEW c \in Chains, Lists(xlpChains[x], c)
        PROVE  stakes'[x].locked >= Max({chainPeriods[c], DEFAULT_UNBONDING_PERIOD})
    <3>1. stakes'[x].locked = XLPUnbondingPeriod(x)
      BY <1>1, <2>3, ExitStep DEF ExitKept
    <3> QED
      BY <1>1, <2>3, <3>1, PeriodOK DEF IInv
  <2>4. ASSUME stakes[x].unbonding > 0, stakes'[x].unbonding > 0
        PROVE  UNCHANGED <<stakes[x].start, stakes[x].locked>>
    BY <1>1, <2>2, <2>4, ExitStep DEF ExitKept
  <2> QED
    BY <2>1, <2>3, <2>4
<1>2. ASSUME IInv, [Next]_vars
      PROVE  [\A x \in Xlps :
                /\ Withdraws(x) => now >= stakes[x].start + stakes[x].locked
                /\ stakes[x].unbonding = 0 /\ stakes'[x].unbonding > 0 =>
                     \A c \in Chains : Lists(xlpChains[x], c) =>
                       stakes'[x].locked >= Max({chainPeriods[c], DEFAULT_UNBONDING_PERIOD})
                /\ stakes[x].unbonding > 0 /\ stakes'[x].unbonding > 0 =>
                     UNCHANGED <<stakes[x].start, stakes[x].locked>>]_vars
  BY <1>1, <1>2
<1> QED
  BY <1>2, InitIInv, NextIInv, PTL DEF Spec, NoEarlyExit
=============================================================================
