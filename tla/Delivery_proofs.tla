--------------------------- MODULE Delivery_proofs --------------------------
(***************************************************************************)
(* Proofs about Delivery, for any solvers, order ids, funds and oracles.   *)
(*                                                                         *)
(* The settler's books (Backed) are what keeps its balances from going     *)
(* below zero, so they are proved together with its types.                 *)
(* AttestedWasFilled rests on three facts: the trusted contract reports    *)
(* fills only, the tables name it or nobody, and nobody sends from address *)
(* 0; and fills never vanish.                                              *)
(***************************************************************************)
EXTENDS Delivery, Sums, TLAPS

SentIsFilled ==
  \A m \in sent : /\ m.sender # NoAddress
                  /\ m.sender = RealSettler => O!IsFilled(m.id)
TrustsReal ==
  \A o \in Oracles, c \in Chains : trusted[o][c] \in {RealSettler, NoAddress}

IInv == /\ TypeOK /\ Backed /\ RecipientsPaidOnce /\ AttestedWasFilled
        /\ SentIsFilled /\ TrustsReal

-----------------------------------------------------------------------------
(* The sums of OutputSettler are those of Sums.                            *)

LEMMA SumIsSum == ASSUME NEW f PROVE O!SumFunction(f) = SumFunction(f)
BY Zenon DEF SumFunction, O!SumFunction, SumFunctionOnSet, O!SumFunctionOnSet,
   FoldFunctionOnSet, O!FoldFunctionOnSet, MapThenFoldSet, O!MapThenFoldSet

(* What the solvers are credited with, asset by asset, and what backs it.  *)
Credits(t) ==
  IF t = ETH THEN solverETH ELSE [s \in Solvers |-> solverLiquidity[s][t]]
Covers(n, sum, t) == IF t = ETH THEN n >= sum ELSE n = sum

LEMMA AssetFacts ==
  /\ O!Assets = Tokens \cup {ETH} /\ ETH \notin Tokens /\ Amounts \subseteq Nat
  /\ O!Holders = Solvers \cup Recipients
  /\ IsFiniteSet(Solvers) /\ IsFiniteSet(Ids) /\ NoFill \notin O!FillRecord
  /\ InitialFunds \in [O!Holders -> [O!Assets -> Nat]]
BY DeliveryAssumption DEF O!OutputAssumption, O!Assets, O!Holders

LEMMA BackedIs ==
  O!Backed <=> \A t \in O!Assets : Covers(held[t], SumFunction(Credits(t)), t)
BY AssetFacts, SumIsSum DEF O!Backed, Credits, Covers

LEMMA BackedNextIs ==
  O!Backed' <=>
    \A t \in O!Assets : Covers(held'[t], SumFunction(Credits(t)'), t)
BY AssetFacts, SumIsSum DEF O!Backed, Credits, Covers

(* A step that changes the credit of one solver by what it changes the     *)
(* balance keeps the books, and they keep the balance from going below 0.  *)
LEMMA CreditStep ==
  ASSUME O!TypeOK, O!Backed, NEW s \in Solvers,
         solverLiquidity' \in [Solvers -> [Tokens -> Nat]],
         solverETH' \in [Solvers -> Nat], held' \in [O!Assets -> Int],
         \A z \in Solvers \ {s} : /\ solverLiquidity'[z] = solverLiquidity[z]
                                  /\ solverETH'[z] = solverETH[z],
         \A t \in Tokens : held'[t] - held[t]
                             = solverLiquidity'[s][t] - solverLiquidity[s][t],
         held'[ETH] - held[ETH] >= solverETH'[s] - solverETH[s]
  PROVE  O!Backed' /\ held' \in [O!Assets -> Nat]
<1>1. ASSUME NEW t \in O!Assets
      PROVE  Covers(held'[t], SumFunction(Credits(t)'), t) /\ held'[t] \in Nat
  <2>1. PICK f, g : f = Credits(t) /\ g = Credits(t)'
    BY Zenon
  <2>2. /\ f \in [Solvers -> Nat] /\ g \in [Solvers -> Nat]
        /\ \A z \in Solvers \ {s} : g[z] = f[z]
    BY <2>1, AssetFacts DEF Credits, O!TypeOK
  <2>3. /\ f[s] = IF t = ETH THEN solverETH[s] ELSE solverLiquidity[s][t]
        /\ g[s] = IF t = ETH THEN solverETH'[s] ELSE solverLiquidity'[s][t]
    BY <2>1 DEF Credits
  <2>4. PICK m, n \in Int : m = SumFunction(f) /\ n = SumFunction(g)
    BY <2>2, SumNat, AssetFacts
  <2>5. n = m + (g[s] - f[s]) /\ n >= 0
    <3>1. f \in [Solvers -> Int] /\ g \in [Solvers -> Int]
      BY <2>2
    <3>2. SumFunction(g) = SumFunction(f) + (g[s] - f[s])
      <4>1. IsFiniteSet(Solvers) /\ \A z \in Solvers \ {s} : g[z] = f[z]
        BY <2>2, AssetFacts
      <4> QED
        BY <3>1, <4>1, SumChange
    <3>3. SumFunction(g) \in Nat
      BY <2>2, SumNat, AssetFacts
    <3> QED
      BY <2>4, <3>2, <3>3
  <2>6. Covers(held[t], m, t)
    BY <2>1, <2>4, BackedIs
  <2>7. held[t] \in Int /\ held'[t] \in Int /\ f[s] \in Int /\ g[s] \in Int
    BY <2>2 DEF O!TypeOK
  <2>8. Covers(held'[t], n, t) /\ held'[t] >= 0
    <3>1. CASE t = ETH
      BY <2>3, <2>5, <2>6, <2>7, <3>1 DEF Covers
    <3>2. CASE t # ETH
      <4>1. held'[t] - held[t] = g[s] - f[s]
        BY <2>3, <3>2, AssetFacts
      <4> QED
        BY <2>5, <2>6, <2>7, <3>2, <4>1 DEF Covers
    <3> QED
      BY <3>1, <3>2
  <2> QED
    BY <2>1, <2>4, <2>7, <2>8
<1> QED
  BY <1>1, BackedNextIs

-----------------------------------------------------------------------------
(* Who is paid what.                                                       *)

Money == [O!Assets -> Nat]
Wallets == [O!Holders -> Money]

(* What a fill record, or none, promises a recipient of an asset.          *)
GoodsIn(rec, r, t) ==
  IF rec # NoFill /\ rec.recipient = r /\ rec.token = t THEN rec.amount ELSE 0
GasIn(rec, r) ==
  IF rec # NoFill /\ rec.recipient = r THEN rec.gasProvided ELSE 0

LEMMA DeliveredIs ==
  ASSUME NEW r, NEW t
  PROVE  /\ O!Delivered(r, t) =
              SumFunction([id \in Ids |-> GoodsIn(fillRecords[id], r, t)])
         /\ O!GasDelivered(r) =
              SumFunction([id \in Ids |-> GasIn(fillRecords[id], r)])
         /\ O!Delivered(r, t)' =
              SumFunction([id \in Ids |-> GoodsIn(fillRecords'[id], r, t)])
         /\ O!GasDelivered(r)' =
              SumFunction([id \in Ids |-> GasIn(fillRecords'[id], r)])
<1>1. /\ [id \in Ids |-> IF O!Receives(r, id) /\ fillRecords[id].token = t
                           THEN fillRecords[id].amount ELSE 0]
           = [id \in Ids |-> GoodsIn(fillRecords[id], r, t)]
      /\ [id \in Ids |-> IF O!Receives(r, id) THEN fillRecords[id].gasProvided ELSE 0]
           = [id \in Ids |-> GasIn(fillRecords[id], r)]
  BY DEF O!Receives, O!IsFilled, GoodsIn, GasIn
<1>2. /\ [id \in Ids |-> IF O!Receives(r, id)' /\ fillRecords'[id].token = t
                           THEN fillRecords'[id].amount ELSE 0]
           = [id \in Ids |-> GoodsIn(fillRecords'[id], r, t)]
      /\ [id \in Ids |-> IF O!Receives(r, id)' THEN fillRecords'[id].gasProvided ELSE 0]
           = [id \in Ids |-> GasIn(fillRecords'[id], r)]
  BY DEF O!Receives, O!IsFilled, GoodsIn, GasIn
<1> QED
  BY <1>1, <1>2, SumIsSum, Zenon DEF O!Delivered, O!GasDelivered

LEMMA InTypes ==
  ASSUME NEW rec \in O!FillRecord \cup {NoFill}, NEW r, NEW t
  PROVE  GoodsIn(rec, r, t) \in Nat /\ GasIn(rec, r) \in Nat
BY DEF GoodsIn, GasIn, O!FillRecord

(* A first fill of an order adds what it promises.                         *)
LEMMA FillAdds ==
  ASSUME O!TypeOK, NEW id \in Ids, fillRecords[id] = NoFill,
         NEW rec \in O!FillRecord, fillRecords' = [fillRecords EXCEPT ![id] = rec],
         NEW r, NEW t
  PROVE  /\ O!Delivered(r, t)' = O!Delivered(r, t) + GoodsIn(rec, r, t)
         /\ O!GasDelivered(r)' = O!GasDelivered(r) + GasIn(rec, r)
         /\ O!Delivered(r, t) \in Nat /\ O!GasDelivered(r) \in Nat
<1>1. PICK f, g, f1, g1 :
        /\ f = [j \in Ids |-> GoodsIn(fillRecords[j], r, t)]
        /\ g = [j \in Ids |-> GasIn(fillRecords[j], r)]
        /\ f1 = [j \in Ids |-> GoodsIn(fillRecords'[j], r, t)]
        /\ g1 = [j \in Ids |-> GasIn(fillRecords'[j], r)]
  OBVIOUS
<1>2. /\ fillRecords'[id] = rec
      /\ \A j \in Ids \ {id} : fillRecords'[j] = fillRecords[j]
      /\ \A j \in Ids : /\ fillRecords[j] \in O!FillRecord \cup {NoFill}
                        /\ fillRecords'[j] \in O!FillRecord \cup {NoFill}
  BY DEF O!TypeOK
<1>3. /\ f \in [Ids -> Nat] /\ g \in [Ids -> Nat]
      /\ f1 \in [Ids -> Nat] /\ g1 \in [Ids -> Nat]
  BY <1>1, <1>2, InTypes
<1>4. /\ \A j \in Ids \ {id} : f1[j] = f[j] /\ g1[j] = g[j]
      /\ f[id] = 0 /\ g[id] = 0
      /\ f1[id] = GoodsIn(rec, r, t) /\ g1[id] = GasIn(rec, r)
  BY <1>1, <1>2 DEF GoodsIn, GasIn
<1>5. /\ f \in [Ids -> Int] /\ g \in [Ids -> Int]
      /\ f1 \in [Ids -> Int] /\ g1 \in [Ids -> Int]
  BY <1>3
<1>6. /\ SumFunction(f1) = SumFunction(f) + (f1[id] - f[id])
      /\ SumFunction(g1) = SumFunction(g) + (g1[id] - g[id])
  BY <1>4, <1>5, SumChange, AssetFacts
<1>7. SumFunction(f) \in Nat /\ SumFunction(g) \in Nat
  BY <1>3, SumNat, AssetFacts
<1>8. /\ O!Delivered(r, t) = SumFunction(f) /\ O!GasDelivered(r) = SumFunction(g)
      /\ O!Delivered(r, t)' = SumFunction(f1)
      /\ O!GasDelivered(r)' = SumFunction(g1)
  BY <1>1, DeliveredIs
<1>9. GoodsIn(rec, r, t) \in Nat /\ GasIn(rec, r) \in Nat
  BY InTypes
<1> QED
  BY <1>4, <1>6, <1>7, <1>8, <1>9

-----------------------------------------------------------------------------
(* Wallets, payment by payment.                                            *)

LEMMA DebitOK ==
  ASSUME NEW w \in Wallets, NEW a \in O!Holders, NEW t \in O!Assets, NEW n \in Nat,
         w[a][t] >= n
  PROVE  /\ O!Debit(w, a, t, n) \in Wallets
         /\ \A z \in O!Holders \ {a} : O!Debit(w, a, t, n)[z] = w[z]
         /\ \A u \in O!Assets \ {t} : O!Debit(w, a, t, n)[a][u] = w[a][u]
<1>1. w[a] \in Money /\ w[a][t] \in Nat
  BY DEF Wallets, Money
<1>2. PICK m : m = [w[a] EXCEPT ![t] = @ - n]
  OBVIOUS
<1>3. m \in Money /\ \A u \in O!Assets \ {t} : m[u] = w[a][u]
  BY <1>1, <1>2 DEF Money
<1>4. O!Debit(w, a, t, n) = [w EXCEPT ![a] = m]
  BY <1>2 DEF O!Debit
<1> QED
  BY <1>3, <1>4 DEF Wallets

LEMMA CreditOK ==
  ASSUME NEW w \in Wallets, NEW a \in O!Holders, NEW t \in O!Assets, NEW n \in Nat
  PROVE  /\ O!Credit(w, a, t, n) \in Wallets
         /\ \A z \in O!Holders \ {a} : O!Credit(w, a, t, n)[z] = w[z]
         /\ \A u \in O!Assets :
              O!Credit(w, a, t, n)[a][u] = w[a][u] + (IF u = t THEN n ELSE 0)
<1>1. w[a] \in Money
  BY DEF Wallets
<1>2. PICK m : m = [w[a] EXCEPT ![t] = @ + n]
  OBVIOUS
<1>3. m \in Money
  BY <1>1, <1>2 DEF Money
<1>4. \A u \in O!Assets : m[u] = w[a][u] + (IF u = t THEN n ELSE 0)
  BY <1>1, <1>2 DEF Money
<1>5. O!Credit(w, a, t, n) = [w EXCEPT ![a] = m]
  BY <1>2 DEF O!Credit
<1> QED
  BY <1>3, <1>4, <1>5 DEF Wallets

-----------------------------------------------------------------------------
(* The two kinds of steps: those that fill an order, and the others.       *)

SettlerInv == O!TypeOK /\ O!Backed /\ O!RecipientsPaidOnce

(* What a solver is credited with changes by what the settler holds, or by *)
(* less in ETH.                                                            *)
CreditsMove(s) ==
  /\ solverLiquidity' \in [Solvers -> [Tokens -> Nat]]
  /\ solverETH' \in [Solvers -> Nat] /\ held' \in [O!Assets -> Int]
  /\ \A z \in Solvers \ {s} : /\ solverLiquidity'[z] = solverLiquidity[z]
                              /\ solverETH'[z] = solverETH[z]
  /\ \A t \in Tokens : held'[t] - held[t]
                         = solverLiquidity'[s][t] - solverLiquidity[s][t]
  /\ held'[ETH] - held[ETH] >= solverETH'[s] - solverETH[s]

LEMMA QuietStep ==
  ASSUME SettlerInv, NEW s \in Solvers, CreditsMove(s), UNCHANGED fillRecords,
         wallet' \in Wallets,
         \A r \in Recipients \ Solvers : wallet'[r] = wallet[r]
  PROVE  SettlerInv'
<1>1. O!Backed' /\ held' \in [O!Assets -> Nat]
  BY CreditStep DEF SettlerInv, CreditsMove
<1>2. O!TypeOK'
  BY <1>1 DEF SettlerInv, CreditsMove, O!TypeOK, Wallets, Money
<1>3. ASSUME NEW r, NEW t
      PROVE  /\ O!Delivered(r, t)' = O!Delivered(r, t)
             /\ O!GasDelivered(r)' = O!GasDelivered(r)
  BY Zenon DEF O!Delivered, O!GasDelivered, O!Receives, O!IsFilled
<1>4. O!RecipientsPaidOnce'
  BY <1>3 DEF SettlerInv, O!RecipientsPaidOnce
<1> QED
  BY <1>1, <1>2, <1>4 DEF SettlerInv

(* What a fill pays an account of an asset.                                *)
Part(z, u, r, t, amount, gas) ==
  (IF z = r /\ u = t THEN amount ELSE 0) + (IF z = r /\ u = ETH THEN gas ELSE 0)

LEMMA FillStep ==
  ASSUME SettlerInv, NEW s \in Solvers, CreditsMove(s), NEW id \in Ids,
         NEW t \in O!Assets, NEW amount \in Nat, NEW r \in Recipients, NEW gas \in Nat,
         O!RecordFill(s, id, t, amount, r, gas),
         wallet' \in Wallets,
         \A z \in Recipients \ Solvers, u \in O!Assets :
           wallet'[z][u] = wallet[z][u] + Part(z, u, r, t, amount, gas)
  PROVE  SettlerInv'
<1>1. O!Backed' /\ held' \in [O!Assets -> Nat]
  BY CreditStep DEF SettlerInv, CreditsMove
<1>2. PICK rec \in O!FillRecord :
        /\ rec = [solver |-> s, recipient |-> r, token |-> t, amount |-> amount,
                  gasProvided |-> gas]
        /\ fillRecords[id] = NoFill
        /\ fillRecords' = [fillRecords EXCEPT ![id] = rec]
  BY DEF O!RecordFill, O!IsFilled, O!FillRecord
<1>3. O!TypeOK'
  BY <1>1, <1>2 DEF SettlerInv, CreditsMove, O!TypeOK, Wallets, Money
<1>4. ASSUME NEW z \in Recipients \ Solvers, NEW u \in O!Assets
      PROVE  /\ O!Delivered(z, u)' = O!Delivered(z, u)
                                     + (IF z = r /\ u = t THEN amount ELSE 0)
             /\ O!GasDelivered(z)' = O!GasDelivered(z) + (IF z = r THEN gas ELSE 0)
             /\ O!Delivered(z, u) \in Nat /\ O!GasDelivered(z) \in Nat
             /\ InitialFunds[z][u] \in Nat
  <2>1. /\ O!Delivered(z, u)' = O!Delivered(z, u) + GoodsIn(rec, z, u)
        /\ O!GasDelivered(z)' = O!GasDelivered(z) + GasIn(rec, z)
        /\ O!Delivered(z, u) \in Nat /\ O!GasDelivered(z) \in Nat
    BY <1>2, FillAdds DEF SettlerInv
  <2>2. /\ GoodsIn(rec, z, u) = IF z = r /\ u = t THEN amount ELSE 0
        /\ GasIn(rec, z) = IF z = r THEN gas ELSE 0
    <3>1. /\ rec # NoFill /\ rec.recipient = r /\ rec.token = t
          /\ rec.amount = amount /\ rec.gasProvided = gas
      BY <1>2, AssetFacts
    <3> QED
      BY <3>1 DEF GoodsIn, GasIn
  <2>3. InitialFunds[z][u] \in Nat
    <3>1. z \in O!Holders
      BY AssetFacts
    <3> QED
      BY <3>1, AssetFacts
  <2> QED
    BY <2>1, <2>2, <2>3
<1>5. ASSUME NEW z \in Recipients \ Solvers, NEW u \in Tokens
      PROVE  wallet'[z][u] = InitialFunds[z][u] + O!Delivered(z, u)'
  <2>1. u \in O!Assets /\ u # ETH
    BY AssetFacts
  <2>2. wallet[z][u] = InitialFunds[z][u] + O!Delivered(z, u)
    BY DEF SettlerInv, O!RecipientsPaidOnce
  <2>3. wallet'[z][u] = wallet[z][u] + (IF z = r /\ u = t THEN amount ELSE 0)
    BY <2>1, <2>2, <1>4 DEF Part
  <2> QED
    BY <1>4, <2>1, <2>2, <2>3
<1>6. ASSUME NEW z \in Recipients \ Solvers
      PROVE  wallet'[z][ETH] =
               InitialFunds[z][ETH] + O!Delivered(z, ETH)' + O!GasDelivered(z)'
  <2>1. ETH \in O!Assets
    BY AssetFacts
  <2>2. wallet[z][ETH] =
          InitialFunds[z][ETH] + O!Delivered(z, ETH) + O!GasDelivered(z)
    BY DEF SettlerInv, O!RecipientsPaidOnce
  <2>3. wallet'[z][ETH] = wallet[z][ETH] + ((IF z = r /\ ETH = t THEN amount ELSE 0)
                                           + (IF z = r THEN gas ELSE 0))
    BY <2>1 DEF Part
  <2> QED
    BY <1>4, <2>1, <2>2, <2>3
<1>7. O!RecipientsPaidOnce'
  BY <1>5, <1>6 DEF O!RecipientsPaidOnce
<1> QED
  BY <1>1, <1>3, <1>7 DEF SettlerInv

-----------------------------------------------------------------------------
(* The transactions of the destination chain.                              *)

(* The types in the form the lemmas above use.                             *)
LEMMA SettlerTypes ==
  ASSUME SettlerInv, NEW s \in Solvers
  PROVE  /\ wallet \in Wallets /\ held \in Money
         /\ s \in O!Holders /\ ETH \in O!Assets /\ Tokens \subseteq O!Assets
         /\ Recipients \subseteq O!Holders /\ ETH \notin Tokens
         /\ solverETH \in [Solvers -> Nat]
         /\ solverLiquidity \in [Solvers -> [Tokens -> Nat]]
BY AssetFacts DEF SettlerInv, O!TypeOK, Wallets, Money

LEMMA PayInOK ==
  ASSUME SettlerInv, NEW s \in Solvers, NEW t \in O!Assets, NEW n \in Nat,
         O!PayIn(s, t, n)
  PROVE  /\ wallet' \in Wallets /\ \A r \in Recipients \ Solvers : wallet'[r] = wallet[r]
         /\ held' \in [O!Assets -> Int] /\ held'[t] - held[t] = n
         /\ \A u \in O!Assets \ {t} : held'[u] - held[u] = 0
<1>1. wallet' \in Wallets /\ \A z \in O!Holders \ {s} : wallet'[z] = wallet[z]
  BY SettlerTypes, DebitOK DEF O!PayIn
<1>2. /\ held' \in [O!Assets -> Int] /\ held'[t] = held[t] + n
      /\ \A u \in O!Assets \ {t} : held'[u] = held[u]
      /\ \A u \in O!Assets : held[u] \in Int
  BY SettlerTypes DEF O!PayIn, Money
<1> QED
  BY <1>1, <1>2, SettlerTypes

LEMMA PayOutOK ==
  ASSUME SettlerInv, NEW s \in Solvers, NEW t \in O!Assets, NEW n \in Nat,
         O!PayOut(s, t, n)
  PROVE  /\ wallet' \in Wallets /\ \A r \in Recipients \ Solvers : wallet'[r] = wallet[r]
         /\ held' \in [O!Assets -> Int] /\ held'[t] - held[t] = -n
         /\ \A u \in O!Assets \ {t} : held'[u] - held[u] = 0
<1>1. wallet' \in Wallets /\ \A z \in O!Holders \ {s} : wallet'[z] = wallet[z]
  BY SettlerTypes, CreditOK DEF O!PayOut
<1>2. /\ held' \in [O!Assets -> Int] /\ held'[t] = held[t] - n
      /\ \A u \in O!Assets \ {t} : held'[u] = held[u]
      /\ \A u \in O!Assets : held[u] \in Int
  BY SettlerTypes DEF O!PayOut, Money
<1> QED
  BY <1>1, <1>2, SettlerTypes

(* One solver's credit in a token, or in ETH, goes up or down.             *)
LEMMA LiquidityMoves ==
  ASSUME SettlerInv, NEW s \in Solvers, NEW t \in Tokens, NEW n \in Int,
         solverLiquidity[s][t] + n >= 0,
         solverLiquidity' = [solverLiquidity EXCEPT ![s][t] = @ + n]
  PROVE  /\ solverLiquidity' \in [Solvers -> [Tokens -> Nat]]
         /\ \A z \in Solvers \ {s} : solverLiquidity'[z] = solverLiquidity[z]
         /\ solverLiquidity'[s][t] - solverLiquidity[s][t] = n
         /\ \A u \in Tokens \ {t} : solverLiquidity'[s][u] - solverLiquidity[s][u] = 0
<1>1. /\ solverLiquidity[s] \in [Tokens -> Nat] /\ solverLiquidity[s][t] \in Nat
  BY SettlerTypes
<1>2. PICK m : m = [solverLiquidity[s] EXCEPT ![t] = @ + n]
  OBVIOUS
<1>3. /\ m \in [Tokens -> Nat] /\ m[t] - solverLiquidity[s][t] = n
      /\ \A u \in Tokens \ {t} : m[u] - solverLiquidity[s][u] = 0
  BY <1>1, <1>2
<1>4. solverLiquidity' = [solverLiquidity EXCEPT ![s] = m]
  BY <1>2
<1> QED
  BY <1>3, <1>4, SettlerTypes

LEMMA EthMoves ==
  ASSUME SettlerInv, NEW s \in Solvers, NEW n \in Int, solverETH[s] + n >= 0,
         solverETH' = [solverETH EXCEPT ![s] = @ + n]
  PROVE  /\ solverETH' \in [Solvers -> Nat]
         /\ \A z \in Solvers \ {s} : solverETH'[z] = solverETH[z]
         /\ solverETH'[s] - solverETH[s] = n
<1>1. solverETH[s] \in Nat
  BY SettlerTypes
<1> QED
  BY <1>1, SettlerTypes

LEMMA LiquiditySame ==
  ASSUME SettlerInv, NEW s \in Solvers, UNCHANGED solverLiquidity
  PROVE  /\ solverLiquidity' \in [Solvers -> [Tokens -> Nat]]
         /\ \A u \in Tokens : solverLiquidity'[s][u] - solverLiquidity[s][u] = 0
<1>1. \A u \in Tokens : solverLiquidity[s][u] \in Int
  BY SettlerTypes
<1> QED
  BY <1>1, SettlerTypes

(* In ETH the settler gains m, and the solver a credit of n, at most m.    *)
EthMove(s, m, n) ==
  /\ m \in Int /\ n \in Int /\ m >= n
  /\ held' \in [O!Assets -> Int] /\ held'[ETH] - held[ETH] = m
  /\ solverETH[s] + n >= 0 /\ solverETH' = [solverETH EXCEPT ![s] = @ + n]

(* In token t both change by k, in the other tokens nothing does.          *)
TokenMove(s, t, k) ==
  /\ k \in Int /\ held'[t] - held[t] = k
  /\ \A u \in Tokens \ {t} : held'[u] - held[u] = 0
  /\ solverLiquidity[s][t] + k >= 0
  /\ solverLiquidity' = [solverLiquidity EXCEPT ![s][t] = @ + k]
NoTokenMove ==
  UNCHANGED solverLiquidity /\ \A u \in Tokens : held'[u] - held[u] = 0

LEMMA EthOnly ==
  ASSUME SettlerInv, NEW s \in Solvers, NEW m, NEW n, EthMove(s, m, n), NoTokenMove
  PROVE  CreditsMove(s)
<1>1. /\ solverETH' \in [Solvers -> Nat]
      /\ \A z \in Solvers \ {s} : solverETH'[z] = solverETH[z]
      /\ solverETH'[s] - solverETH[s] = n
  BY EthMoves DEF EthMove
<1>2. /\ solverLiquidity' \in [Solvers -> [Tokens -> Nat]]
      /\ \A u \in Tokens : solverLiquidity'[s][u] - solverLiquidity[s][u] = 0
      /\ UNCHANGED solverLiquidity
  BY LiquiditySame DEF NoTokenMove
<1>3. held'[ETH] - held[ETH] >= solverETH'[s] - solverETH[s]
  BY <1>1 DEF EthMove
<1> QED
  BY <1>1, <1>2, <1>3 DEF CreditsMove, EthMove, NoTokenMove

LEMMA TokenAndEth ==
  ASSUME SettlerInv, NEW s \in Solvers, NEW m, NEW n, EthMove(s, m, n),
         NEW t \in Tokens, NEW k, TokenMove(s, t, k)
  PROVE  CreditsMove(s)
<1>1. /\ solverETH' \in [Solvers -> Nat]
      /\ \A z \in Solvers \ {s} : solverETH'[z] = solverETH[z]
      /\ solverETH'[s] - solverETH[s] = n
  BY EthMoves DEF EthMove
<1>2. /\ solverLiquidity' \in [Solvers -> [Tokens -> Nat]]
      /\ \A z \in Solvers \ {s} : solverLiquidity'[z] = solverLiquidity[z]
      /\ solverLiquidity'[s][t] - solverLiquidity[s][t] = k
      /\ \A u \in Tokens \ {t} : solverLiquidity'[s][u] - solverLiquidity[s][u] = 0
  BY LiquidityMoves DEF TokenMove
<1>3. held'[ETH] - held[ETH] >= solverETH'[s] - solverETH[s]
  BY <1>1 DEF EthMove
<1>4. ASSUME NEW u \in Tokens
      PROVE  held'[u] - held[u] = solverLiquidity'[s][u] - solverLiquidity[s][u]
  BY <1>2 DEF TokenMove
<1> QED
  BY <1>1, <1>2, <1>3, <1>4 DEF CreditsMove, EthMove

(* A step that leaves the credit in ETH, and one that uses some of it.     *)
LEMMA SameETH ==
  ASSUME SettlerInv, NEW s \in Solvers, UNCHANGED solverETH
  PROVE  solverETH[s] + 0 >= 0 /\ solverETH' = [solverETH EXCEPT ![s] = @ + 0]
<1>1. solverETH[s] \in Nat
  BY SettlerTypes
<1> QED
  BY <1>1, SettlerTypes

LEMMA LessETH ==
  ASSUME SettlerInv, NEW s \in Solvers, NEW n \in Nat, solverETH[s] >= n,
         solverETH' = [solverETH EXCEPT ![s] = @ - n]
  PROVE  solverETH[s] + (-n) >= 0 /\ solverETH' = [solverETH EXCEPT ![s] = @ + (-n)]
<1>1. solverETH[s] \in Nat
  BY SettlerTypes
<1>2. solverETH[s] - n = solverETH[s] + (-n) /\ solverETH[s] + (-n) >= 0
  BY <1>1
<1> QED
  BY <1>2

LEMMA LessLiquidity ==
  ASSUME SettlerInv, NEW s \in Solvers, NEW t \in Tokens, NEW n \in Nat,
         solverLiquidity[s][t] >= n,
         solverLiquidity' = [solverLiquidity EXCEPT ![s][t] = @ - n]
  PROVE  /\ solverLiquidity[s][t] + (-n) >= 0
         /\ solverLiquidity' = [solverLiquidity EXCEPT ![s][t] = @ + (-n)]
<1>1. solverLiquidity[s][t] \in Nat
  BY SettlerTypes
<1>2. /\ solverLiquidity[s][t] - n = solverLiquidity[s][t] + (-n)
      /\ solverLiquidity[s][t] + (-n) >= 0
  BY <1>1
<1> QED
  BY <1>2

-----------------------------------------------------------------------------
(* Deposits, withdrawals and ETH that is just sent.                        *)

LEMMA DepositLiquidityOK ==
  ASSUME SettlerInv, NEW s \in Solvers, NEW t \in Tokens, NEW n \in Nat,
         O!DepositLiquidity(s, t, n)
  PROVE  SettlerInv'
<1>1. /\ O!PayIn(s, t, n) /\ UNCHANGED <<solverETH, fillRecords>>
      /\ solverLiquidity' = [solverLiquidity EXCEPT ![s][t] = @ + n]
  BY DEF O!DepositLiquidity
<1>2. /\ solverLiquidity[s][t] \in Nat /\ t \in O!Assets
      /\ ETH \in O!Assets \ {t} /\ Tokens \subseteq O!Assets
  BY SettlerTypes
<1>3. /\ held' \in [O!Assets -> Int] /\ held'[t] - held[t] = n
      /\ \A u \in O!Assets \ {t} : held'[u] - held[u] = 0
  BY <1>1, <1>2, PayInOK
<1>4. EthMove(s, 0, 0)
  BY <1>1, <1>2, <1>3, SameETH DEF EthMove
<1>5. TokenMove(s, t, n)
  BY <1>1, <1>2, <1>3 DEF TokenMove
<1>6. CreditsMove(s)
  BY <1>4, <1>5, TokenAndEth
<1> QED
  BY <1>1, <1>2, <1>6, PayInOK, QuietStep

LEMMA WithdrawLiquidityOK ==
  ASSUME SettlerInv, NEW s \in Solvers, NEW t \in Tokens, NEW n \in Nat,
         O!WithdrawLiquidity(s, t, n)
  PROVE  SettlerInv'
<1>1. /\ O!PayOut(s, t, n) /\ UNCHANGED <<solverETH, fillRecords>>
      /\ solverLiquidity[s][t] >= n
      /\ solverLiquidity' = [solverLiquidity EXCEPT ![s][t] = @ - n]
  BY DEF O!WithdrawLiquidity
<1>2. t \in O!Assets /\ ETH \in O!Assets \ {t} /\ Tokens \subseteq O!Assets
  BY SettlerTypes
<1>3. /\ held' \in [O!Assets -> Int] /\ held'[t] - held[t] = -n
      /\ \A u \in O!Assets \ {t} : held'[u] - held[u] = 0
  BY <1>1, <1>2, PayOutOK
<1>4. EthMove(s, 0, 0)
  BY <1>1, <1>2, <1>3, SameETH DEF EthMove
<1>5. TokenMove(s, t, -n)
  <2>1. -n \in Int /\ Tokens \ {t} \subseteq O!Assets \ {t}
    BY <1>2
  <2>2. /\ solverLiquidity[s][t] + (-n) >= 0
        /\ solverLiquidity' = [solverLiquidity EXCEPT ![s][t] = @ + (-n)]
    BY <1>1, LessLiquidity
  <2> QED
    BY <1>3, <2>1, <2>2, Zenon DEF TokenMove
<1>6. CreditsMove(s)
  BY <1>4, <1>5, TokenAndEth
<1> QED
  BY <1>1, <1>2, <1>6, PayOutOK, QuietStep

LEMMA DepositETHOK ==
  ASSUME SettlerInv, NEW s \in Solvers, NEW n \in Nat, O!DepositETH(s, n)
  PROVE  SettlerInv'
<1>1. /\ O!PayIn(s, ETH, n) /\ UNCHANGED <<solverLiquidity, fillRecords>>
      /\ solverETH' = [solverETH EXCEPT ![s] = @ + n]
  BY DEF O!DepositETH
<1>2. solverETH[s] \in Nat /\ ETH \in O!Assets /\ Tokens \subseteq O!Assets \ {ETH}
  BY SettlerTypes
<1>3. /\ held' \in [O!Assets -> Int] /\ held'[ETH] - held[ETH] = n
      /\ \A u \in Tokens : held'[u] - held[u] = 0
  BY <1>1, <1>2, PayInOK
<1>4. EthMove(s, n, n)
  BY <1>1, <1>2, <1>3 DEF EthMove
<1>5. CreditsMove(s)
  BY <1>1, <1>3, <1>4, EthOnly DEF NoTokenMove
<1> QED
  BY <1>1, <1>2, <1>5, PayInOK, QuietStep

LEMMA WithdrawETHOK ==
  ASSUME SettlerInv, NEW s \in Solvers, NEW n \in Nat, O!WithdrawETH(s, n)
  PROVE  SettlerInv'
<1>1. /\ O!PayOut(s, ETH, n) /\ UNCHANGED <<solverLiquidity, fillRecords>>
      /\ solverETH[s] >= n /\ solverETH' = [solverETH EXCEPT ![s] = @ - n]
  BY DEF O!WithdrawETH
<1>2. ETH \in O!Assets /\ Tokens \subseteq O!Assets \ {ETH}
  BY SettlerTypes
<1>3. /\ held' \in [O!Assets -> Int] /\ held'[ETH] - held[ETH] = -n
      /\ \A u \in Tokens : held'[u] - held[u] = 0
  BY <1>1, <1>2, PayOutOK
<1>4. EthMove(s, -n, -n)
  <2>1. -n \in Int /\ -n >= -n
    OBVIOUS
  <2>2. solverETH[s] + (-n) >= 0 /\ solverETH' = [solverETH EXCEPT ![s] = @ + (-n)]
    BY <1>1, LessETH
  <2> QED
    BY <1>3, <2>1, <2>2, Zenon DEF EthMove
<1>5. CreditsMove(s)
  BY <1>1, <1>3, <1>4, EthOnly DEF NoTokenMove
<1> QED
  BY <1>1, <1>2, <1>5, PayOutOK, QuietStep

LEMMA ReceiveOK ==
  ASSUME SettlerInv, NEW s \in Solvers, NEW n \in Nat, O!Receive(s, n)
  PROVE  SettlerInv'
<1>1. O!PayIn(s, ETH, n) /\ UNCHANGED <<solverLiquidity, solverETH, fillRecords>>
  BY DEF O!Receive
<1>2. ETH \in O!Assets /\ Tokens \subseteq O!Assets \ {ETH}
  BY SettlerTypes
<1>3. /\ held' \in [O!Assets -> Int] /\ held'[ETH] - held[ETH] = n
      /\ \A u \in Tokens : held'[u] - held[u] = 0
  BY <1>1, <1>2, PayInOK
<1>4. EthMove(s, n, 0)
  BY <1>1, <1>3, SameETH DEF EthMove
<1>5. CreditsMove(s)
  BY <1>1, <1>3, <1>4, EthOnly DEF NoTokenMove
<1> QED
  BY <1>1, <1>2, <1>5, PayInOK, QuietStep

-----------------------------------------------------------------------------
(* The paths of fill and fillDirect.  The solver pays an amount of ETH     *)
(* and, on one path, of the token; the recipient receives.                 *)

LEMMA FillFacts ==
  ASSUME SettlerInv, NEW s \in Solvers, NEW r \in Recipients
  PROVE  /\ s \in O!Holders /\ r \in O!Holders /\ wallet \in Wallets
         /\ wallet[s][ETH] \in Nat /\ ETH \in O!Assets
         /\ \A z \in Recipients \ Solvers, u \in O!Assets :
              z \in O!Holders \ {s} /\ wallet[z][u] \in Nat
         /\ \A u \in O!Assets : held[u] \in Int
         /\ Tokens \subseteq O!Assets \ {ETH} /\ solverETH[s] \in Nat
BY SettlerTypes DEF Wallets, Money

LEMMA DebitCredit ==
  ASSUME SettlerInv, NEW s \in Solvers, NEW r \in Recipients, NEW n \in Nat,
         wallet[s][ETH] >= n, NEW t \in O!Assets, NEW k \in Nat,
         NEW v, v = O!Credit(O!Debit(wallet, s, ETH, n), r, t, k)
  PROVE  /\ v \in Wallets
         /\ \A z \in Recipients \ Solvers, u \in O!Assets :
              v[z][u] = wallet[z][u] + (IF z = r /\ u = t THEN k ELSE 0)
<1>1. PICK w : w = O!Debit(wallet, s, ETH, n)
  OBVIOUS
<1>2. w \in Wallets /\ \A z \in O!Holders \ {s} : w[z] = wallet[z]
  BY <1>1, FillFacts, DebitOK
<1>3. /\ v \in Wallets /\ \A z \in O!Holders \ {r} : v[z] = w[z]
      /\ \A u \in O!Assets : v[r][u] = w[r][u] + (IF u = t THEN k ELSE 0)
  <2>1. v = O!Credit(w, r, t, k) /\ r \in O!Holders
    BY <1>1, FillFacts
  <2> QED
    BY <1>2, <2>1, CreditOK
<1> QED
  BY <1>2, <1>3, FillFacts

LEMMA FillNativeSentOK ==
  ASSUME SettlerInv, NEW s \in Solvers, NEW id \in Ids, NEW n \in Nat,
         NEW r \in Recipients, NEW gas \in Nat, NEW value \in Nat,
         O!FillNativeSent(s, id, n, r, gas, value)
  PROVE  SettlerInv'
<1>0. PICK k \in Nat : k = n + gas
  OBVIOUS
<1>1. /\ O!RecordFill(s, id, ETH, n, r, gas)
      /\ wallet[s][ETH] >= value /\ value >= k
      /\ wallet' = O!Credit(O!Debit(wallet, s, ETH, k), r, ETH, k)
      /\ UNCHANGED <<solverLiquidity, solverETH, held>>
  BY <1>0 DEF O!FillNativeSent
<1>2. CreditsMove(s)
  <2>1. /\ held' \in [O!Assets -> Int] /\ held'[ETH] - held[ETH] = 0
        /\ \A u \in Tokens : held'[u] - held[u] = 0
    BY <1>1, FillFacts, SettlerTypes DEF Money
  <2>2. EthMove(s, 0, 0)
    BY <1>1, <2>1, SameETH DEF EthMove
  <2> QED
    BY <1>1, <2>1, <2>2, EthOnly DEF NoTokenMove
<1>3. /\ wallet' \in Wallets
      /\ \A z \in Recipients \ Solvers, u \in O!Assets :
           wallet'[z][u] = wallet[z][u] + (IF z = r /\ u = ETH THEN k ELSE 0)
  <2>1. wallet[s][ETH] >= k /\ ETH \in O!Assets
    BY <1>1, FillFacts
  <2> QED
    BY <1>1, <2>1, DebitCredit
<1>4. ASSUME NEW z \in Recipients \ Solvers, NEW u \in O!Assets
      PROVE  wallet'[z][u] = wallet[z][u] + Part(z, u, r, ETH, n, gas)
  BY <1>0, <1>3 DEF Part
<1> QED
  BY <1>1, <1>2, <1>3, <1>4, FillStep, FillFacts

LEMMA FillNativeDepositedOK ==
  ASSUME SettlerInv, NEW s \in Solvers, NEW id \in Ids, NEW n \in Nat,
         NEW r \in Recipients, NEW gas \in Nat, NEW value \in Nat,
         O!FillNativeDeposited(s, id, n, r, gas, value)
  PROVE  SettlerInv'
<1>0. PICK k \in Nat : k = n + gas
  OBVIOUS
<1>1. /\ O!RecordFill(s, id, ETH, n, r, gas)
      /\ wallet[s][ETH] >= value /\ solverETH[s] >= k
      /\ solverETH' = [solverETH EXCEPT ![s] = @ - k]
      /\ wallet' = O!Credit(O!Debit(wallet, s, ETH, value), r, ETH, k)
      /\ held' = [held EXCEPT ![ETH] = @ + value - k]
      /\ UNCHANGED solverLiquidity
  BY <1>0 DEF O!FillNativeDeposited
<1>2. CreditsMove(s)
  <2>1. /\ held' \in [O!Assets -> Int] /\ held'[ETH] - held[ETH] = value - k
        /\ \A u \in Tokens : held'[u] - held[u] = 0
    <3>1. PICK m \in Int : m = held[ETH] + value - k
      BY FillFacts
    <3>2. held' = [held EXCEPT ![ETH] = m]
      BY <1>1, <3>1
    <3> QED
      BY <3>1, <3>2, FillFacts, SettlerTypes DEF Money
  <2>2. EthMove(s, value - k, -k)
    <3>1. value - k \in Int /\ -k \in Int /\ value - k >= -k
      OBVIOUS
    <3>2. solverETH[s] + (-k) >= 0 /\ solverETH' = [solverETH EXCEPT ![s] = @ + (-k)]
      BY <1>1, LessETH
    <3> QED
      BY <2>1, <3>1, <3>2, Zenon DEF EthMove
  <2> QED
    BY <1>1, <2>1, <2>2, EthOnly DEF NoTokenMove
<1>3. /\ wallet' \in Wallets
      /\ \A z \in Recipients \ Solvers, u \in O!Assets :
           wallet'[z][u] = wallet[z][u] + (IF z = r /\ u = ETH THEN k ELSE 0)
  BY <1>1, DebitCredit, FillFacts
<1>4. ASSUME NEW z \in Recipients \ Solvers, NEW u \in O!Assets
      PROVE  wallet'[z][u] = wallet[z][u] + Part(z, u, r, ETH, n, gas)
  BY <1>0, <1>3 DEF Part
<1> QED
  BY <1>1, <1>2, <1>3, <1>4, FillStep, FillFacts

LEMMA FillTokenOK ==
  ASSUME SettlerInv, NEW s \in Solvers, NEW id \in Ids, NEW t \in Tokens,
         NEW n \in Nat, NEW r \in Recipients, NEW gas \in Nat, NEW value \in Nat,
         O!FillToken(s, id, t, n, r, gas, value)
  PROVE  SettlerInv'
<1>0. t \in O!Assets /\ t # ETH
  BY FillFacts
<1>1. /\ O!RecordFill(s, id, t, n, r, gas)
      /\ wallet[s][ETH] >= value /\ solverLiquidity[s][t] >= n /\ solverETH[s] >= gas
      /\ solverLiquidity' = [solverLiquidity EXCEPT ![s][t] = @ - n]
      /\ solverETH' = [solverETH EXCEPT ![s] = @ - gas]
      /\ wallet' = O!Credit(O!Credit(O!Debit(wallet, s, ETH, value), r, ETH, gas),
                            r, t, n)
      /\ held' = [held EXCEPT ![ETH] = @ + value - gas, ![t] = @ - n]
  BY DEF O!FillToken
<1>2. CreditsMove(s)
  <2>1. /\ held' \in [O!Assets -> Int] /\ held'[ETH] - held[ETH] = value - gas
        /\ held'[t] - held[t] = -n
        /\ \A u \in Tokens \ {t} : held'[u] - held[u] = 0
    <3>1. PICK m, l \in Int : m = held[ETH] + value - gas /\ l = held[t] - n
      BY <1>0, FillFacts
    <3>2. held' = [held EXCEPT ![ETH] = m, ![t] = l]
      BY <1>0, <1>1, <3>1
    <3> QED
      BY <1>0, <3>1, <3>2, FillFacts, SettlerTypes DEF Money
  <2>2. EthMove(s, value - gas, -gas)
    <3>1. value - gas \in Int /\ -gas \in Int /\ value - gas >= -gas
      OBVIOUS
    <3>2. /\ solverETH[s] + (-gas) >= 0
          /\ solverETH' = [solverETH EXCEPT ![s] = @ + (-gas)]
      BY <1>1, LessETH
    <3> QED
      BY <2>1, <3>1, <3>2, Zenon DEF EthMove
  <2>3. TokenMove(s, t, -n)
    <3>1. -n \in Int
      OBVIOUS
    <3>2. /\ solverLiquidity[s][t] + (-n) >= 0
          /\ solverLiquidity' = [solverLiquidity EXCEPT ![s][t] = @ + (-n)]
      BY <1>1, LessLiquidity
    <3> QED
      BY <2>1, <3>1, <3>2, Zenon DEF TokenMove
  <2> QED
    BY <2>2, <2>3, TokenAndEth
<1>3. PICK v : v = O!Credit(O!Debit(wallet, s, ETH, value), r, ETH, gas)
  OBVIOUS
<1>4. /\ v \in Wallets
      /\ \A z \in Recipients \ Solvers, u \in O!Assets :
           v[z][u] = wallet[z][u] + (IF z = r /\ u = ETH THEN gas ELSE 0)
  BY <1>1, <1>3, DebitCredit, FillFacts
<1>5. /\ wallet' \in Wallets /\ \A z \in O!Holders \ {r} : wallet'[z] = v[z]
      /\ \A u \in O!Assets : wallet'[r][u] = v[r][u] + (IF u = t THEN n ELSE 0)
  <2>1. wallet' = O!Credit(v, r, t, n) /\ r \in O!Holders
    BY <1>1, <1>3, FillFacts
  <2> QED
    BY <1>0, <1>4, <2>1, CreditOK
<1>6. ASSUME NEW z \in Recipients \ Solvers, NEW u \in O!Assets
      PROVE  wallet'[z][u] = wallet[z][u] + Part(z, u, r, t, n, gas)
  <2>1. z \in O!Holders /\ wallet[z][u] \in Nat
    BY FillFacts
  <2>2. v[z][u] = wallet[z][u] + (IF z = r /\ u = ETH THEN gas ELSE 0)
    BY <1>4
  <2>3. wallet'[z][u] = v[z][u] + (IF z = r /\ u = t THEN n ELSE 0)
    <3>1. v[z][u] \in Int
      BY <2>1, <2>2
    <3> QED
      BY <1>5, <2>1, <3>1
  <2> QED
    BY <2>1, <2>2, <2>3 DEF Part
<1> QED
  BY <1>0, <1>1, <1>2, <1>5, <1>6, FillStep

LEMMA FillDirectNativeOK ==
  ASSUME SettlerInv, NEW s \in Solvers, NEW id \in Ids, NEW n \in Nat,
         NEW r \in Recipients, NEW value \in Nat,
         O!FillDirectNative(s, id, n, r, value)
  PROVE  SettlerInv'
<1>1. /\ O!RecordFill(s, id, ETH, n, r, 0)
      /\ wallet[s][ETH] >= value /\ value >= n
      /\ wallet' = O!Credit(O!Debit(wallet, s, ETH, n), r, ETH, n)
      /\ UNCHANGED <<solverLiquidity, solverETH, held>>
  BY DEF O!FillDirectNative
<1>2. CreditsMove(s)
  <2>1. /\ held' \in [O!Assets -> Int] /\ held'[ETH] - held[ETH] = 0
        /\ \A u \in Tokens : held'[u] - held[u] = 0
    BY <1>1, FillFacts, SettlerTypes DEF Money
  <2>2. EthMove(s, 0, 0)
    BY <1>1, <2>1, SameETH DEF EthMove
  <2> QED
    BY <1>1, <2>1, <2>2, EthOnly DEF NoTokenMove
<1>3. /\ wallet' \in Wallets
      /\ \A z \in Recipients \ Solvers, u \in O!Assets :
           wallet'[z][u] = wallet[z][u] + (IF z = r /\ u = ETH THEN n ELSE 0)
  <2>1. wallet[s][ETH] >= n /\ ETH \in O!Assets
    BY <1>1, FillFacts
  <2> QED
    BY <1>1, <2>1, DebitCredit
<1>4. ASSUME NEW z \in Recipients \ Solvers, NEW u \in O!Assets
      PROVE  wallet'[z][u] = wallet[z][u] + Part(z, u, r, ETH, n, 0)
  BY <1>3 DEF Part
<1> QED
  BY <1>1, <1>2, <1>3, <1>4, FillStep, FillFacts

LEMMA FillDirectTokenOK ==
  ASSUME SettlerInv, NEW s \in Solvers, NEW id \in Ids, NEW t \in Tokens,
         NEW n \in Nat, NEW r \in Recipients, NEW value \in Nat,
         O!FillDirectToken(s, id, t, n, r, value)
  PROVE  SettlerInv'
<1>0. t \in O!Assets /\ t # ETH
  BY FillFacts
<1>1. /\ O!RecordFill(s, id, t, n, r, 0)
      /\ wallet[s][t] >= n /\ wallet[s][ETH] >= value
      /\ wallet' = O!Credit(O!Debit(O!Debit(wallet, s, ETH, value), s, t, n), r, t, n)
      /\ held' = [held EXCEPT ![ETH] = @ + value]
      /\ UNCHANGED <<solverLiquidity, solverETH>>
  BY DEF O!FillDirectToken
<1>2. CreditsMove(s)
  <2>1. /\ held' \in [O!Assets -> Int] /\ held'[ETH] - held[ETH] = value
        /\ \A u \in Tokens : held'[u] - held[u] = 0
    <3>1. PICK m \in Int : m = held[ETH] + value
      BY FillFacts
    <3>2. held' = [held EXCEPT ![ETH] = m]
      BY <1>1, <3>1
    <3> QED
      BY <3>1, <3>2, FillFacts, SettlerTypes DEF Money
  <2>2. EthMove(s, value, 0)
    BY <1>1, <2>1, SameETH DEF EthMove
  <2> QED
    BY <1>1, <2>1, <2>2, EthOnly DEF NoTokenMove
<1>3. PICK v, w : v = O!Debit(wallet, s, ETH, value) /\ w = O!Debit(v, s, t, n)
  OBVIOUS
<1>4. /\ v \in Wallets /\ \A z \in O!Holders \ {s} : v[z] = wallet[z]
      /\ v[s][t] = wallet[s][t]
  BY <1>0, <1>1, <1>3, DebitOK, FillFacts
<1>5. w \in Wallets /\ \A z \in O!Holders \ {s} : w[z] = v[z]
  BY <1>0, <1>1, <1>3, <1>4, DebitOK, FillFacts
<1>6. /\ wallet' \in Wallets /\ \A z \in O!Holders \ {r} : wallet'[z] = w[z]
      /\ \A u \in O!Assets : wallet'[r][u] = w[r][u] + (IF u = t THEN n ELSE 0)
  <2>1. wallet' = O!Credit(w, r, t, n) /\ r \in O!Holders
    BY <1>1, <1>3, FillFacts
  <2> QED
    BY <1>0, <1>5, <2>1, CreditOK
<1>7. ASSUME NEW z \in Recipients \ Solvers, NEW u \in O!Assets
      PROVE  wallet'[z][u] = wallet[z][u] + Part(z, u, r, t, n, 0)
  <2>1. z \in O!Holders \ {s} /\ wallet[z][u] \in Nat /\ w[z] = wallet[z]
    BY <1>4, <1>5, FillFacts
  <2>2. wallet'[z][u] = wallet[z][u] + (IF z = r /\ u = t THEN n ELSE 0)
    BY <1>6, <2>1
  <2> QED
    BY <2>1, <2>2 DEF Part
<1> QED
  BY <1>0, <1>1, <1>2, <1>6, <1>7, FillStep

(* No transaction of the destination chain breaks the settler's invariant. *)
LEMMA SettlerStep ==
  ASSUME SettlerInv, O!Next
  PROVE  SettlerInv'
<1>1. PICK s \in Solvers, n \in Amounts :
        \/ \E t \in Tokens : O!DepositLiquidity(s, t, n) \/ O!WithdrawLiquidity(s, t, n)
        \/ O!DepositETH(s, n) \/ O!WithdrawETH(s, n) \/ O!Receive(s, n)
        \/ \E id \in Ids, r \in Recipients, value \in Amounts :
             \/ \E gas \in Amounts : O!Fill(s, id, n, r, gas, value)
             \/ \E t \in O!Assets : O!FillDirect(s, id, t, n, r, value)
  BY Zenon DEF O!Next
<1>2. n \in Nat /\ Amounts \subseteq Nat
  BY AssetFacts
<1>3. CASE \E t \in Tokens : O!DepositLiquidity(s, t, n) \/ O!WithdrawLiquidity(s, t, n)
  BY <1>2, <1>3, DepositLiquidityOK, WithdrawLiquidityOK
<1>4. CASE O!DepositETH(s, n) \/ O!WithdrawETH(s, n) \/ O!Receive(s, n)
  BY <1>2, <1>4, DepositETHOK, WithdrawETHOK, ReceiveOK
<1>5. ASSUME NEW id \in Ids, NEW r \in Recipients, NEW value \in Amounts,
             NEW gas \in Amounts, O!Fill(s, id, n, r, gas, value)
      PROVE  SettlerInv'
  <2>1. value \in Nat /\ gas \in Nat
    BY <1>2
  <2> QED
    BY <1>2, <1>5, <2>1, FillNativeSentOK, FillNativeDepositedOK, FillTokenOK
       DEF O!Fill
<1>6. ASSUME NEW id \in Ids, NEW r \in Recipients, NEW value \in Amounts,
             NEW t \in O!Assets, O!FillDirect(s, id, t, n, r, value)
      PROVE  SettlerInv'
  <2>1. value \in Nat /\ (t = ETH \/ t \in Tokens)
    BY <1>2, AssetFacts
  <2> QED
    BY <1>2, <1>6, <2>1, FillDirectNativeOK, FillDirectTokenOK DEF O!FillDirect
<1> QED
  BY <1>1, <1>3, <1>4, <1>5, <1>6

(* A step that leaves the destination chain alone.                         *)
LEMMA SettlerRests ==
  ASSUME SettlerInv, UNCHANGED outputVars
  PROVE  SettlerInv'
<1>1. O!TypeOK'
  BY DEF SettlerInv, O!TypeOK, outputVars
<1>2. O!Backed'
  BY Zenon DEF SettlerInv, O!Backed, outputVars
<1>3. wallet' = wallet /\ fillRecords' = fillRecords
  BY DEF outputVars
<1>4. ASSUME NEW r, NEW t
      PROVE  /\ O!Delivered(r, t)' = O!Delivered(r, t)
             /\ O!GasDelivered(r)' = O!GasDelivered(r)
  BY <1>3, Zenon DEF O!Delivered, O!GasDelivered, O!Receives, O!IsFilled
<1>5. O!RecipientsPaidOnce'
  BY <1>3, <1>4 DEF SettlerInv, O!RecipientsPaidOnce
<1> QED
  BY <1>1, <1>2, <1>5 DEF SettlerInv

(* A filled order stays filled.                                            *)
LEMMA FillsStay ==
  ASSUME O!TypeOK, O!Next \/ UNCHANGED outputVars
  PROVE  \A id \in Ids : O!IsFilled(id) => O!IsFilled(id)'
<1>1. ASSUME NEW s \in Solvers, NEW id \in Ids, NEW t \in O!Assets, NEW n \in Amounts,
             NEW r \in Recipients, NEW gas \in Nat,
             O!RecordFill(s, id, t, n, r, gas), NEW j \in Ids, O!IsFilled(j)
      PROVE  O!IsFilled(j)'
  <2>1. j # id /\ fillRecords'[j] = fillRecords[j]
    BY <1>1 DEF O!RecordFill, O!IsFilled, O!TypeOK
  <2> QED
    BY <1>1, <2>1 DEF O!IsFilled
<1>2. CASE UNCHANGED fillRecords
  BY <1>2 DEF O!IsFilled
<1>3. ASSUME NEW s \in Solvers, NEW n \in Amounts, NEW id \in Ids,
             NEW r \in Recipients, NEW value \in Amounts,
             \/ \E gas \in Amounts : O!Fill(s, id, n, r, gas, value)
             \/ \E t \in O!Assets : O!FillDirect(s, id, t, n, r, value)
      PROVE  \E t \in O!Assets, gas \in Nat : O!RecordFill(s, id, t, n, r, gas)
  <2>1. ETH \in O!Assets /\ Tokens \subseteq O!Assets /\ Amounts \subseteq Nat /\ 0 \in Nat
    BY AssetFacts
  <2> QED
    BY <1>3, <2>1, Zenon DEF O!Fill, O!FillNativeSent, O!FillNativeDeposited,
       O!FillToken, O!FillDirect, O!FillDirectNative, O!FillDirectToken
<1>4. CASE UNCHANGED outputVars
  BY <1>2, <1>4 DEF outputVars
<1>5. CASE O!Next
  <2>1. PICK s \in Solvers, n \in Amounts :
          \/ \E t \in Tokens : \/ O!DepositLiquidity(s, t, n)
                               \/ O!WithdrawLiquidity(s, t, n)
          \/ O!DepositETH(s, n) \/ O!WithdrawETH(s, n) \/ O!Receive(s, n)
          \/ \E id \in Ids, r \in Recipients, value \in Amounts :
               \/ \E gas \in Amounts : O!Fill(s, id, n, r, gas, value)
               \/ \E t \in O!Assets : O!FillDirect(s, id, t, n, r, value)
    BY <1>5, Zenon DEF O!Next
  <2>2. CASE \/ \E t \in Tokens : \/ O!DepositLiquidity(s, t, n)
                                  \/ O!WithdrawLiquidity(s, t, n)
             \/ O!DepositETH(s, n) \/ O!WithdrawETH(s, n) \/ O!Receive(s, n)
    <3>1. UNCHANGED fillRecords
      BY <2>2, Zenon DEF O!DepositLiquidity, O!WithdrawLiquidity, O!DepositETH,
         O!WithdrawETH, O!Receive
    <3> QED
      BY <1>2, <3>1
  <2>3. CASE \E id \in Ids, r \in Recipients, value \in Amounts :
               \/ \E gas \in Amounts : O!Fill(s, id, n, r, gas, value)
               \/ \E t \in O!Assets : O!FillDirect(s, id, t, n, r, value)
    BY <1>1, <1>3, <2>3, Zenon
  <2> QED
    BY <2>1, <2>2, <2>3
<1> QED
  BY <1>4, <1>5

-----------------------------------------------------------------------------
(* The oracles.                                                            *)

OracleInv == AttestedWasFilled /\ SentIsFilled /\ TrustsReal
OracleTypes == A!TypeOK /\ unproven \subseteq Oracles \X Ids

(* While the oracles rest, fills only help.                                *)
LEMMA OraclesRest ==
  ASSUME OracleTypes, OracleInv, UNCHANGED <<oracleVars, unproven>>,
         \A id \in Ids : O!IsFilled(id) => O!IsFilled(id)'
  PROVE  OracleTypes' /\ OracleInv'
<1>1. \A m \in sent : m.id \in Ids
  BY DEF OracleTypes, A!TypeOK, A!Messages
<1>2. OracleTypes'
  BY DEF OracleTypes, A!TypeOK, oracleVars
<1>3. AttestedWasFilled' /\ TrustsReal'
  BY DEF OracleInv, AttestedWasFilled, TrustsReal, oracleVars
<1>4. SentIsFilled'
  BY <1>1 DEF OracleInv, SentIsFilled, oracleVars
<1> QED
  BY <1>2, <1>3, <1>4 DEF OracleInv

(* What the oracles know of the destination chain does not change with     *)
(* their own steps.                                                        *)
LEMMA SameFills ==
  ASSUME UNCHANGED outputVars
  PROVE  \A id : O!IsFilled(id)' <=> O!IsFilled(id)
BY DEF O!IsFilled, outputVars

LEMMA DispatchOK ==
  ASSUME OracleTypes, OracleInv, NEW m \in A!Messages, Dispatch(m)
  PROVE  OracleTypes' /\ OracleInv'
<1>1. /\ m.sender = RealSettler => O!IsFilled(m.id)
      /\ m.sender # NoAddress
      /\ sent' = sent \cup {m} /\ UNCHANGED outputVars
      /\ UNCHANGED <<kind, attestations, authorizedAttesters, trusted, domainIds,
                     validSourceChains, switches, processedMessages, unproven>>
  BY DEF Dispatch, A!Send, A!tables
<1>2. OracleTypes'
  BY <1>1 DEF OracleTypes, A!TypeOK
<1>3. AttestedWasFilled' /\ TrustsReal' /\ SentIsFilled'
  BY <1>1, SameFills DEF OracleInv, AttestedWasFilled, TrustsReal, SentIsFilled
<1> QED
  BY <1>2, <1>3 DEF OracleInv

(* An attestation of an order that is covered.                             *)
LEMMA AttestOK ==
  ASSUME OracleTypes, OracleInv, NEW o \in Oracles, NEW id \in Ids,
         O!IsFilled(id) \/ <<o, id>> \in unproven',
         attestations' = [attestations EXCEPT ![o] = @ \cup {id}],
         processedMessages' \in [Oracles -> SUBSET A!Messages],
         unproven \subseteq unproven', unproven' \subseteq Oracles \X Ids,
         UNCHANGED outputVars, UNCHANGED <<kind, A!tables, sent>>
  PROVE  OracleTypes' /\ OracleInv'
<1>1. attestations' \in [Oracles -> SUBSET Ids]
  BY DEF OracleTypes, A!TypeOK
<1>2. UNCHANGED <<kind, authorizedAttesters, trusted, domainIds, validSourceChains,
                  switches, sent>>
  BY DEF A!tables
<1>3. OracleTypes'
  BY <1>1, <1>2 DEF OracleTypes, A!TypeOK
<1>4. AttestedWasFilled'
  <2>1. \A p \in Oracles, j \in Ids :
          j \in attestations'[p] => j \in attestations[p] \/ (p = o /\ j = id)
    BY DEF OracleTypes, A!TypeOK
  <2>2. SUFFICES ASSUME NEW p \in Oracles, NEW j \in Ids, j \in attestations'[p]
                 PROVE  O!IsFilled(j) \/ <<p, j>> \in unproven'
    BY SameFills DEF AttestedWasFilled
  <2>3. CASE j \in attestations[p]
    BY <2>3 DEF OracleInv, AttestedWasFilled
  <2>4. CASE p = o /\ j = id
    BY <2>4
  <2> QED
    BY <2>1, <2>2, <2>3, <2>4
<1>5. TrustsReal' /\ SentIsFilled'
  BY <1>2, SameFills DEF OracleInv, TrustsReal, SentIsFilled
<1> QED
  BY <1>3, <1>4, <1>5 DEF OracleInv

LEMMA TrustedAttestationOK ==
  ASSUME OracleTypes, OracleInv, NEW o \in Oracles, NEW id \in Ids,
         TrustedAttestation(o, id)
  PROVE  OracleTypes' /\ OracleInv'
<1>1. /\ O!IsFilled(id) /\ UNCHANGED outputVars
      /\ attestations' = [attestations EXCEPT ![o] = @ \cup {id}]
      /\ UNCHANGED <<kind, A!tables, sent, unproven, processedMessages>>
  BY Zenon DEF TrustedAttestation, A!SubmitTrusted, A!SubmitManual
<1>2. processedMessages' \in [Oracles -> SUBSET A!Messages]
  BY <1>1 DEF OracleTypes, A!TypeOK
<1>3. unproven \subseteq unproven' /\ unproven' \subseteq Oracles \X Ids
  BY <1>1 DEF OracleTypes
<1> QED
  BY <1>1, <1>2, <1>3, AttestOK

(* A message that was really sent, by whom the table of its origin or of   *)
(* any other chain names, is about a fill.                                 *)
LEMMA TrustedIsFilled ==
  ASSUME OracleInv, NEW o \in Oracles, NEW m \in A!Messages, NEW c \in Chains,
         trusted[o][c] = m.sender, m \in sent
  PROVE  O!IsFilled(m.id) /\ m.id \in Ids
<1>1. m.sender = RealSettler /\ m.id \in Ids
  BY DEF OracleInv, TrustsReal, SentIsFilled, A!Messages
<1> QED
  BY <1>1 DEF OracleInv, SentIsFilled

(* A proof is of a trusted sender under one chain or another.              *)
LEMMA ProofIsTrusted ==
  ASSUME NEW o \in Oracles, NEW id, NEW m \in A!Messages, NEW chain,
         A!ProofOK(o, id, m, chain)
  PROVE  /\ \E c \in Chains : trusted[o][c] = m.sender
         /\ (A!Verifies(o) => m \in sent) /\ m.id = id
<1>1. OriginWord[m.sender] \in Chains /\ m.origin \in Chains
  BY DeliveryAssumption DEF A!OracleAssumption, A!Messages, A!Senders
<1> QED
  BY <1>1 DEF A!ProofOK, A!FromTrustedDomain, A!FromTrustedChain

LEMMA ProvenAttestationOK ==
  ASSUME OracleTypes, OracleInv, NEW o \in Oracles, ProvenAttestation(o)
  PROVE  OracleTypes' /\ OracleInv'
<1>1. PICK a \in Attesters, id \in Ids, m \in A!Messages, chain \in Chains :
        /\ A!SubmitProof(o, a, id, m, chain)
        /\ unproven' = IF A!Verifies(o) THEN unproven
                       ELSE unproven \cup {<<o, id>>}
  BY Zenon DEF ProvenAttestation
<1>2. /\ UNCHANGED outputVars
      /\ A!ProofOK(o, id, m, chain)
      /\ attestations' = [attestations EXCEPT ![o] = @ \cup {id}]
      /\ processedMessages' = [processedMessages EXCEPT ![o] = @ \cup {m}]
      /\ UNCHANGED <<kind, A!tables, sent>>
  BY <1>1, Zenon DEF ProvenAttestation, A!SubmitProof
<1>3. O!IsFilled(id) \/ <<o, id>> \in unproven'
  <2>1. CASE A!Verifies(o)
    BY <1>2, <2>1, ProofIsTrusted, TrustedIsFilled
  <2>2. CASE ~A!Verifies(o)
    BY <1>1, <2>2
  <2> QED
    BY <2>1, <2>2
<1>4. processedMessages' \in [Oracles -> SUBSET A!Messages]
  BY <1>2 DEF OracleTypes, A!TypeOK
<1>5. unproven \subseteq unproven' /\ unproven' \subseteq Oracles \X Ids
  BY <1>1 DEF OracleTypes
<1> QED
  BY <1>2, <1>3, <1>4, <1>5, AttestOK

LEMMA DeliveredAttestationOK ==
  ASSUME OracleTypes, OracleInv, NEW o \in Oracles, DeliveredAttestation(o)
  PROVE  OracleTypes' /\ OracleInv'
<1>1. PICK m \in A!Messages : A!Handle(o, m)
  BY Zenon DEF DeliveredAttestation
<1>2. /\ UNCHANGED <<outputVars, unproven>>
      /\ trusted[o][m.origin] = m.sender /\ m \in sent
      /\ attestations' = [attestations EXCEPT ![o] = @ \cup {m.id}]
      /\ UNCHANGED <<kind, A!tables, sent, processedMessages>>
  BY <1>1, Zenon DEF DeliveredAttestation, A!Handle, A!FromTrusted
<1>3. PICK id \in Ids : id = m.id /\ O!IsFilled(id)
  <2>1. m.origin \in Chains
    BY DEF A!Messages
  <2> QED
    BY <1>2, <2>1, TrustedIsFilled
<1>4. /\ processedMessages' \in [Oracles -> SUBSET A!Messages]
      /\ unproven \subseteq unproven' /\ unproven' \subseteq Oracles \X Ids
  BY <1>2 DEF OracleTypes, A!TypeOK
<1>5. UNCHANGED outputVars /\ attestations' = [attestations EXCEPT ![o] = @ \cup {id}]
  BY <1>2, <1>3
<1> QED
  BY <1>2, <1>3, <1>4, <1>5, AttestOK

(* What the owner changes keeps its type, and it trusts the settler only.  *)
LEMMA ConfigureOK ==
  ASSUME OracleTypes, OracleInv, NEW o \in Oracles, Configure(o)
  PROVE  OracleTypes' /\ OracleInv'
<1>1. /\ UNCHANGED <<outputVars, unproven>>
      /\ UNCHANGED <<kind, attestations, processedMessages, sent>>
  BY Zenon DEF Configure, A!SetAttester, A!SetTrusted, A!SetDomainId,
     A!SetSourceChain, A!SetSwitch
<1> DEFINE Tables ==
      /\ authorizedAttesters' \in [Oracles -> SUBSET Attesters]
      /\ trusted' \in [Oracles -> [Chains -> A!Senders]]
      /\ domainIds' \in [Oracles -> [Chains -> Chains]]
      /\ validSourceChains' \in [Oracles -> SUBSET Chains]
      /\ switches' \in [Oracles -> SUBSET A!Switch]
      /\ TrustsReal'
<1>2. Tables
  <2> USE DEF OracleTypes, A!TypeOK
  <2>0. FillChain \in Chains /\ RealSettler \in A!Senders /\ NoAddress \in A!Senders
    BY DeliveryAssumption DEF A!Senders
  <2>1. ASSUME NEW a \in Attesters, NEW b \in BOOLEAN, A!SetAttester(o, a, b)
        PROVE  Tables
    BY <2>1 DEF A!SetAttester, A!Updated, OracleInv, TrustsReal
  <2>2. ASSUME NEW c \in Chains, NEW s \in {RealSettler, NoAddress}, A!SetTrusted(o, c, s)
        PROVE  Tables
    BY <2>0, <2>2 DEF A!SetTrusted, OracleInv, TrustsReal
  <2>3. ASSUME NEW d \in Chains, A!SetDomainId(o, FillChain, d)
        PROVE  Tables
    BY <2>0, <2>3 DEF A!SetDomainId, OracleInv, TrustsReal
  <2>4. ASSUME NEW b \in BOOLEAN, A!SetSourceChain(o, FillChain, b)
        PROVE  Tables
    BY <2>0, <2>4 DEF A!SetSourceChain, A!Updated, OracleInv, TrustsReal
  <2>5. ASSUME NEW w \in A!Switches(kind[o]), NEW b \in BOOLEAN, A!SetSwitch(o, w, b)
        PROVE  Tables
    BY <2>5 DEF A!SetSwitch, A!Switches, A!Updated, OracleInv, TrustsReal
  <2> QED
    BY <2>1, <2>2, <2>3, <2>4, <2>5, Zenon DEF Configure
<1>3. OracleTypes'
  BY <1>1, <1>2 DEF OracleTypes, A!TypeOK
<1>4. AttestedWasFilled' /\ SentIsFilled'
  BY <1>1, SameFills DEF OracleInv, AttestedWasFilled, SentIsFilled
<1> QED
  BY <1>2, <1>3, <1>4 DEF OracleInv

-----------------------------------------------------------------------------
(* The whole.                                                              *)

LEMMA IInvIs == IInv <=> SettlerInv /\ OracleTypes /\ OracleInv
BY DEF IInv, SettlerInv, OracleTypes, OracleInv, TypeOK, Backed, RecipientsPaidOnce

LEMMA IInvNextIs == IInv' <=> SettlerInv' /\ OracleTypes' /\ OracleInv'
BY DEF IInv, SettlerInv, OracleTypes, OracleInv, TypeOK, Backed, RecipientsPaidOnce

LEMMA InitIInv == Init => IInv
<1> SUFFICES ASSUME Init PROVE IInv
  OBVIOUS
<1>1. /\ solverLiquidity = [s \in Solvers |-> [t \in Tokens |-> 0]]
      /\ solverETH = [s \in Solvers |-> 0] /\ fillRecords = [id \in Ids |-> NoFill]
      /\ wallet = InitialFunds /\ held = [t \in O!Assets |-> 0]
  BY DEF Init, O!Init
<1>2. O!TypeOK
  BY <1>1, AssetFacts DEF O!TypeOK
<1>3. O!Backed
  <2>1. ASSUME NEW t \in O!Assets
        PROVE  Covers(held[t], SumFunction(Credits(t)), t)
    <3>1. PICK f : f = Credits(t)
      BY Zenon
    <3>2. f \in [Solvers -> Int] /\ \A s \in Solvers : f[s] = 0
      BY <1>1, <3>1, AssetFacts DEF Credits
    <3>3. SumFunction(f) = 0
      BY <3>2, SumZero, AssetFacts
    <3> QED
      BY <1>1, <3>1, <3>3 DEF Covers
  <2> QED
    BY <2>1, BackedIs
<1>4. O!RecipientsPaidOnce
  <2>1. ASSUME NEW r \in Recipients \ Solvers, NEW t
        PROVE  O!Delivered(r, t) = 0 /\ O!GasDelivered(r) = 0
    <3>1. PICK f, g : /\ f = [id \in Ids |-> GoodsIn(fillRecords[id], r, t)]
                      /\ g = [id \in Ids |-> GasIn(fillRecords[id], r)]
      OBVIOUS
    <3>2. /\ f \in [Ids -> Int] /\ \A id \in Ids : f[id] = 0
          /\ g \in [Ids -> Int] /\ \A id \in Ids : g[id] = 0
      BY <1>1, <3>1 DEF GoodsIn, GasIn
    <3>3. SumFunction(f) = 0 /\ SumFunction(g) = 0
      BY <3>2, SumZero, AssetFacts
    <3> QED
      BY <3>1, <3>3, DeliveredIs
  <2>2. ASSUME NEW r \in Recipients \ Solvers, NEW t \in O!Assets
        PROVE  InitialFunds[r][t] \in Nat
    <3>1. r \in O!Holders
      BY AssetFacts
    <3> QED
      BY <3>1, AssetFacts
  <2>3. Tokens \subseteq O!Assets /\ ETH \in O!Assets
    BY AssetFacts
  <2> QED
    BY <1>1, <2>1, <2>2, <2>3 DEF O!RecipientsPaidOnce
<1>5. OracleTypes
  <2>1. 0 \in Chains /\ NoAddress \in A!Senders
    BY DeliveryAssumption DEF A!OracleAssumption, A!Senders
  <2>2. switches \in [Oracles -> SUBSET A!Switch]
    BY DEF Init, A!Init, A!Switches
  <2> QED
    BY <2>1, <2>2 DEF Init, A!Init, OracleTypes, A!TypeOK
<1>6. OracleInv
  BY DEF Init, A!Init, OracleInv, AttestedWasFilled, SentIsFilled, TrustsReal
<1> QED
  BY <1>2, <1>3, <1>4, <1>5, <1>6, IInvIs DEF SettlerInv

LEMMA NextIInv == IInv /\ [Next]_vars => IInv'
<1> SUFFICES ASSUME IInv, [Next]_vars PROVE IInv'
  OBVIOUS
<1>0. SettlerInv /\ OracleTypes /\ OracleInv /\ O!TypeOK
  BY IInvIs DEF SettlerInv
<1>1. CASE DestinationStep
  <2>1. SettlerInv' /\ \A id \in Ids : O!IsFilled(id) => O!IsFilled(id)'
    BY <1>0, <1>1, SettlerStep, FillsStay DEF DestinationStep
  <2> QED
    BY <1>0, <1>1, <2>1, OraclesRest, IInvNextIs DEF DestinationStep
<1>2. ASSUME UNCHANGED outputVars, OracleTypes' /\ OracleInv' PROVE IInv'
  BY <1>0, <1>2, SettlerRests, IInvNextIs
<1>3. ASSUME NEW m \in A!Messages, Dispatch(m) PROVE IInv'
  BY <1>0, <1>2, <1>3, DispatchOK DEF Dispatch
<1>4. ASSUME NEW o \in Oracles, NEW id \in Ids, TrustedAttestation(o, id) PROVE IInv'
  BY <1>0, <1>2, <1>4, TrustedAttestationOK DEF TrustedAttestation
<1>5. ASSUME NEW o \in Oracles, ProvenAttestation(o) PROVE IInv'
  BY <1>0, <1>2, <1>5, ProvenAttestationOK DEF ProvenAttestation
<1>6. ASSUME NEW o \in Oracles, Configure(o) PROVE IInv'
  BY <1>0, <1>2, <1>6, ConfigureOK DEF Configure
<1>7. ASSUME NEW o \in Oracles, DeliveredAttestation(o) PROVE IInv'
  BY <1>0, <1>2, <1>7, DeliveredAttestationOK DEF DeliveredAttestation
<1>8. CASE UNCHANGED vars
  <2>1. UNCHANGED outputVars /\ UNCHANGED <<oracleVars, unproven>>
    BY <1>8 DEF vars
  <2>2. OracleTypes' /\ OracleInv'
    BY <1>0, <2>1, OraclesRest, FillsStay
  <2> QED
    BY <1>2, <2>1, <2>2
<1> QED
  BY <1>1, <1>3, <1>4, <1>5, <1>6, <1>7, <1>8, Zenon DEF Next

LEMMA Invariance == Spec => []IInv
BY InitIInv, NextIInv, PTL DEF Spec

(* Type correctness: no withdrawal and no fill takes from the settler or   *)
(* from a wallet what is not there.                                        *)
THEOREM TypeCorrect == Spec => []TypeOK
<1>1. IInv => TypeOK
  BY DEF IInv
<1> QED
  BY <1>1, Invariance, PTL

(* Whatever solvers deposit, withdraw and fill, from deposits or from      *)
(* their wallets, each could withdraw its whole credit at the same time.   *)
THEOREM BackedHolds == Spec => []Backed
<1>1. IInv => Backed
  BY DEF IInv
<1> QED
  BY <1>1, Invariance, PTL

(* A recipient has received exactly what the fill records say, each order  *)
(* once, by whichever path and whichever solver.                           *)
THEOREM RecipientsPaidOnceHolds == Spec => []RecipientsPaidOnce
<1>1. IInv => RecipientsPaidOnce
  BY DEF IInv
<1> QED
  BY <1>1, Invariance, PTL

(* What an oracle attests was filled, whatever is replayed, delayed, sent  *)
(* by others or re-configured, but for the proofs that it did not verify.  *)
THEOREM AttestedWasFilledHolds == Spec => []AttestedWasFilled
<1>1. IInv => AttestedWasFilled
  BY DEF IInv
<1> QED
  BY <1>1, Invariance, PTL
=============================================================================
