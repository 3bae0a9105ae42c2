---------------------- MODULE CrossChainPaymaster_proofs --------------------
(***************************************************************************)
(* Proofs about CrossChainPaymaster, for any assets, users, XLPs, requests *)
(* and fulfilments, fees and delays.                                       *)
(*                                                                         *)
(* IInv joins the type invariant with BooksExplained and with what both    *)
(* need to be inductive: a request is claimed exactly when its voucher was *)
(* issued, and only an issued voucher is claimed for.  Without it a claim  *)
(* could pay for a request that was refunded.                              *)
(***************************************************************************)
EXTENDS CrossChainPaymaster, Sums, TLAPS

IssuedForClaimed ==
  \A r \in Requests :
    /\ voucherRequests[r].created <= block
    /\ vouchers[r].xlp # NoXlp <=> voucherRequests[r].state = "claimed"
    /\ vouchers[r].claimed => vouchers[r].xlp # NoXlp

IInv == TypeOK /\ BooksExplained /\ IssuedForClaimed

-----------------------------------------------------------------------------
(* Amounts of every asset.                                                 *)

Money == [Assets -> Nat]

LEMMA BundleType ==
  ASSUME NEW asset, NEW amount \in Nat, NEW eth \in Nat
  PROVE  Bundle(asset, amount, eth) \in Money
BY DEF Bundle, Money

LEMMA BundleAt ==
  ASSUME NEW asset, NEW amount \in Int, NEW eth \in Int, NEW a \in Assets
  PROVE  Bundle(asset, amount, eth)[a] =
           (IF a = asset THEN amount ELSE 0) + (IF a = ETH THEN eth ELSE 0)
BY DEF Bundle

LEMMA PlusType ==
  ASSUME NEW b \in Money, NEW c \in Money
  PROVE  Plus(b, c) \in Money /\ \A a \in Assets : Plus(b, c)[a] = b[a] + c[a]
BY DEF Plus, Money

LEMMA MinusType ==
  ASSUME NEW b \in Money, NEW c \in Money, Covers(b, c)
  PROVE  Minus(b, c) \in Money /\ \A a \in Assets : Minus(b, c)[a] = b[a] - c[a]
BY DEF Minus, Money, Covers

(* A transfer keeps the types, and changes the balance by its amount.      *)
LEMMA PayInOK ==
  ASSUME TypeOK, NEW who \in Accounts, NEW b \in Money, PayIn(who, b)
  PROVE  /\ balance' \in Money /\ wallet' \in [Accounts -> Money]
         /\ \A a \in Assets : balance'[a] = balance[a] + b[a]
<1>1. /\ balance \in Money /\ wallet \in [Accounts -> Money] /\ wallet[who] \in Money
  BY DEF TypeOK, Money
<1>2. PICK m \in Money : m = Minus(wallet[who], b)
  BY <1>1, MinusType DEF PayIn
<1>3. wallet' = [wallet EXCEPT ![who] = m] /\ balance' = Plus(balance, b)
  BY <1>2 DEF PayIn
<1> QED
  BY <1>1, <1>2, <1>3, PlusType

LEMMA PayOutOK ==
  ASSUME TypeOK, NEW who \in Accounts, NEW b \in Money, PayOut(who, b)
  PROVE  /\ balance' \in Money /\ wallet' \in [Accounts -> Money]
         /\ \A a \in Assets : balance'[a] = balance[a] - b[a]
<1>1. /\ balance \in Money /\ wallet \in [Accounts -> Money] /\ wallet[who] \in Money
  BY DEF TypeOK, Money
<1>2. PICK m \in Money : m = Plus(wallet[who], b)
  BY <1>1, PlusType DEF PayOut
<1>3. wallet' = [wallet EXCEPT ![who] = m] /\ balance' = Minus(balance, b)
      /\ Covers(balance, b)
  BY <1>2 DEF PayOut
<1> QED
  BY <1>1, <1>2, <1>3, MinusType

(* What a division gives is at most q when q times the divisor is enough.  *)
LEMMA DivAtMost ==
  ASSUME NEW n \in Nat, NEW d \in Nat \ {0}, NEW q \in Nat, n <= q * d
  PROVE  n \div d \in 0..q
BY SMT

(* A swap takes no more than there is.                                     *)
LEMMA AmountOutBound ==
  ASSUME NEW amountIn \in Nat, NEW reserveIn \in Nat \ {0}, NEW reserveOut \in Nat
  PROVE  AmountOut(amountIn, reserveIn, reserveOut) \in 0..reserveOut
<1>1. PICK f \in Nat : f = amountIn * (BASIS_POINTS - swapFeeBps)
  <2>1. BASIS_POINTS - swapFeeBps \in Nat
    BY PaymasterAssumption
  <2> QED
    BY <2>1
<1>2. PICK p \in Nat \ {0} : p = reserveIn * BASIS_POINTS
  BY PaymasterAssumption
<1>3. f * reserveOut <= reserveOut * (p + f)
  <2>1. reserveOut * (p + f) = reserveOut * p + f * reserveOut
    BY SMT
  <2>2. reserveOut * p \in Nat /\ f * reserveOut \in Nat
    BY SMT
  <2> QED
    BY <2>1, <2>2
<1>4. f * reserveOut \in Nat /\ p + f \in Nat \ {0}
  BY SMT
<1>5. (f * reserveOut) \div (p + f) \in 0..reserveOut
  BY <1>3, <1>4, DivAtMost
<1> QED
  BY <1>1, <1>2, <1>5 DEF AmountOut

(* The fee of an auction is a number.                                      *)
LEMMA FeeType ==
  ASSUME TypeOK, NEW r \in Requests, voucherRequests[r].created <= block
  PROVE  CurrentFee(r) \in Nat
<1>1. /\ voucherRequests[r].created \in Nat /\ voucherRequests[r].increment \in Nat
      /\ voucherRequests[r].maxFee \in Nat
  BY DEF TypeOK, VoucherRequest
<1>2. block \in Nat /\ MIN_FEE \in Nat
  <2>1. block \in 0..MaxBlock
    BY DEF TypeOK
  <2> QED
    BY <2>1, PaymasterAssumption
<1>3. PICK d \in Nat : d = block - voucherRequests[r].created
  BY <1>1, <1>2
<1>4. PICK e \in Nat : e = MIN_FEE + d * voucherRequests[r].increment
  BY <1>1, <1>2
<1>5. PICK m \in Nat : m = voucherRequests[r].maxFee
  BY <1>1
<1>6. \E x \in {e, m} : \A y \in {e, m} : x <= y
  OBVIOUS
<1>7. Min({e, m}) \in {e, m}
  BY <1>6 DEF Min
<1>8. CurrentFee(r) = Min({e, m})
  BY <1>3, <1>4, <1>5, Zenon DEF CurrentFee
<1> QED
  BY <1>7, <1>8

-----------------------------------------------------------------------------
(* What a request and its voucher add to the sums.                         *)

LockedIn(q, v, a) ==
  IF q.state = "open" \/ (q.state = "claimed" /\ ~v.claimed)
  THEN Bundle(q.asset, q.amount, q.maxFee)[a] ELSE 0
LeftIn(q, v, a) == Bundle(ETH, 0, IF v.claimed THEN q.maxFee - v.fee ELSE 0)[a]
PaidIn(f, fulfilled, a) ==
  IF f \in fulfilled THEN Bundle(f.asset, f.amount, f.gas)[a] ELSE 0

LEMMA InTypes ==
  ASSUME NEW q \in VoucherRequest, NEW v \in Voucher, NEW a \in Assets
  PROVE  /\ LockedIn(q, v, a) \in Nat /\ LeftIn(q, v, a) \in Int
         /\ Bundle(q.asset, q.amount, q.maxFee)[a] \in Nat
         /\ Bundle(q.asset, q.amount, v.fee)[a] \in Nat
<1>1. q.amount \in Nat /\ q.maxFee \in Nat /\ v.fee \in Nat
  BY DEF VoucherRequest, Voucher
<1>2. /\ Bundle(q.asset, q.amount, q.maxFee)[a] \in Nat
      /\ Bundle(q.asset, q.amount, v.fee)[a] \in Nat
  BY <1>1, BundleType DEF Money
<1>3. PICK d \in Int : d = IF v.claimed THEN q.maxFee - v.fee ELSE 0
  BY <1>1
<1>4. Bundle(ETH, 0, d)[a] \in Int
  BY <1>3, BundleAt
<1> QED
  BY <1>2, <1>3, <1>4 DEF LockedIn, LeftIn

LEMMA FulfilmentTypes ==
  ASSUME NEW f \in Fulfilments
  PROVE  /\ f.voucher \in Vouchers /\ f.xlp \in Xlps /\ f.asset \in Assets
         /\ f.recipient \in Accounts
         /\ Bundle(f.asset, f.amount, f.gas) \in Money
<1>1. f \in [voucher : Vouchers, xlp : Xlps, asset : Assets, amount : Nat,
             gas : Nat, recipient : Users]
  BY PaymasterAssumption
<1>2. f.amount \in Nat /\ f.gas \in Nat
  BY <1>1
<1> QED
  BY <1>1, <1>2, BundleType DEF Accounts

LEMMA RequestTypes ==
  ASSUME TypeOK, NEW r \in Requests
  PROVE  /\ voucherRequests[r] \in VoucherRequest /\ vouchers[r] \in Voucher
         /\ voucherRequests[r].user \in Accounts
         /\ vouchers[r].fee \in Nat /\ vouchers[r].xlp \in Xlps \cup {NoXlp}
         /\ Locked(r) \in Money
         /\ Bundle(voucherRequests[r].asset, voucherRequests[r].amount,
                   vouchers[r].fee) \in Money
<1>1. voucherRequests[r] \in VoucherRequest /\ vouchers[r] \in Voucher
  BY DEF TypeOK, Vouchers
<1>2. /\ voucherRequests[r].amount \in Nat /\ voucherRequests[r].maxFee \in Nat
      /\ voucherRequests[r].user \in Users
      /\ vouchers[r].fee \in Nat /\ vouchers[r].xlp \in Xlps \cup {NoXlp}
  BY <1>1 DEF VoucherRequest, Voucher
<1> QED
  BY <1>1, <1>2, BundleType DEF Locked, Accounts

(* The sums are sums of those.                                             *)
LEMMA SumsAre ==
  ASSUME NEW a \in Assets
  PROVE  /\ Owed[a] = SumFunction([r \in Requests |->
                        LockedIn(voucherRequests[r], vouchers[r], a)])
         /\ Leftover[a] = SumFunction([r \in Requests |->
                            LeftIn(voucherRequests[r], vouchers[r], a)])
         /\ PaidOut[a] = SumFunction([f \in Fulfilments |->
                           PaidIn(f, fulfilledVoucherHashes, a)])
<1>1. \A r \in Requests :
        /\ LockedNow(r)[a] = LockedIn(voucherRequests[r], vouchers[r], a)
        /\ FeeLeft(r)[a] = LeftIn(voucherRequests[r], vouchers[r], a)
  BY Zenon DEF LockedNow, Unsettled, Locked, LockedIn, FeeLeft, LeftIn
<1>2. \A f \in Fulfilments : Paid(f)[a] = PaidIn(f, fulfilledVoucherHashes, a)
  BY Zenon DEF Paid, PaidIn
<1>3. /\ [r \in Requests |-> LockedNow(r)[a]] =
           [r \in Requests |-> LockedIn(voucherRequests[r], vouchers[r], a)]
      /\ [r \in Requests |-> FeeLeft(r)[a]] =
           [r \in Requests |-> LeftIn(voucherRequests[r], vouchers[r], a)]
      /\ [f \in Fulfilments |-> Paid(f)[a]] =
           [f \in Fulfilments |-> PaidIn(f, fulfilledVoucherHashes, a)]
  BY <1>1, <1>2, Zenon
<1> QED
  BY <1>3, Zenon DEF Owed, Leftover, PaidOut

LEMMA SumTypes ==
  ASSUME TypeOK, NEW a \in Assets
  PROVE  Owed[a] \in Nat /\ Leftover[a] \in Int /\ PaidOut[a] \in Nat
<1>1. PICK f, g, h :
        /\ f = [r \in Requests |-> LockedIn(voucherRequests[r], vouchers[r], a)]
        /\ g = [r \in Requests |-> LeftIn(voucherRequests[r], vouchers[r], a)]
        /\ h = [p \in Fulfilments |-> PaidIn(p, fulfilledVoucherHashes, a)]
  OBVIOUS
<1>2. f \in [Requests -> Nat] /\ g \in [Requests -> Int]
  BY <1>1, RequestTypes, InTypes
<1>3. h \in [Fulfilments -> Nat]
  BY <1>1, FulfilmentTypes DEF PaidIn, Money
<1>4. SumFunction(f) \in Nat /\ SumFunction(g) \in Int /\ SumFunction(h) \in Nat
  BY <1>2, <1>3, SumNat, SumType, PaymasterAssumption
<1> QED
  BY <1>1, <1>4, SumsAre

(* One request or its voucher changes.                                     *)
LEMMA RequestStep ==
  ASSUME TypeOK, NEW r \in Requests, NEW q \in VoucherRequest, NEW v \in Voucher,
         voucherRequests' = [voucherRequests EXCEPT ![r] = q],
         vouchers' = [vouchers EXCEPT ![r] = v], NEW a \in Assets
  PROVE  /\ Owed'[a] = Owed[a] + (LockedIn(q, v, a)
                                  - LockedIn(voucherRequests[r], vouchers[r], a))
         /\ Leftover'[a] = Leftover[a] + (LeftIn(q, v, a)
                                  - LeftIn(voucherRequests[r], vouchers[r], a))
<1>0. /\ voucherRequests'[r] = q /\ vouchers'[r] = v
      /\ \A s \in Requests \ {r} : /\ voucherRequests'[s] = voucherRequests[s]
                                   /\ vouchers'[s] = vouchers[s]
  BY DEF TypeOK, Vouchers
<1>1. PICK f, g, f1, g1 :
        /\ f = [s \in Requests |-> LockedIn(voucherRequests[s], vouchers[s], a)]
        /\ g = [s \in Requests |-> LeftIn(voucherRequests[s], vouchers[s], a)]
        /\ f1 = [s \in Requests |-> LockedIn(voucherRequests'[s], vouchers'[s], a)]
        /\ g1 = [s \in Requests |-> LeftIn(voucherRequests'[s], vouchers'[s], a)]
  OBVIOUS
<1>2. \A s \in Requests :
        /\ LockedIn(voucherRequests[s], vouchers[s], a) \in Int
        /\ LeftIn(voucherRequests[s], vouchers[s], a) \in Int
  BY RequestTypes, InTypes
<1>3. LockedIn(q, v, a) \in Int /\ LeftIn(q, v, a) \in Int
  BY InTypes
<1>4. /\ f \in [Requests -> Int] /\ g \in [Requests -> Int]
      /\ f1 \in [Requests -> Int] /\ g1 \in [Requests -> Int]
  BY <1>0, <1>1, <1>2, <1>3
<1>5. \A s \in Requests \ {r} : f1[s] = f[s] /\ g1[s] = g[s]
  BY <1>0, <1>1
<1>6. /\ SumFunction(f1) = SumFunction(f) + (f1[r] - f[r])
      /\ SumFunction(g1) = SumFunction(g) + (g1[r] - g[r])
  BY <1>4, <1>5, SumChange, PaymasterAssumption
<1>7. /\ f[r] = LockedIn(voucherRequests[r], vouchers[r], a)
      /\ g[r] = LeftIn(voucherRequests[r], vouchers[r], a)
      /\ f1[r] = LockedIn(q, v, a) /\ g1[r] = LeftIn(q, v, a)
  BY <1>0, <1>1
<1>8. Owed'[a] = SumFunction(f1) /\ Leftover'[a] = SumFunction(g1)
  <2>1. \A s \in Requests :
          /\ LockedNow(s)'[a] = LockedIn(voucherRequests'[s], vouchers'[s], a)
          /\ FeeLeft(s)'[a] = LeftIn(voucherRequests'[s], vouchers'[s], a)
    BY Zenon DEF LockedNow, Unsettled, Locked, LockedIn, FeeLeft, LeftIn
  <2>2. /\ [s \in Requests |-> LockedNow(s)'[a]] = f1
        /\ [s \in Requests |-> FeeLeft(s)'[a]] = g1
    BY <1>1, <2>1, Zenon
  <2>3. Owed'[a] = SumFunction([s \in Requests |-> LockedNow(s)'[a]])
    BY Zenon DEF Owed
  <2>4. Leftover'[a] = SumFunction([s \in Requests |-> FeeLeft(s)'[a]])
    BY Zenon DEF Leftover
  <2> QED
    BY <2>2, <2>3, <2>4, Zenon
<1> QED
  BY <1>1, <1>6, <1>7, <1>8, SumsAre

(* A fulfilment is recorded.                                               *)
LEMMA PaidStep ==
  ASSUME TypeOK, NEW f \in Fulfilments \ fulfilledVoucherHashes,
         fulfilledVoucherHashes' = fulfilledVoucherHashes \cup {f},
         NEW a \in Assets
  PROVE  PaidOut'[a] = PaidOut[a] + Bundle(f.asset, f.amount, f.gas)[a]
<1>1. PICK h, h1 :
        /\ h = [p \in Fulfilments |-> PaidIn(p, fulfilledVoucherHashes, a)]
        /\ h1 = [p \in Fulfilments |-> PaidIn(p, fulfilledVoucherHashes', a)]
  OBVIOUS
<1>2. \A p \in Fulfilments : Bundle(p.asset, p.amount, p.gas)[a] \in Int
  BY FulfilmentTypes DEF Money
<1>3. h \in [Fulfilments -> Int] /\ h1 \in [Fulfilments -> Int]
  BY <1>1, <1>2 DEF PaidIn
<1>4. \A p \in Fulfilments \ {f} : h1[p] = h[p]
  BY <1>1 DEF PaidIn
<1>5. SumFunction(h1) = SumFunction(h) + (h1[f] - h[f])
  BY <1>3, <1>4, SumChange, PaymasterAssumption
<1>6. h[f] = 0 /\ h1[f] = Bundle(f.asset, f.amount, f.gas)[a]
  BY <1>1 DEF PaidIn
<1>7. PaidOut'[a] = SumFunction(h1)
  <2>1. \A p \in Fulfilments : Paid(p)'[a] = PaidIn(p, fulfilledVoucherHashes', a)
    BY Zenon DEF Paid, PaidIn
  <2>2. [p \in Fulfilments |-> Paid(p)'[a]] = h1
    BY <1>1, <2>1, Zenon
  <2>3. PaidOut'[a] = SumFunction([p \in Fulfilments |-> Paid(p)'[a]])
    BY Zenon DEF PaidOut
  <2> QED
    BY <2>2, <2>3, Zenon
<1>8. PaidOut[a] = SumFunction(h)
  BY <1>1, SumsAre
<1>9. PaidOut[a] \in Int
  BY SumTypes
<1> QED
  BY <1>2, <1>5, <1>6, <1>7, <1>8, <1>9

(* Vouchers that are at most marked as fulfilled add what they added.      *)
VouchersSame ==
  \A r \in Requests : UNCHANGED <<vouchers[r].xlp, vouchers[r].fee,
                                  vouchers[r].claimed>>
RequestsSame == VouchersSame /\ UNCHANGED voucherRequests

LEMMA SameSums ==
  ASSUME RequestsSame
  PROVE  Owed' = Owed /\ Leftover' = Leftover
<1>1. \A r \in Requests : LockedNow(r)' = LockedNow(r) /\ FeeLeft(r)' = FeeLeft(r)
  BY Zenon DEF RequestsSame, VouchersSame, LockedNow, Unsettled, Locked, FeeLeft
<1> QED
  BY <1>1, Zenon DEF Owed, Leftover

-----------------------------------------------------------------------------
(* The books, asset by asset.                                              *)

Unbooked(a) == Bundle(ETH, 0, unbooked)[a]

Books(a) ==
  balance[a] + PaidOut[a] =
    (totalLiquidity[a] + Unbooked(a)) + (Owed[a] + Leftover[a])

LEMMA EthAt ==
  ASSUME NEW n \in Int, NEW a \in Assets
  PROVE  Bundle(ETH, 0, n)[a] = IF a = ETH THEN n ELSE 0
<1>1. Bundle(ETH, 0, n)[a] = (IF a = ETH THEN 0 ELSE 0) + (IF a = ETH THEN n ELSE 0)
  BY BundleAt
<1> QED
  BY <1>1

LEMMA UnbookedAt ==
  ASSUME unbooked \in Int, NEW a \in Assets
  PROVE  Unbooked(a) = IF a = ETH THEN unbooked ELSE 0
BY EthAt DEF Unbooked

LEMMA UnbookedMoves ==
  ASSUME unbooked \in Int, unbooked' \in Int, NEW a \in Assets
  PROVE  /\ Unbooked(a)' = IF a = ETH THEN unbooked' ELSE 0
         /\ Unbooked(a) = IF a = ETH THEN unbooked ELSE 0
<1>1. Unbooked(a)' = Bundle(ETH, 0, unbooked')[a]
  BY Zenon DEF Unbooked, Bundle
<1> QED
  BY <1>1, EthAt, UnbookedAt

LEMMA BooksAre ==
  /\ BooksExplained <=> (\A a \in Assets : Books(a)) /\ ActiveIsExact
  /\ BooksExplained' <=> (\A a \in Assets : Books(a)') /\ ActiveIsExact'
BY DEF BooksExplained, Books, Unbooked, Plus

-----------------------------------------------------------------------------
(* How many vouchers an XLP may still claim for.                           *)

ActiveOf(x) == {r \in Requests : vouchers[r].xlp = x /\ ~vouchers[r].claimed}

LEMMA ActiveFollows ==
  ASSUME NEW old \in SUBSET Requests, NEW r \in Requests
  PROVE  /\ Cardinality(old) \in Nat
         /\ r \in old => /\ Cardinality(old) > 0
                         /\ Cardinality(old \ {r}) = Cardinality(old) - 1
         /\ r \notin old => Cardinality(old \cup {r}) = Cardinality(old) + 1
<1>1. IsFiniteSet(old)
  BY FS_Subset, PaymasterAssumption
<1>2. IsFiniteSet(old \ {r})
  BY <1>1, FS_Subset
<1>3. Cardinality(old) \in Nat /\ Cardinality(old \ {r}) \in Nat
  BY <1>1, <1>2, FS_CardinalityType
<1>4. r \in old => Cardinality(old \ {r}) = Cardinality(old) - 1
  BY <1>1, FS_RemoveElement
<1>5. r \notin old => Cardinality(old \cup {r}) = Cardinality(old) + 1
  BY <1>1, FS_AddElement
<1>6. r \in old => Cardinality(old) > 0
  BY <1>3, <1>4
<1> QED
  BY <1>3, <1>4, <1>5, <1>6

LEMMA SameActive ==
  ASSUME VouchersSame, UNCHANGED xlpActiveRequests, ActiveIsExact
  PROVE  ActiveIsExact'
<1>1. \A x : {r \in Requests : vouchers'[r].xlp = x /\ ~vouchers'[r].claimed}
             = {r \in Requests : vouchers[r].xlp = x /\ ~vouchers[r].claimed}
  BY DEF VouchersSame
<1> QED
  BY <1>1, Zenon DEF ActiveIsExact

-----------------------------------------------------------------------------
(* The invariant: the start, and what steps have in common.                *)

LEMMA InitIInv == Init => IInv
<1> SUFFICES ASSUME Init PROVE IInv
  OBVIOUS
<1>1. NoRequest \in VoucherRequest /\ NoVoucher \in Voucher
  <2>1. (CHOOSE u \in Users : TRUE) \in Users
    BY PaymasterAssumption
  <2> QED
    BY <2>1 DEF NoRequest, NoVoucher, VoucherRequest, Voucher, Assets
<1>2. TypeOK
  <2>1. /\ voucherRequests \in [Requests -> VoucherRequest]
        /\ bidders \in [Requests -> SUBSET Xlps]
        /\ vouchers \in [Vouchers -> Voucher]
        /\ fulfilledVoucherHashes \subseteq Fulfilments
    BY <1>1 DEF Init
  <2>2. /\ xlpDeposits \in [Xlps -> [Assets -> Nat]]
        /\ totalLiquidity \in [Assets -> Nat]
        /\ xlpActiveRequests \in [Xlps -> Nat]
        /\ xlpVerifiedStake \in [Xlps -> Nat]
        /\ balance \in [Assets -> Nat] /\ unbooked \in Int
    BY DEF Init
  <2>3. block \in 0..MaxBlock /\ wallet \in [Accounts -> [Assets -> Nat]]
    BY PaymasterAssumption DEF Init
  <2> QED
    BY <2>1, <2>2, <2>3 DEF TypeOK
<1>3. \A r \in Requests : /\ voucherRequests[r] = NoRequest
                          /\ vouchers[r] = NoVoucher
  BY DEF Init, Vouchers
<1>4. \A r \in Requests : /\ voucherRequests[r].state = "none"
                          /\ voucherRequests[r].created = 0
                          /\ vouchers[r].xlp = NoXlp /\ ~vouchers[r].claimed
  <2>1. /\ NoRequest.state = "none" /\ NoRequest.created = 0
        /\ NoVoucher.xlp = NoXlp /\ NoVoucher.claimed = FALSE
    BY DEF NoRequest, NoVoucher
  <2> QED
    BY <1>3, <2>1
<1>5. IssuedForClaimed
  <2>1. block = 0
    BY DEF Init
  <2> QED
    BY <1>4, <2>1 DEF IssuedForClaimed
<1>6. ActiveIsExact
  <2>1. ASSUME NEW x \in Xlps
        PROVE  {r \in Requests : vouchers[r].xlp = x /\ ~vouchers[r].claimed} = {}
    BY <1>4, PaymasterAssumption
  <2>2. \A x \in Xlps : xlpActiveRequests[x] = 0
    BY DEF Init
  <2> QED
    BY <2>1, <2>2, FS_EmptySet DEF ActiveIsExact
<1>7. ASSUME NEW a \in Assets PROVE Books(a)
  <2>1. PICK f, g, h :
          /\ f = [r \in Requests |-> LockedIn(voucherRequests[r], vouchers[r], a)]
          /\ g = [r \in Requests |-> LeftIn(voucherRequests[r], vouchers[r], a)]
          /\ h = [p \in Fulfilments |-> PaidIn(p, fulfilledVoucherHashes, a)]
    OBVIOUS
  <2>2. /\ Bundle(ETH, 0, 0)[a] = 0
        /\ \A r \in Requests :
             /\ LockedIn(voucherRequests[r], vouchers[r], a) = 0
             /\ LeftIn(voucherRequests[r], vouchers[r], a) = 0
    <3>1. Bundle(ETH, 0, 0)[a] = 0
      BY BundleAt
    <3> QED
      BY <1>4, <3>1 DEF LockedIn, LeftIn
  <2>3. \A p \in Fulfilments : PaidIn(p, fulfilledVoucherHashes, a) = 0
    BY DEF PaidIn, Init
  <2>4. /\ f \in [Requests -> Int] /\ \A r \in Requests : f[r] = 0
        /\ g \in [Requests -> Int] /\ \A r \in Requests : g[r] = 0
        /\ h \in [Fulfilments -> Int] /\ \A p \in Fulfilments : h[p] = 0
    BY <2>1, <2>2, <2>3
  <2>5. SumFunction(f) = 0 /\ SumFunction(g) = 0 /\ SumFunction(h) = 0
    BY <2>4, SumZero, PaymasterAssumption
  <2>6. Owed[a] = 0 /\ Leftover[a] = 0 /\ PaidOut[a] = 0
    BY <2>1, <2>5, SumsAre, Zenon
  <2>7. balance[a] = 0 /\ totalLiquidity[a] = 0 /\ unbooked = 0
    BY DEF Init
  <2>8. Unbooked(a) = 0
    BY <2>7, UnbookedAt
  <2> QED
    BY <2>6, <2>7, <2>8 DEF Books
<1> QED
  BY <1>2, <1>5, <1>6, <1>7, BooksAre DEF IInv

LEMMA InvFacts ==
  ASSUME IInv
  PROVE  /\ TypeOK /\ ActiveIsExact /\ IssuedForClaimed
         /\ \A a \in Assets : Books(a)
BY BooksAre DEF IInv

(* What both sides of the books add up are integers.                       *)
Entries(a) ==
  /\ balance[a] \in Int /\ totalLiquidity[a] \in Int
  /\ Unbooked(a) \in Int
  /\ PaidOut[a] \in Int /\ Owed[a] \in Int /\ Leftover[a] \in Int
  /\ Books(a)

LEMMA EntriesHold ==
  ASSUME IInv, NEW a \in Assets
  PROVE  Entries(a)
<1>1. balance[a] \in Int /\ totalLiquidity[a] \in Int /\ unbooked \in Int
  BY InvFacts DEF TypeOK
<1>2. Unbooked(a) \in Int
  BY <1>1, UnbookedAt
<1>3. PaidOut[a] \in Int /\ Owed[a] \in Int /\ Leftover[a] \in Int
  BY InvFacts, SumTypes
<1> QED
  BY <1>1, <1>2, <1>3, InvFacts DEF Entries

(* Amounts that leave the books balanced, and a step that moves asset a's
   entries by them.                                                        *)
Balanced(m, p, l, u, o, e) ==
  /\ m \in Int /\ p \in Int /\ l \in Int /\ u \in Int /\ o \in Int /\ e \in Int
  /\ m + p = (l + u) + (o + e)

Moves(a, m, p, l, u, o, e) ==
  /\ balance'[a] = balance[a] + m /\ PaidOut'[a] = PaidOut[a] + p
  /\ totalLiquidity'[a] = totalLiquidity[a] + l /\ Unbooked(a)' = Unbooked(a) + u
  /\ Owed'[a] = Owed[a] + o /\ Leftover'[a] = Leftover[a] + e

LEMMA BooksMove ==
  ASSUME IInv, NEW a \in Assets, NEW m, NEW p, NEW l, NEW u, NEW o, NEW e,
         Balanced(m, p, l, u, o, e), Moves(a, m, p, l, u, o, e)
  PROVE  Books(a)'
<1>1. Entries(a)
  BY EntriesHold
<1>2. (balance[a] + m) + (PaidOut[a] + p) =
        ((totalLiquidity[a] + l) + (Unbooked(a) + u))
        + ((Owed[a] + o) + (Leftover[a] + e))
  BY <1>1 DEF Entries, Books, Balanced
<1> QED
  BY <1>2 DEF Books, Moves

LEMMA BlockType == TypeOK => block \in Nat
BY PaymasterAssumption DEF TypeOK

(* A step that leaves the requests and the block alone.                    *)
LEMMA QuietStep ==
  ASSUME IInv, RequestsSame, UNCHANGED <<xlpActiveRequests, block>>, TypeOK',
         \A a \in Assets : Books(a)'
  PROVE  IInv'
<1>1. ActiveIsExact'
  BY InvFacts, SameActive DEF RequestsSame
<1>2. IssuedForClaimed'
  BY InvFacts DEF IssuedForClaimed, RequestsSame, VouchersSame
<1> QED
  BY <1>1, <1>2, BooksAre DEF IInv

(* ... and pays nobody either.                                             *)
LEMMA SameBooks ==
  ASSUME IInv, RequestsSame,
         UNCHANGED <<fulfilledVoucherHashes, totalLiquidity, balance, unbooked>>
  PROVE  \A a \in Assets : Books(a)'
<1>1. PaidOut' = PaidOut
  BY DEF PaidOut, Paid
<1>2. \A a \in Assets : Unbooked(a)' = Unbooked(a)
  BY DEF Unbooked, Bundle
<1> QED
  BY <1>1, <1>2, InvFacts, SameSums DEF Books

(* A step that writes one request and its voucher.                         *)
LEMMA IssuedStep ==
  ASSUME IInv, NEW r \in Requests, NEW q \in VoucherRequest, NEW v \in Voucher,
         voucherRequests' = [voucherRequests EXCEPT ![r] = q],
         vouchers' = [vouchers EXCEPT ![r] = v], block' = block,
         q.created <= block, v.xlp # NoXlp <=> q.state = "claimed",
         v.claimed => v.xlp # NoXlp
  PROVE  /\ voucherRequests' \in [Requests -> VoucherRequest]
         /\ vouchers' \in [Vouchers -> Voucher]
         /\ IssuedForClaimed'
<1>1. /\ voucherRequests' \in [Requests -> VoucherRequest]
      /\ vouchers' \in [Vouchers -> Voucher]
  BY InvFacts DEF TypeOK
<1>2. /\ voucherRequests'[r] = q /\ vouchers'[r] = v
      /\ \A s \in Requests \ {r} : /\ voucherRequests'[s] = voucherRequests[s]
                                   /\ vouchers'[s] = vouchers[s]
  BY InvFacts DEF TypeOK, Vouchers
<1>3. ASSUME NEW s \in Requests
      PROVE  /\ voucherRequests'[s].created <= block
             /\ vouchers'[s].xlp # NoXlp <=> voucherRequests'[s].state = "claimed"
             /\ vouchers'[s].claimed => vouchers'[s].xlp # NoXlp
  <2>1. CASE s = r
    BY <1>2, <2>1
  <2>2. CASE s # r
    BY <1>2, <2>2, InvFacts DEF IssuedForClaimed
  <2> QED
    BY <2>1, <2>2
<1> QED
  BY <1>1, <1>3 DEF IssuedForClaimed

(* What a step does not write moves by nothing.                            *)
LEMMA OthersSame ==
  ASSUME TypeOK, NEW a \in Assets
  PROVE  /\ UNCHANGED fulfilledVoucherHashes => PaidOut'[a] = PaidOut[a] + 0
         /\ UNCHANGED totalLiquidity => totalLiquidity'[a] = totalLiquidity[a] + 0
         /\ UNCHANGED unbooked =>
              Unbooked(a)' = Unbooked(a) + 0
         /\ UNCHANGED balance => balance'[a] = balance[a] + 0
         /\ RequestsSame => /\ Owed'[a] = Owed[a] + 0
                            /\ Leftover'[a] = Leftover[a] + 0
<1>1. /\ balance[a] \in Int /\ totalLiquidity[a] \in Int /\ unbooked \in Int
      /\ PaidOut[a] \in Int /\ Owed[a] \in Int /\ Leftover[a] \in Int
  BY SumTypes DEF TypeOK
<1>2. Unbooked(a) \in Int
  BY <1>1, UnbookedAt
<1>3. UNCHANGED fulfilledVoucherHashes => PaidOut' = PaidOut
  BY DEF PaidOut, Paid
<1>4. UNCHANGED unbooked => Unbooked(a)' = Unbooked(a)
  BY DEF Unbooked, Bundle
<1> QED
  BY <1>1, <1>2, <1>3, <1>4, SameSums

LEMMA NoFee == ASSUME NEW a \in Assets PROVE Bundle(ETH, 0, 0)[a] = 0
BY BundleAt

(* No voucher was issued for a request that is not claimed.                *)
LEMMA Unissued ==
  ASSUME IInv, NEW r \in Requests, voucherRequests[r].state # "claimed"
  PROVE  /\ vouchers[r].xlp = NoXlp /\ vouchers[r].claimed = FALSE
         /\ \A x \in Xlps : r \notin ActiveOf(x)
<1>1. vouchers[r].xlp = NoXlp /\ ~vouchers[r].claimed
  BY InvFacts DEF IssuedForClaimed
<1>2. vouchers[r].claimed \in BOOLEAN
  BY InvFacts, RequestTypes DEF Voucher
<1> QED
  BY <1>1, <1>2, PaymasterAssumption DEF ActiveOf

-----------------------------------------------------------------------------
(* The source chain.                                                       *)

LEMMA CreateIInv ==
  ASSUME IInv, NEW user \in Users, NEW r \in Requests, NEW asset \in Assets,
         NEW amount \in Nat, NEW maxFee \in Nat, NEW increment \in Nat,
         NEW allowed \in SUBSET Xlps,
         CreateVoucherRequest(user, r, asset, amount, maxFee, increment, allowed)
  PROVE  IInv'
<1>0. TypeOK /\ ActiveIsExact /\ block \in Nat
  BY InvFacts, BlockType
<1>1. PICK b \in Money : b = Bundle(asset, amount, maxFee)
  BY BundleType
<1>2. PayIn(user, b) /\ voucherRequests[r].state = "none"
  BY <1>1, Zenon DEF CreateVoucherRequest
<1>3. PICK q \in VoucherRequest :
        /\ q = [state |-> "open", user |-> user, asset |-> asset, amount |-> amount,
                maxFee |-> maxFee, increment |-> increment, created |-> block,
                allowed |-> allowed]
  BY <1>0 DEF VoucherRequest
<1>4. /\ voucherRequests' = [voucherRequests EXCEPT ![r] = q]
      /\ UNCHANGED <<bidders, vouchers, xlpActiveRequests, fulfilledVoucherHashes,
                     poolVars, xlpVerifiedStake, block, unbooked>>
  BY <1>3, Zenon DEF CreateVoucherRequest
<1>5. PICK v \in Voucher : v = vouchers[r]
  BY <1>0, RequestTypes
<1>6. vouchers' = [vouchers EXCEPT ![r] = v]
  BY <1>0, <1>4, <1>5 DEF TypeOK
<1>7. v.xlp = NoXlp /\ v.claimed = FALSE
  BY <1>2, <1>5, Unissued
<1>8. IssuedForClaimed' /\ voucherRequests' \in [Requests -> VoucherRequest]
  <2>1. q.created <= block /\ ~(q.state = "claimed")
    BY <1>0, <1>3
  <2>2. block' = block /\ (v.xlp # NoXlp <=> q.state = "claimed") /\ ~v.claimed
    BY <1>4, <1>7, <2>1
  <2> QED
    BY <1>4, <1>6, <2>1, <2>2, IssuedStep
<1>9. TypeOK'
  <2>1. user \in Accounts
    BY DEF Accounts
  <2>2. balance' \in [Assets -> Nat] /\ wallet' \in [Accounts -> [Assets -> Nat]]
    BY <1>0, <1>2, <2>1, PayInOK DEF Money
  <2> QED
    BY <1>0, <1>4, <1>8, <2>2 DEF TypeOK, poolVars
<1>10. ActiveIsExact'
  BY <1>0, <1>4, SameActive DEF VouchersSame
<1>11. ASSUME NEW a \in Assets PROVE Books(a)'
  <2>1. /\ LockedIn(q, v, a) = b[a]
        /\ LockedIn(voucherRequests[r], vouchers[r], a) = 0
        /\ LeftIn(q, v, a) = 0 /\ LeftIn(voucherRequests[r], vouchers[r], a) = 0
    BY <1>1, <1>2, <1>3, <1>5, <1>7, NoFee DEF LockedIn, LeftIn
  <2>2. PICK n \in Int : n = b[a]
    BY DEF Money
  <2>3. Owed'[a] = Owed[a] + n /\ Leftover'[a] = Leftover[a] + 0
    <3>1. /\ Owed'[a] = Owed[a] + (LockedIn(q, v, a)
                            - LockedIn(voucherRequests[r], vouchers[r], a))
          /\ Leftover'[a] = Leftover[a] + (LeftIn(q, v, a)
                            - LeftIn(voucherRequests[r], vouchers[r], a))
      BY <1>0, <1>4, <1>6, RequestStep
    <3> QED
      BY <2>1, <2>2, <3>1
  <2>4. balance'[a] = balance[a] + n
    <3>1. user \in Accounts
      BY DEF Accounts
    <3> QED
      BY <1>0, <1>2, <2>2, <3>1, PayInOK
  <2>5. /\ PaidOut'[a] = PaidOut[a] + 0
        /\ totalLiquidity'[a] = totalLiquidity[a] + 0
        /\ Unbooked(a)' = Unbooked(a) + 0
    BY <1>0, <1>4, OthersSame DEF poolVars
  <2>20. Moves(a, n, 0, 0, 0, n, 0)
    BY <2>3, <2>4, <2>5 DEF Moves
  <2>21. Balanced(n, 0, 0, 0, n, 0)
    BY DEF Balanced
  <2> QED
    BY <2>20, <2>21, BooksMove
<1> QED
  BY <1>8, <1>9, <1>10, <1>11, BooksAre DEF IInv

LEMMA SubmitBidIInv ==
  ASSUME IInv, NEW x \in Xlps, NEW r \in Requests, SubmitBid(x, r)
  PROVE  IInv'
<1>1. bidders' \in [Requests -> SUBSET Xlps]
  BY InvFacts DEF TypeOK, SubmitBid
<1>2. UNCHANGED <<voucherRequests, vouchers, xlpActiveRequests,
                  fulfilledVoucherHashes, poolVars, xlpVerifiedStake, block,
                  moneyVars, unbooked>>
  BY DEF SubmitBid
<1>3. RequestsSame /\ UNCHANGED <<totalLiquidity, balance>>
  BY <1>2 DEF RequestsSame, VouchersSame, poolVars, moneyVars
<1>4. TypeOK'
  BY <1>1, <1>2, InvFacts DEF TypeOK, poolVars, moneyVars
<1> QED
  BY <1>2, <1>3, <1>4, SameBooks, QuietStep

LEMMA RefundIInv ==
  ASSUME IInv, NEW r \in Requests, RefundExpiredRequest(r)
  PROVE  IInv'
<1>0. TypeOK /\ ActiveIsExact /\ block \in Nat
  BY InvFacts, BlockType
<1>1. PICK o \in VoucherRequest : o = voucherRequests[r]
  BY <1>0, RequestTypes
<1>2. PICK b \in Money : b = Locked(r)
  BY <1>0, RequestTypes
<1>3. PayOut(o.user, b) /\ o.state = "open" /\ o.user \in Accounts
  BY <1>0, <1>1, <1>2, RequestTypes DEF RefundExpiredRequest, Refundable
<1>4. PICK q \in VoucherRequest : q = [o EXCEPT !.state = "refunded"]
  BY DEF VoucherRequest
<1>5. q.state = "refunded" /\ q.created = o.created
  BY <1>4 DEF VoucherRequest
<1>6. /\ voucherRequests' = [voucherRequests EXCEPT ![r] = q]
      /\ UNCHANGED <<bidders, vouchers, xlpActiveRequests, fulfilledVoucherHashes,
                     poolVars, xlpVerifiedStake, block, unbooked>>
  BY <1>0, <1>1, <1>4 DEF RefundExpiredRequest, TypeOK
<1>7. PICK v \in Voucher : v = vouchers[r]
  BY <1>0, RequestTypes
<1>8. vouchers' = [vouchers EXCEPT ![r] = v]
  BY <1>0, <1>6, <1>7 DEF TypeOK
<1>9. v.xlp = NoXlp /\ v.claimed = FALSE
  BY <1>1, <1>3, <1>7, Unissued
<1>10. IssuedForClaimed' /\ voucherRequests' \in [Requests -> VoucherRequest]
  <2>1. q.created <= block /\ ~(q.state = "claimed")
    BY <1>1, <1>5, InvFacts DEF IssuedForClaimed
  <2>2. block' = block /\ (v.xlp # NoXlp <=> q.state = "claimed") /\ ~v.claimed
    BY <1>6, <1>9, <2>1
  <2> QED
    BY <1>6, <1>8, <2>1, <2>2, IssuedStep
<1>11. TypeOK'
  <2>1. balance' \in [Assets -> Nat] /\ wallet' \in [Accounts -> [Assets -> Nat]]
    BY <1>0, <1>3, PayOutOK DEF Money
  <2> QED
    BY <1>0, <1>6, <1>10, <2>1 DEF TypeOK, poolVars
<1>12. ActiveIsExact'
  BY <1>0, <1>6, SameActive DEF VouchersSame
<1>13. ASSUME NEW a \in Assets PROVE Books(a)'
  <2>1. /\ LockedIn(q, v, a) = 0
        /\ LockedIn(voucherRequests[r], vouchers[r], a) = b[a]
        /\ LeftIn(q, v, a) = 0 /\ LeftIn(voucherRequests[r], vouchers[r], a) = 0
    BY <1>1, <1>2, <1>3, <1>5, <1>7, <1>9, NoFee DEF LockedIn, LeftIn, Locked
  <2>2. PICK d \in Int : d = -b[a] /\ b[a] \in Nat
    BY DEF Money
  <2>3. Owed'[a] = Owed[a] + d /\ Leftover'[a] = Leftover[a] + 0
    <3>1. /\ Owed'[a] = Owed[a] + (LockedIn(q, v, a)
                            - LockedIn(voucherRequests[r], vouchers[r], a))
          /\ Leftover'[a] = Leftover[a] + (LeftIn(q, v, a)
                            - LeftIn(voucherRequests[r], vouchers[r], a))
      BY <1>0, <1>6, <1>8, RequestStep
    <3> QED
      BY <2>1, <2>2, <3>1
  <2>4. balance'[a] = balance[a] + d
    <3>1. balance'[a] = balance[a] - b[a] /\ balance[a] \in Int
      BY <1>0, <1>3, PayOutOK DEF TypeOK
    <3> QED
      BY <2>2, <3>1
  <2>5. /\ PaidOut'[a] = PaidOut[a] + 0
        /\ totalLiquidity'[a] = totalLiquidity[a] + 0
        /\ Unbooked(a)' = Unbooked(a) + 0
    BY <1>0, <1>6, OthersSame DEF poolVars
  <2>20. Moves(a, d, 0, 0, 0, d, 0)
    BY <2>3, <2>4, <2>5 DEF Moves
  <2>21. Balanced(d, 0, 0, 0, d, 0)
    BY DEF Balanced
  <2> QED
    BY <2>20, <2>21, BooksMove
<1> QED
  BY <1>10, <1>11, <1>12, <1>13, BooksAre DEF IInv

(* An XLP has one voucher more to claim for, or one less.                  *)
LEMMA ActiveGain ==
  ASSUME IInv, NEW r \in Requests, NEW v \in Voucher, NEW x \in Xlps,
         vouchers' = [vouchers EXCEPT ![r] = v], v.xlp = x, v.claimed = FALSE,
         vouchers[r].xlp = NoXlp,
         xlpActiveRequests' = [xlpActiveRequests EXCEPT ![x] = @ + 1]
  PROVE  ActiveIsExact' /\ xlpActiveRequests' \in [Xlps -> Nat]
<1>0. /\ xlpActiveRequests \in [Xlps -> Nat] /\ NoXlp \notin Xlps
      /\ \A y \in Xlps : xlpActiveRequests[y] = Cardinality(ActiveOf(y))
  BY InvFacts, PaymasterAssumption DEF TypeOK, ActiveIsExact, ActiveOf
<1>1. vouchers'[r] = v /\ \A s \in Requests \ {r} : vouchers'[s] = vouchers[s]
  BY InvFacts DEF TypeOK, Vouchers
<1>2. ActiveOf(x)' = ActiveOf(x) \cup {r} /\ r \notin ActiveOf(x)
  BY <1>0, <1>1 DEF ActiveOf
<1>3. \A y \in Xlps \ {x} : ActiveOf(y)' = ActiveOf(y)
  BY <1>0, <1>1 DEF ActiveOf
<1>4. Cardinality(ActiveOf(x)') = Cardinality(ActiveOf(x)) + 1
  <2>1. ActiveOf(x) \in SUBSET Requests
    BY DEF ActiveOf
  <2> QED
    BY <1>2, <2>1, ActiveFollows
<1>5. \A y \in Xlps : xlpActiveRequests'[y] = Cardinality(ActiveOf(y)')
  BY <1>0, <1>3, <1>4
<1> QED
  BY <1>0, <1>5 DEF ActiveIsExact, ActiveOf

LEMMA ActiveLoss ==
  ASSUME IInv, NEW r \in Requests, NEW v \in Voucher, NEW x \in Xlps,
         vouchers' = [vouchers EXCEPT ![r] = v], v.xlp = x, v.claimed = TRUE,
         vouchers[r].xlp = x, ~vouchers[r].claimed,
         xlpActiveRequests' = [xlpActiveRequests EXCEPT ![x] = @ - 1]
  PROVE  ActiveIsExact' /\ xlpActiveRequests' \in [Xlps -> Nat]
<1>0. /\ xlpActiveRequests \in [Xlps -> Nat]
      /\ \A y \in Xlps : xlpActiveRequests[y] = Cardinality(ActiveOf(y))
  BY InvFacts DEF TypeOK, ActiveIsExact, ActiveOf
<1>1. vouchers'[r] = v /\ \A s \in Requests \ {r} : vouchers'[s] = vouchers[s]
  BY InvFacts DEF TypeOK, Vouchers
<1>2. ActiveOf(x)' = ActiveOf(x) \ {r} /\ r \in ActiveOf(x)
  BY <1>1 DEF ActiveOf
<1>3. \A y \in Xlps \ {x} : ActiveOf(y)' = ActiveOf(y)
  BY <1>1 DEF ActiveOf
<1>4. /\ Cardinality(ActiveOf(x)') = Cardinality(ActiveOf(x)) - 1
      /\ Cardinality(ActiveOf(x)) > 0
  <2>1. ActiveOf(x) \in SUBSET Requests
    BY DEF ActiveOf
  <2> QED
    BY <1>2, <2>1, ActiveFollows
<1>5. \A y \in Xlps : xlpActiveRequests'[y] = Cardinality(ActiveOf(y)')
  BY <1>0, <1>3, <1>4
<1>6. xlpActiveRequests[x] - 1 \in Nat
  BY <1>0, <1>4
<1> QED
  BY <1>0, <1>5, <1>6 DEF ActiveIsExact, ActiveOf

LEMMA IssueIInv ==
  ASSUME IInv, NEW x \in Xlps, NEW r \in Requests, IssueVoucher(x, r)
  PROVE  IInv'
<1>0. TypeOK /\ ActiveIsExact /\ block \in Nat
  BY InvFacts, BlockType
<1>1. PICK o \in VoucherRequest : o = voucherRequests[r]
  BY <1>0, RequestTypes
<1>2. o.state = "open" /\ o.created <= block
  BY <1>1, InvFacts DEF IssueVoucher, Biddable, IssuedForClaimed
<1>3. PICK fee \in Nat : fee = CurrentFee(r)
  BY <1>0, <1>1, <1>2, FeeType
<1>4. PICK q \in VoucherRequest : q = [o EXCEPT !.state = "claimed"]
  BY DEF VoucherRequest
<1>5. /\ q.state = "claimed" /\ q.created = o.created /\ q.asset = o.asset
      /\ q.amount = o.amount /\ q.maxFee = o.maxFee
  BY <1>4 DEF VoucherRequest
<1>6. PICK v \in Voucher : v = [xlp |-> x, fee |-> fee, issued |-> block,
                                fulfilled |-> FALSE, claimed |-> FALSE]
  BY <1>0 DEF Voucher
<1>7. v.xlp = x /\ v.claimed = FALSE /\ x # NoXlp
  BY <1>6, PaymasterAssumption
<1>8. /\ voucherRequests' = [voucherRequests EXCEPT ![r] = q]
      /\ vouchers' = [vouchers EXCEPT ![r] = v]
  <2>1. vouchers' = [vouchers EXCEPT ![r] = v]
    BY <1>3, <1>6, Zenon DEF IssueVoucher
  <2> QED
    BY <1>0, <1>1, <1>4, <2>1 DEF IssueVoucher, TypeOK
<1>9. /\ xlpActiveRequests' = [xlpActiveRequests EXCEPT ![x] = @ + 1]
      /\ UNCHANGED <<bidders, fulfilledVoucherHashes, poolVars, xlpVerifiedStake,
                     block, moneyVars, unbooked>>
  BY Zenon DEF IssueVoucher
<1>10. vouchers[r].xlp = NoXlp /\ vouchers[r].claimed = FALSE
  BY <1>1, <1>2, Unissued
<1>11. /\ IssuedForClaimed' /\ voucherRequests' \in [Requests -> VoucherRequest]
       /\ vouchers' \in [Vouchers -> Voucher]
  <2>1. q.created <= block
    BY <1>2, <1>5
  <2>2. block' = block /\ (v.xlp # NoXlp <=> q.state = "claimed") /\ ~v.claimed
    BY <1>5, <1>7, <1>9
  <2> QED
    BY <1>8, <2>1, <2>2, IssuedStep
<1>12. ActiveIsExact' /\ xlpActiveRequests' \in [Xlps -> Nat]
  BY <1>7, <1>8, <1>9, <1>10, ActiveGain
<1>13. TypeOK'
  BY <1>0, <1>9, <1>11, <1>12 DEF TypeOK, poolVars, moneyVars
<1>14. ASSUME NEW a \in Assets PROVE Books(a)'
  <2>1. PICK b \in Nat : b = Bundle(o.asset, o.amount, o.maxFee)[a]
    BY InTypes, <1>6
  <2>2. /\ LockedIn(q, v, a) = b
        /\ LockedIn(voucherRequests[r], vouchers[r], a) = b
        /\ LeftIn(q, v, a) = 0 /\ LeftIn(voucherRequests[r], vouchers[r], a) = 0
    BY <1>1, <1>2, <1>5, <1>7, <1>10, <2>1, NoFee DEF LockedIn, LeftIn
  <2>3. Owed'[a] = Owed[a] + 0 /\ Leftover'[a] = Leftover[a] + 0
    <3>1. /\ Owed'[a] = Owed[a] + (LockedIn(q, v, a)
                            - LockedIn(voucherRequests[r], vouchers[r], a))
          /\ Leftover'[a] = Leftover[a] + (LeftIn(q, v, a)
                            - LeftIn(voucherRequests[r], vouchers[r], a))
      BY <1>0, <1>8, RequestStep
    <3> QED
      BY <2>2, <3>1
  <2>4. /\ balance'[a] = balance[a] + 0 /\ PaidOut'[a] = PaidOut[a] + 0
        /\ totalLiquidity'[a] = totalLiquidity[a] + 0
        /\ Unbooked(a)' = Unbooked(a) + 0
    BY <1>0, <1>9, OthersSame DEF poolVars, moneyVars
  <2>20. Moves(a, 0, 0, 0, 0, 0, 0)
    BY <2>3, <2>4 DEF Moves
  <2>21. Balanced(0, 0, 0, 0, 0, 0)
    BY DEF Balanced
  <2> QED
    BY <2>20, <2>21, BooksMove
<1> QED
  BY <1>11, <1>12, <1>13, <1>14, BooksAre DEF IInv

(* What a voucher is once it is marked.                                    *)
LEMMA Marked ==
  ASSUME TypeOK, NEW w \in Vouchers, UNCHANGED voucherRequests,
         vouchers' = [vouchers EXCEPT ![w].fulfilled = TRUE]
  PROVE  vouchers' \in [Vouchers -> Voucher] /\ RequestsSame
<1>1. PICK o \in Voucher : o = vouchers[w]
  BY DEF TypeOK
<1>2. PICK v \in Voucher : v = [o EXCEPT !.fulfilled = TRUE]
  BY DEF Voucher
<1>3. v.xlp = o.xlp /\ v.fee = o.fee /\ v.claimed = o.claimed
  BY <1>2 DEF Voucher
<1>4. vouchers' = [vouchers EXCEPT ![w] = v]
  BY <1>1, <1>2 DEF TypeOK
<1>5. /\ vouchers' \in [Vouchers -> Voucher] /\ vouchers'[w] = v
      /\ \A s \in Vouchers \ {w} : vouchers'[s] = vouchers[s]
  BY <1>4 DEF TypeOK
<1>6. ASSUME NEW r \in Requests
      PROVE  /\ vouchers'[r].xlp = vouchers[r].xlp
             /\ vouchers'[r].fee = vouchers[r].fee
             /\ vouchers'[r].claimed = vouchers[r].claimed
  <2>1. CASE r = w
    BY <1>1, <1>3, <1>5, <2>1
  <2>2. CASE r # w
    BY <1>5, <2>2 DEF Vouchers
  <2> QED
    BY <2>1, <2>2
<1> QED
  BY <1>5, <1>6 DEF RequestsSame, VouchersSame

LEMMA MarkIInv ==
  ASSUME IInv, NEW w \in Vouchers, MarkVoucherFulfilled(w)
  PROVE  IInv'
<1>1. /\ vouchers' = [vouchers EXCEPT ![w].fulfilled = TRUE]
      /\ UNCHANGED <<voucherRequests, bidders, xlpActiveRequests,
                     fulfilledVoucherHashes, poolVars, xlpVerifiedStake, block,
                     moneyVars, unbooked>>
  BY DEF MarkVoucherFulfilled
<1>2. vouchers' \in [Vouchers -> Voucher] /\ RequestsSame
  BY <1>1, Marked, InvFacts
<1>3. TypeOK'
  BY <1>1, <1>2, InvFacts DEF TypeOK, poolVars, moneyVars
<1>4. UNCHANGED <<totalLiquidity, balance>>
  BY <1>1 DEF poolVars, moneyVars
<1> QED
  BY <1>1, <1>2, <1>3, <1>4, SameBooks, QuietStep

(* What a claim pays and what it leaves is what the request locked.        *)
LEMMA ClaimSplits ==
  ASSUME NEW q \in VoucherRequest, NEW v \in Voucher, NEW a \in Assets
  PROVE  Bundle(q.asset, q.amount, q.maxFee)[a] =
           Bundle(q.asset, q.amount, v.fee)[a] + Bundle(ETH, 0, q.maxFee - v.fee)[a]
<1>1. PICK n, m, f \in Nat : n = q.amount /\ m = q.maxFee /\ f = v.fee
  BY DEF VoucherRequest, Voucher
<1>2. m - f \in Int
  BY <1>1
<1>3. /\ Bundle(q.asset, n, m)[a] =
           (IF a = q.asset THEN n ELSE 0) + (IF a = ETH THEN m ELSE 0)
      /\ Bundle(q.asset, n, f)[a] =
           (IF a = q.asset THEN n ELSE 0) + (IF a = ETH THEN f ELSE 0)
      /\ Bundle(ETH, 0, m - f)[a] =
           (IF a = ETH THEN 0 ELSE 0) + (IF a = ETH THEN m - f ELSE 0)
  BY <1>2, BundleAt
<1> QED
  BY <1>1, <1>3

LEMMA ClaimIInv ==
  ASSUME IInv, NEW r \in Requests, ClaimSourceFunds(r)
  PROVE  IInv'
<1>0. TypeOK /\ ActiveIsExact /\ block \in Nat
  BY InvFacts, BlockType
<1>1. PICK q \in VoucherRequest, o \in Voucher :
        q = voucherRequests[r] /\ o = vouchers[r]
  BY <1>0, RequestTypes
<1>2. o.xlp # NoXlp /\ ~o.claimed
  BY <1>1 DEF ClaimSourceFunds, Claimable
<1>3. PICK x \in Xlps : x = o.xlp
  BY <1>2 DEF Voucher
<1>4. q.state = "claimed" /\ q.created <= block
  BY <1>1, <1>2, InvFacts DEF IssuedForClaimed
<1>5. PICK v \in Voucher : v = [o EXCEPT !.claimed = TRUE]
  BY DEF Voucher
<1>6. v.xlp = x /\ v.fee = o.fee /\ v.claimed = TRUE
  BY <1>3, <1>5 DEF Voucher
<1>7. PICK b \in Money : b = Bundle(q.asset, q.amount, v.fee)
  BY <1>0, <1>1, <1>6, RequestTypes
<1>8. /\ PayOut(x, b) /\ x \in Accounts
      /\ xlpActiveRequests' = [xlpActiveRequests EXCEPT ![x] = @ - 1]
  BY <1>1, <1>3, <1>6, <1>7 DEF ClaimSourceFunds, Finish, Accounts
<1>9. /\ voucherRequests' = [voucherRequests EXCEPT ![r] = q]
      /\ vouchers' = [vouchers EXCEPT ![r] = v]
  BY <1>0, <1>1, <1>5 DEF ClaimSourceFunds, TypeOK, Vouchers
<1>10. UNCHANGED <<bidders, fulfilledVoucherHashes, poolVars, xlpVerifiedStake,
                   block, unbooked>>
  BY DEF ClaimSourceFunds
<1>11. /\ IssuedForClaimed' /\ voucherRequests' \in [Requests -> VoucherRequest]
       /\ vouchers' \in [Vouchers -> Voucher]
  <2>1. block' = block /\ (v.xlp # NoXlp <=> q.state = "claimed")
        /\ (v.claimed => v.xlp # NoXlp)
    BY <1>2, <1>3, <1>4, <1>6, <1>10
  <2> QED
    BY <1>4, <1>9, <2>1, IssuedStep
<1>12. ActiveIsExact' /\ xlpActiveRequests' \in [Xlps -> Nat]
  <2>1. vouchers[r].xlp = x /\ ~vouchers[r].claimed
    BY <1>1, <1>2, <1>3
  <2> QED
    BY <1>6, <1>8, <1>9, <2>1, ActiveLoss
<1>13. TypeOK'
  <2>1. balance' \in [Assets -> Nat] /\ wallet' \in [Accounts -> [Assets -> Nat]]
    BY <1>0, <1>8, PayOutOK DEF Money
  <2> QED
    BY <1>0, <1>10, <1>11, <1>12, <2>1 DEF TypeOK, poolVars
<1>14. ASSUME NEW a \in Assets PROVE Books(a)'
  <2>1. PICK m, l \in Int : /\ m = Bundle(q.asset, q.amount, q.maxFee)[a]
                            /\ l = Bundle(ETH, 0, q.maxFee - v.fee)[a]
    <3>1. Bundle(q.asset, q.amount, q.maxFee)[a] \in Int
      BY InTypes
    <3>2. Bundle(ETH, 0, q.maxFee - v.fee)[a] \in Int
      <4>1. LeftIn(q, v, a) \in Int
        BY InTypes
      <4> QED
        BY <1>6, <4>1 DEF LeftIn
    <3> QED
      BY <3>1, <3>2
  <2>2. m = b[a] + l /\ b[a] \in Nat
    BY <1>7, <2>1, ClaimSplits DEF Money
  <2>3. /\ LockedIn(q, v, a) = 0
        /\ LockedIn(voucherRequests[r], vouchers[r], a) = m
        /\ LeftIn(q, v, a) = l /\ LeftIn(voucherRequests[r], vouchers[r], a) = 0
    BY <1>1, <1>2, <1>4, <1>6, <2>1, NoFee DEF LockedIn, LeftIn
  <2>4. Owed'[a] = Owed[a] + (-m) /\ Leftover'[a] = Leftover[a] + l
    <3>1. /\ Owed'[a] = Owed[a] + (LockedIn(q, v, a)
                            - LockedIn(voucherRequests[r], vouchers[r], a))
          /\ Leftover'[a] = Leftover[a] + (LeftIn(q, v, a)
                            - LeftIn(voucherRequests[r], vouchers[r], a))
      BY <1>0, <1>9, RequestStep
    <3> QED
      BY <2>1, <2>3, <3>1
  <2>5. balance'[a] = balance[a] + (-b[a])
    <3>1. balance'[a] = balance[a] - b[a] /\ balance[a] \in Int
      BY <1>0, <1>8, PayOutOK DEF TypeOK
    <3> QED
      BY <2>2, <3>1
  <2>6. /\ PaidOut'[a] = PaidOut[a] + 0
        /\ totalLiquidity'[a] = totalLiquidity[a] + 0
        /\ Unbooked(a)' = Unbooked(a) + 0
    BY <1>0, <1>10, OthersSame DEF poolVars
  <2>7. PICK paid, freed \in Int :
          /\ paid = -b[a] /\ freed = -m
          /\ paid + 0 = (0 + 0) + (freed + l)
    BY <2>1, <2>2
  <2>8. /\ balance'[a] = balance[a] + paid
        /\ Owed'[a] = Owed[a] + freed /\ Leftover'[a] = Leftover[a] + l
    BY <2>4, <2>5, <2>7
  <2>9. Moves(a, paid, 0, 0, 0, freed, l)
    BY <2>6, <2>8 DEF Moves
  <2>10. Balanced(paid, 0, 0, 0, freed, l)
    BY <2>7 DEF Balanced
  <2> QED
    BY <2>9, <2>10, BooksMove
<1> QED
  BY <1>11, <1>12, <1>13, <1>14, BooksAre DEF IInv

LEMMA UpdateStakeIInv ==
  ASSUME IInv, NEW x \in Xlps, NEW stake \in Nat, UpdateXLPStake(x, stake)
  PROVE  IInv'
<1>1. xlpVerifiedStake' \in [Xlps -> Nat]
  BY InvFacts DEF TypeOK, UpdateXLPStake
<1>2. UNCHANGED <<requestVars, fulfilledVoucherHashes, poolVars, block, moneyVars,
                  unbooked>>
  BY DEF UpdateXLPStake
<1>3. /\ RequestsSame /\ UNCHANGED <<totalLiquidity, balance, xlpActiveRequests>>
  BY <1>2 DEF RequestsSame, VouchersSame, requestVars, poolVars, moneyVars
<1>4. TypeOK'
  BY <1>1, <1>2, InvFacts DEF TypeOK, requestVars, poolVars, moneyVars
<1> QED
  BY <1>2, <1>3, <1>4, SameBooks, QuietStep

-----------------------------------------------------------------------------
(* The destination chain, and the pool.                                    *)

LEMMA FulfillIInv ==
  ASSUME IInv, NEW f \in Fulfilments, FulfillVoucher(f)
  PROVE  IInv'
<1>0. TypeOK
  BY InvFacts
<1>1. PICK b \in Money : b = Bundle(f.asset, f.amount, f.gas)
  BY FulfilmentTypes
<1>2. /\ f \notin fulfilledVoucherHashes
      /\ Covers(xlpDeposits[f.xlp], b)
      /\ fulfilledVoucherHashes' = fulfilledVoucherHashes \cup {f}
      /\ vouchers' = [vouchers EXCEPT ![f.voucher].fulfilled = TRUE]
      /\ xlpDeposits' = [xlpDeposits EXCEPT ![f.xlp] = Minus(@, b)]
      /\ PayOut(f.recipient, b)
      /\ UNCHANGED <<voucherRequests, bidders, xlpActiveRequests, totalLiquidity,
                     xlpVerifiedStake, block, unbooked>>
  BY <1>1, Zenon DEF FulfillVoucher, IsNew
<1>3. vouchers' \in [Vouchers -> Voucher] /\ RequestsSame
  BY <1>0, <1>2, Marked, FulfilmentTypes
<1>4. xlpDeposits' \in [Xlps -> [Assets -> Nat]]
  <2>1. xlpDeposits[f.xlp] \in Money
    BY <1>0, FulfilmentTypes DEF TypeOK, Money
  <2>2. PICK m \in Money : m = Minus(xlpDeposits[f.xlp], b)
    BY <1>2, <2>1, MinusType
  <2>3. xlpDeposits' = [xlpDeposits EXCEPT ![f.xlp] = m]
    BY <1>2, <2>2
  <2> QED
    BY <1>0, <2>2, <2>3 DEF TypeOK, Money
<1>5. /\ balance' \in Money /\ wallet' \in [Accounts -> Money]
      /\ \A a \in Assets : balance'[a] = balance[a] - b[a]
  BY <1>0, <1>2, FulfilmentTypes, PayOutOK
<1>6. TypeOK'
  BY <1>0, <1>2, <1>3, <1>4, <1>5 DEF TypeOK, Money
<1>7. ASSUME NEW a \in Assets PROVE Books(a)'
  <2>1. b[a] \in Int /\ -b[a] \in Int /\ balance[a] \in Int
        /\ -b[a] + b[a] = (0 + 0) + (0 + 0)
    BY <1>0 DEF Money, TypeOK
  <2>2. balance'[a] = balance[a] + (-b[a])
    BY <1>5, <2>1
  <2>3. PaidOut'[a] = PaidOut[a] + b[a]
    BY <1>0, <1>1, <1>2, PaidStep
  <2>4. /\ Owed'[a] = Owed[a] + 0 /\ Leftover'[a] = Leftover[a] + 0
        /\ totalLiquidity'[a] = totalLiquidity[a] + 0
        /\ Unbooked(a)' = Unbooked(a) + 0
    BY <1>0, <1>2, <1>3, OthersSame
  <2>20. Moves(a, -b[a], b[a], 0, 0, 0, 0)
    BY <2>2, <2>3, <2>4 DEF Moves
  <2>21. Balanced(-b[a], b[a], 0, 0, 0, 0)
    BY <2>1 DEF Balanced
  <2> QED
    BY <2>20, <2>21, BooksMove
<1> QED
  BY <1>2, <1>3, <1>6, <1>7, QuietStep

LEMMA DepositIInv ==
  ASSUME IInv, NEW x \in Xlps, NEW asset \in Assets, NEW amount \in Nat,
         Deposit(x, asset, amount)
  PROVE  IInv'
<1>0. TypeOK /\ x \in Accounts
  BY InvFacts DEF Accounts
<1>1. PICK b \in Money : b = Bundle(asset, amount, 0)
  BY BundleType
<1>2. /\ PayIn(x, b)
      /\ xlpDeposits' = [xlpDeposits EXCEPT ![x][asset] = @ + amount]
      /\ totalLiquidity' = [totalLiquidity EXCEPT ![asset] = @ + amount]
      /\ UNCHANGED <<requestVars, fulfilledVoucherHashes, xlpVerifiedStake, block,
                     unbooked>>
  BY <1>1, Zenon DEF Deposit
<1>3. RequestsSame /\ UNCHANGED xlpActiveRequests
  BY <1>2 DEF RequestsSame, VouchersSame, requestVars
<1>4. /\ balance' \in Money /\ wallet' \in [Accounts -> Money]
      /\ \A a \in Assets : balance'[a] = balance[a] + b[a]
  BY <1>0, <1>2, PayInOK
<1>5. TypeOK'
  <2>1. xlpDeposits' \in [Xlps -> [Assets -> Nat]]
    BY <1>0, <1>2 DEF TypeOK
  <2>2. totalLiquidity' \in [Assets -> Nat]
    BY <1>0, <1>2 DEF TypeOK
  <2> QED
    BY <1>0, <1>2, <1>4, <2>1, <2>2 DEF TypeOK, Money, requestVars
<1>6. ASSUME NEW a \in Assets PROVE Books(a)'
  <2>1. /\ b[a] = IF a = asset THEN amount ELSE 0
        /\ b[a] \in Int /\ b[a] + 0 = (b[a] + 0) + (0 + 0)
    <3>1. b[a] = (IF a = asset THEN amount ELSE 0) + (IF a = ETH THEN 0 ELSE 0)
      BY <1>1, BundleAt
    <3> QED
      BY <3>1
  <2>2. totalLiquidity'[a] = totalLiquidity[a] + b[a]
    BY <1>0, <1>2, <2>1 DEF TypeOK
  <2>3. balance'[a] = balance[a] + b[a]
    BY <1>4
  <2>4. /\ Owed'[a] = Owed[a] + 0 /\ Leftover'[a] = Leftover[a] + 0
        /\ PaidOut'[a] = PaidOut[a] + 0
        /\ Unbooked(a)' = Unbooked(a) + 0
    BY <1>0, <1>2, <1>3, OthersSame
  <2>20. Moves(a, b[a], 0, b[a], 0, 0, 0)
    BY <2>2, <2>3, <2>4 DEF Moves
  <2>21. Balanced(b[a], 0, b[a], 0, 0, 0)
    BY <2>1 DEF Balanced
  <2> QED
    BY <2>20, <2>21, BooksMove
<1> QED
  BY <1>2, <1>3, <1>5, <1>6, QuietStep

LEMMA WithdrawIInv ==
  ASSUME IInv, NEW x \in Xlps, NEW asset \in Assets, NEW amount \in Nat,
         Withdraw(x, asset, amount)
  PROVE  IInv'
<1>0. TypeOK /\ x \in Accounts
  BY InvFacts DEF Accounts
<1>1. PICK b \in Money : b = Bundle(asset, amount, 0)
  BY BundleType
<1>2. /\ PayOut(x, b)
      /\ xlpDeposits[x][asset] >= amount /\ totalLiquidity[asset] >= amount
      /\ xlpDeposits' = [xlpDeposits EXCEPT ![x][asset] = @ - amount]
      /\ totalLiquidity' = [totalLiquidity EXCEPT ![asset] = @ - amount]
      /\ UNCHANGED <<requestVars, fulfilledVoucherHashes, xlpVerifiedStake, block,
                     unbooked>>
  BY <1>1, Zenon DEF Withdraw
<1>3. RequestsSame /\ UNCHANGED xlpActiveRequests
  BY <1>2 DEF RequestsSame, VouchersSame, requestVars
<1>4. /\ balance' \in Money /\ wallet' \in [Accounts -> Money]
      /\ \A a \in Assets : balance'[a] = balance[a] - b[a]
  BY <1>0, <1>2, PayOutOK
<1>5. TypeOK'
  <2>1. xlpDeposits' \in [Xlps -> [Assets -> Nat]]
    <3>1. PICK d \in [Assets -> Nat] : d = xlpDeposits[x]
      BY <1>0 DEF TypeOK
    <3>2. PICK e \in Nat : e = d[asset] - amount
      BY <1>2, <3>1
    <3>3. PICK g \in [Assets -> Nat] : g = [d EXCEPT ![asset] = e]
      OBVIOUS
    <3>4. xlpDeposits' = [xlpDeposits EXCEPT ![x] = g]
      BY <1>2, <3>1, <3>2, <3>3
    <3> QED
      BY <1>0, <3>3, <3>4 DEF TypeOK
  <2>2. totalLiquidity' \in [Assets -> Nat]
    <3>1. PICK e \in Nat : e = totalLiquidity[asset] - amount
      BY <1>0, <1>2 DEF TypeOK
    <3> QED
      BY <1>0, <1>2, <3>1 DEF TypeOK
  <2> QED
    BY <1>0, <1>2, <1>4, <2>1, <2>2 DEF TypeOK, Money, requestVars
<1>6. ASSUME NEW a \in Assets PROVE Books(a)'
  <2>1. PICK d \in Int : /\ d = -b[a] /\ d + 0 = (d + 0) + (0 + 0)
                         /\ d = IF a = asset THEN -amount ELSE 0
    <3>1. b[a] = (IF a = asset THEN amount ELSE 0) + (IF a = ETH THEN 0 ELSE 0)
      BY <1>1, BundleAt
    <3> QED
      BY <3>1
  <2>2. totalLiquidity[a] \in Int /\ balance[a] \in Int /\ b[a] \in Int
    BY <1>0 DEF TypeOK, Money
  <2>3. totalLiquidity'[a] = totalLiquidity[a] + d
    BY <1>0, <1>2, <2>1, <2>2 DEF TypeOK
  <2>4. balance'[a] = balance[a] + d
    BY <1>4, <2>1, <2>2
  <2>5. /\ Owed'[a] = Owed[a] + 0 /\ Leftover'[a] = Leftover[a] + 0
        /\ PaidOut'[a] = PaidOut[a] + 0
        /\ Unbooked(a)' = Unbooked(a) + 0
    BY <1>0, <1>2, <1>3, OthersSame
  <2>20. Moves(a, d, 0, d, 0, 0, 0)
    BY <2>3, <2>4, <2>5 DEF Moves
  <2>21. Balanced(d, 0, d, 0, 0, 0)
    BY DEF Balanced
  <2> QED
    BY <2>20, <2>21, BooksMove
<1> QED
  BY <1>2, <1>3, <1>5, <1>6, QuietStep

LEMMA SwapIInv ==
  ASSUME IInv, NEW user \in Users, NEW tokenIn \in Assets, NEW tokenOut \in Assets,
         NEW amountIn \in Nat, Swap(user, tokenIn, tokenOut, amountIn)
  PROVE  IInv'
<1>0. /\ TypeOK /\ user \in Accounts
      /\ balance \in Money /\ wallet \in [Accounts -> Money]
      /\ totalLiquidity \in Money /\ wallet[user] \in Money
  BY InvFacts DEF Accounts, TypeOK, Money
<1>1. PICK out \in Nat :
        /\ out = AmountOut(amountIn, totalLiquidity[tokenIn], totalLiquidity[tokenOut])
        /\ out <= totalLiquidity[tokenOut]
  <2>1. /\ totalLiquidity[tokenIn] \in Nat \ {0} /\ totalLiquidity[tokenOut] \in Nat
    BY <1>0 DEF Swap, Money
  <2>2. AmountOut(amountIn, totalLiquidity[tokenIn], totalLiquidity[tokenOut])
          \in 0..totalLiquidity[tokenOut]
    BY <2>1, AmountOutBound
  <2> QED
    BY <2>1, <2>2
<1>2. PICK given, taken \in Money : /\ given = Bundle(tokenIn, amountIn, 0)
                                    /\ taken = Bundle(tokenOut, out, 0)
  BY BundleType
<1>3. /\ Covers(wallet[user], given) /\ Covers(balance, taken)
      /\ tokenIn # tokenOut
      /\ totalLiquidity' = Minus(Plus(totalLiquidity, given), taken)
      /\ wallet' = [wallet EXCEPT ![user] = Minus(Plus(@, taken), given)]
      /\ balance' = Minus(Plus(balance, given), taken)
      /\ UNCHANGED <<requestVars, fulfilledVoucherHashes, xlpDeposits,
                     xlpVerifiedStake, block, unbooked>>
  BY <1>1, <1>2, Zenon DEF Swap
<1>4. RequestsSame /\ UNCHANGED xlpActiveRequests
  BY <1>3 DEF RequestsSame, VouchersSame, requestVars
<1>5. Covers(totalLiquidity, taken)
  <2>1. ASSUME NEW a \in Assets PROVE totalLiquidity[a] >= taken[a]
    <3>1. taken[a] = (IF a = tokenOut THEN out ELSE 0) + (IF a = ETH THEN 0 ELSE 0)
      BY <1>2, BundleAt
    <3>2. totalLiquidity[a] \in Nat
      BY <1>0 DEF Money
    <3> QED
      BY <1>1, <3>1, <3>2
  <2> QED
    BY <2>1 DEF Covers
<1>6. ASSUME NEW c \in Money, NEW d \in Money, NEW e \in Money, Covers(c, e)
      PROVE  /\ Minus(Plus(c, d), e) \in Money
             /\ \A a \in Assets : Minus(Plus(c, d), e)[a] = c[a] + (d[a] - e[a])
  <2>1. PICK p \in Money : p = Plus(c, d) /\ \A a \in Assets : p[a] = c[a] + d[a]
    BY PlusType
  <2>2. \A a \in Assets : c[a] \in Nat /\ d[a] \in Nat /\ e[a] \in Nat
    BY DEF Money
  <2>3. Covers(p, e)
    BY <1>6, <2>1, <2>2 DEF Covers
  <2>4. Minus(p, e) \in Money /\ \A a \in Assets : Minus(p, e)[a] = p[a] - e[a]
    BY <2>3, MinusType
  <2> QED
    BY <2>1, <2>2, <2>4
<1>7. /\ balance' \in Money /\ totalLiquidity' \in Money
      /\ \A a \in Assets :
           /\ balance'[a] = balance[a] + (given[a] - taken[a])
           /\ totalLiquidity'[a] = totalLiquidity[a] + (given[a] - taken[a])
  <2>1. Covers(balance, taken)
    BY <1>3
  <2>2. PICK n, m \in Money :
          /\ n = Minus(Plus(balance, given), taken)
          /\ \A a \in Assets : n[a] = balance[a] + (given[a] - taken[a])
          /\ m = Minus(Plus(totalLiquidity, given), taken)
          /\ \A a \in Assets : m[a] = totalLiquidity[a] + (given[a] - taken[a])
    <3>1. PICK n \in Money :
            /\ n = Minus(Plus(balance, given), taken)
            /\ \A a \in Assets : n[a] = balance[a] + (given[a] - taken[a])
      BY <1>0, <2>1, <1>6
    <3>2. PICK m \in Money :
            /\ m = Minus(Plus(totalLiquidity, given), taken)
            /\ \A a \in Assets : m[a] = totalLiquidity[a] + (given[a] - taken[a])
      BY <1>0, <1>5, <1>6
    <3> QED
      BY <3>1, <3>2
  <2>3. balance' = n /\ totalLiquidity' = m
    BY <1>3, <2>2
  <2> QED
    BY <2>2, <2>3
<1>8. wallet' \in [Accounts -> Money]
  <2>1. PICK w \in Money : w = Minus(Plus(wallet[user], taken), given)
    BY <1>0, <1>3, <1>6
  <2>2. wallet' = [wallet EXCEPT ![user] = w]
    BY <1>3, <2>1
  <2> QED
    BY <1>0, <2>1, <2>2
<1>9. TypeOK'
  BY <1>0, <1>3, <1>7, <1>8 DEF TypeOK, Money, requestVars
<1>10. ASSUME NEW a \in Assets PROVE Books(a)'
  <2>1. PICK d \in Int : d = given[a] - taken[a] /\ d + 0 = (d + 0) + (0 + 0)
    BY DEF Money
  <2>2. /\ balance'[a] = balance[a] + d
        /\ totalLiquidity'[a] = totalLiquidity[a] + d
    BY <1>7, <2>1
  <2>3. /\ Owed'[a] = Owed[a] + 0 /\ Leftover'[a] = Leftover[a] + 0
        /\ PaidOut'[a] = PaidOut[a] + 0
        /\ Unbooked(a)' = Unbooked(a) + 0
    BY <1>0, <1>3, <1>4, OthersSame
  <2>20. Moves(a, d, 0, d, 0, 0, 0)
    BY <2>2, <2>3 DEF Moves
  <2>21. Balanced(d, 0, d, 0, 0, 0)
    BY DEF Balanced
  <2> QED
    BY <2>20, <2>21, BooksMove
<1> QED
  BY <1>3, <1>4, <1>9, <1>10, QuietStep

LEMMA RefillIInv ==
  ASSUME IInv, NEW amount \in Nat, RefillEntryPoint(amount)
  PROVE  IInv'
<1>0. TypeOK /\ ETH \in Assets
  BY InvFacts DEF Assets
<1>1. /\ balance[ETH] >= amount
      /\ balance' = [balance EXCEPT ![ETH] = @ - amount]
      /\ unbooked' = unbooked - amount
      /\ UNCHANGED <<requestVars, fulfilledVoucherHashes, poolVars,
                     xlpVerifiedStake, block, wallet>>
  BY Zenon DEF RefillEntryPoint
<1>2. RequestsSame /\ UNCHANGED <<xlpActiveRequests, totalLiquidity>>
  BY <1>1 DEF RequestsSame, VouchersSame, requestVars, poolVars
<1>3. TypeOK'
  <2>1. PICK e \in Nat : e = balance[ETH] - amount
    BY <1>0, <1>1 DEF TypeOK
  <2>2. balance' \in [Assets -> Nat] /\ unbooked' \in Int
    BY <1>0, <1>1, <2>1 DEF TypeOK
  <2> QED
    BY <1>0, <1>1, <2>2 DEF TypeOK, requestVars, poolVars
<1>4. ASSUME NEW a \in Assets PROVE Books(a)'
  <2>1. PICK d \in Int : /\ d = IF a = ETH THEN -amount ELSE 0
                         /\ d + 0 = (0 + d) + (0 + 0)
    OBVIOUS
  <2>2. balance'[a] = balance[a] + d
    BY <1>0, <1>1, <2>1 DEF TypeOK
  <2>3. Unbooked(a)' = Unbooked(a) + d
    <3>1. unbooked \in Int /\ unbooked' \in Int
      BY <1>0, <1>1 DEF TypeOK
    <3>2. /\ Unbooked(a)' = IF a = ETH THEN unbooked' ELSE 0
          /\ Unbooked(a) = IF a = ETH THEN unbooked ELSE 0
      BY <3>1, UnbookedMoves
    <3> QED
      BY <1>1, <2>1, <3>1, <3>2
  <2>4. /\ Owed'[a] = Owed[a] + 0 /\ Leftover'[a] = Leftover[a] + 0
        /\ PaidOut'[a] = PaidOut[a] + 0
        /\ totalLiquidity'[a] = totalLiquidity[a] + 0
    BY <1>0, <1>1, <1>2, OthersSame
  <2>20. Moves(a, d, 0, 0, d, 0, 0)
    BY <2>2, <2>3, <2>4 DEF Moves
  <2>21. Balanced(d, 0, 0, d, 0, 0)
    BY DEF Balanced
  <2> QED
    BY <2>20, <2>21, BooksMove
<1> QED
  BY <1>1, <1>2, <1>3, <1>4, QuietStep

LEMMA ReceiveIInv ==
  ASSUME IInv, NEW user \in Users, NEW amount \in Nat, Receive(user, amount)
  PROVE  IInv'
<1>0. TypeOK /\ user \in Accounts
  BY InvFacts DEF Accounts
<1>1. PICK b \in Money : b = Bundle(ETH, amount, 0)
  BY BundleType
<1>2. /\ PayIn(user, b) /\ unbooked' = unbooked + amount
      /\ UNCHANGED <<requestVars, fulfilledVoucherHashes, poolVars,
                     xlpVerifiedStake, block>>
  BY <1>1, Zenon DEF Receive
<1>3. RequestsSame /\ UNCHANGED <<xlpActiveRequests, totalLiquidity>>
  BY <1>2 DEF RequestsSame, VouchersSame, requestVars, poolVars
<1>4. /\ balance' \in Money /\ wallet' \in [Accounts -> Money]
      /\ \A a \in Assets : balance'[a] = balance[a] + b[a]
  BY <1>0, <1>2, PayInOK
<1>5. unbooked' \in Int /\ unbooked \in Int
  BY <1>0, <1>2 DEF TypeOK
<1>6. TypeOK'
  BY <1>0, <1>2, <1>4, <1>5 DEF TypeOK, Money, requestVars, poolVars
<1>7. ASSUME NEW a \in Assets PROVE Books(a)'
  <2>1. PICK d \in Int : /\ d = b[a] /\ d + 0 = (0 + d) + (0 + 0)
    BY DEF Money
  <2>2. Unbooked(a)' = Unbooked(a) + d
    <3>1. /\ Unbooked(a)' = IF a = ETH THEN unbooked' ELSE 0
          /\ Unbooked(a) = IF a = ETH THEN unbooked ELSE 0
      BY <1>5, UnbookedMoves
    <3>2. b[a] = (IF a = ETH THEN amount ELSE 0) + (IF a = ETH THEN 0 ELSE 0)
      BY <1>1, BundleAt
    <3> QED
      BY <1>2, <1>5, <2>1, <3>1, <3>2
  <2>3. /\ Owed'[a] = Owed[a] + 0 /\ Leftover'[a] = Leftover[a] + 0
        /\ PaidOut'[a] = PaidOut[a] + 0
        /\ totalLiquidity'[a] = totalLiquidity[a] + 0
    BY <1>0, <1>2, <1>3, OthersSame
  <2>4. balance'[a] = balance[a] + d
    BY <1>4, <2>1
  <2>20. Moves(a, d, 0, 0, d, 0, 0)
    BY <2>2, <2>3, <2>4 DEF Moves
  <2>21. Balanced(d, 0, 0, d, 0, 0)
    BY DEF Balanced
  <2> QED
    BY <2>20, <2>21, BooksMove
<1> QED
  BY <1>2, <1>3, <1>6, <1>7, QuietStep

LEMMA TickIInv ==
  ASSUME IInv, Tick
  PROVE  IInv'
<1>1. /\ block' = block + 1 /\ block < MaxBlock
      /\ UNCHANGED <<requestVars, fulfilledVoucherHashes, poolVars,
                     xlpVerifiedStake, moneyVars, unbooked>>
  BY DEF Tick
<1>2. /\ RequestsSame /\ UNCHANGED <<totalLiquidity, balance, xlpActiveRequests>>
  BY <1>1 DEF RequestsSame, VouchersSame, requestVars, poolVars, moneyVars
<1>3. block \in Nat /\ block' \in 0..MaxBlock
  BY <1>1, BlockType, InvFacts, PaymasterAssumption
<1>4. TypeOK'
  BY <1>1, <1>3, InvFacts DEF TypeOK, requestVars, poolVars, moneyVars
<1>5. \A a \in Assets : Books(a)'
  BY <1>1, <1>2, SameBooks
<1>6. ActiveIsExact'
  BY <1>2, InvFacts, SameActive DEF RequestsSame
<1>7. IssuedForClaimed'
  <2>1. \A r \in Requests : voucherRequests[r].created \in Nat
    BY InvFacts, RequestTypes DEF VoucherRequest
  <2>2. \A r \in Requests : voucherRequests[r].created <= block'
    BY <1>1, <1>3, <2>1, InvFacts DEF IssuedForClaimed
  <2> QED
    BY <1>2, <2>2, InvFacts DEF IssuedForClaimed, RequestsSame, VouchersSame
<1> QED
  BY <1>4, <1>5, <1>6, <1>7, BooksAre DEF IInv

LEMMA NextIInv == IInv /\ [Next]_vars => IInv'
<1> SUFFICES ASSUME IInv, [Next]_vars PROVE IInv'
  OBVIOUS
<1>0. /\ Amounts \subseteq Nat /\ MaxFees \subseteq Nat /\ Increments \subseteq Nat
      /\ Stakes \subseteq Nat /\ Allowlists \subseteq SUBSET Xlps
  BY PaymasterAssumption
<1>1. ASSUME NEW user \in Users, NEW r \in Requests, NEW asset \in Assets,
             NEW amount \in Amounts, NEW maxFee \in MaxFees,
             NEW increment \in Increments, NEW allowed \in Allowlists,
             CreateVoucherRequest(user, r, asset, amount, maxFee, increment, allowed)
      PROVE  IInv'
  BY <1>0, <1>1, CreateIInv
<1>2. ASSUME NEW x \in Xlps, NEW r \in Requests, SubmitBid(x, r) \/ IssueVoucher(x, r)
      PROVE  IInv'
  BY <1>2, SubmitBidIInv, IssueIInv
<1>3. ASSUME NEW r \in Requests, RefundExpiredRequest(r) \/ ClaimSourceFunds(r)
      PROVE  IInv'
  BY <1>3, RefundIInv, ClaimIInv
<1>4. ASSUME NEW v \in Vouchers, MarkVoucherFulfilled(v)
      PROVE  IInv'
  BY <1>4, MarkIInv
<1>5. ASSUME NEW x \in Xlps, NEW stake \in Stakes, UpdateXLPStake(x, stake)
      PROVE  IInv'
  BY <1>0, <1>5, UpdateStakeIInv
<1>6. ASSUME NEW f \in Fulfilments, FulfillVoucher(f)
      PROVE  IInv'
  BY <1>6, FulfillIInv
<1>7. ASSUME NEW x \in Xlps, NEW asset \in Assets, NEW amount \in Amounts,
             Deposit(x, asset, amount) \/ Withdraw(x, asset, amount)
      PROVE  IInv'
  BY <1>0, <1>7, DepositIInv, WithdrawIInv
<1>8. ASSUME NEW user \in Users, NEW tokenIn \in Assets, NEW tokenOut \in Assets,
             NEW amount \in Amounts, Swap(user, tokenIn, tokenOut, amount)
      PROVE  IInv'
  BY <1>0, <1>8, SwapIInv
<1>9. ASSUME NEW amount \in Amounts, RefillEntryPoint(amount)
      PROVE  IInv'
  BY <1>0, <1>9, RefillIInv
<1>10. ASSUME NEW user \in Users, NEW amount \in Amounts, Receive(user, amount)
       PROVE  IInv'
  BY <1>0, <1>10, ReceiveIInv
<1>11. CASE UNCHANGED vars
  <2>1. UNCHANGED <<requestVars, fulfilledVoucherHashes, poolVars, xlpVerifiedStake,
                    block, moneyVars, unbooked>>
    BY <1>11 DEF vars
  <2>2. /\ RequestsSame /\ UNCHANGED <<xlpActiveRequests, totalLiquidity, balance>>
    BY <2>1 DEF RequestsSame, VouchersSame, requestVars, poolVars, moneyVars
  <2>3. TypeOK'
    BY <2>1, InvFacts DEF TypeOK, requestVars, poolVars, moneyVars
  <2> QED
    BY <2>1, <2>2, <2>3, SameBooks, QuietStep
<1> QED
  BY <1>1, <1>2, <1>3, <1>4, <1>5, <1>6, <1>7, <1>8, <1>9, <1>10, <1>11, TickIInv,
     Zenon DEF Next

-----------------------------------------------------------------------------
(* The theorems.                                                           *)

(* The paymaster's state keeps its types: no counter and no balance goes   *)
(* below zero, and a swap gives no more than the pool holds.               *)
THEOREM TypeCorrect == Spec => []TypeOK
<1>1. IInv => TypeOK
  BY DEF IInv
<1> QED
  BY InitIInv, NextIInv, <1>1, PTL DEF Spec

(* The one balance per asset is explained by the pool, the requests that   *)
(* are not settled, the fees left over and the fulfilments, after every    *)
(* call; the vouchers an XLP may claim for are counted.                    *)
THEOREM BooksExplainedHolds == Spec => []BooksExplained
<1>1. IInv => BooksExplained
  BY DEF IInv
<1> QED
  BY InitIInv, NextIInv, <1>1, PTL DEF Spec

-----------------------------------------------------------------------------
(* What a step may do to a request that can be refunded.                   *)

LEMMA ExpiredStep ==
  ASSUME IInv, [Next]_vars, NEW r \in Requests,
         block > Deadline(r), voucherRequests[r].state = "open"
  PROVE  /\ UNCHANGED <<vouchers[r].xlp, bidders[r]>>
         /\ voucherRequests'[r].state \in {"open", "refunded"}
<1>0. /\ TypeOK
      /\ voucherRequests \in [Requests -> VoucherRequest]
      /\ vouchers \in [Vouchers -> Voucher]
      /\ bidders \in [Requests -> SUBSET Xlps]
  BY InvFacts DEF TypeOK
<1>1. ~(block <= Deadline(r))
  <2>1. block \in Nat /\ voucherRequests[r].created \in Nat /\ REQUEST_TIMEOUT \in Nat
    BY <1>0, BlockType, PaymasterAssumption DEF VoucherRequest
  <2>2. Deadline(r) \in Nat
    BY <2>1 DEF Deadline
  <2> QED
    BY <2>1, <2>2
<1>2. ASSUME UNCHANGED <<voucherRequests, bidders>>, RequestsSame
      PROVE  /\ UNCHANGED <<vouchers[r].xlp, bidders[r]>>
             /\ voucherRequests'[r].state \in {"open", "refunded"}
  BY <1>2 DEF RequestsSame, VouchersSame
<1>3. ASSUME NEW user, NEW q \in Requests, NEW asset, NEW amount, NEW maxFee,
             NEW increment, NEW allowed,
             CreateVoucherRequest(user, q, asset, amount, maxFee, increment, allowed)
      PROVE  /\ UNCHANGED <<vouchers[r].xlp, bidders[r]>>
             /\ voucherRequests'[r].state \in {"open", "refunded"}
  <2>1. q # r
    BY <1>3 DEF CreateVoucherRequest
  <2>2. voucherRequests'[r] = voucherRequests[r] /\ UNCHANGED <<vouchers, bidders>>
    BY <1>0, <1>3, <2>1 DEF CreateVoucherRequest
  <2> QED
    BY <2>2
<1>4. ASSUME NEW x, NEW q \in Requests, SubmitBid(x, q) \/ IssueVoucher(x, q)
      PROVE  /\ UNCHANGED <<vouchers[r].xlp, bidders[r]>>
             /\ voucherRequests'[r].state \in {"open", "refunded"}
  <2>1. q # r
    BY <1>1, <1>4 DEF SubmitBid, IssueVoucher, Biddable
  <2>2. /\ voucherRequests'[r] = voucherRequests[r] /\ vouchers'[r] = vouchers[r]
        /\ bidders'[r] = bidders[r]
    BY <1>0, <1>4, <2>1 DEF SubmitBid, IssueVoucher, Vouchers
  <2> QED
    BY <2>2
<1>5. ASSUME NEW q \in Requests, RefundExpiredRequest(q)
      PROVE  /\ UNCHANGED <<vouchers[r].xlp, bidders[r]>>
             /\ voucherRequests'[r].state \in {"open", "refunded"}
  <2>1. /\ voucherRequests' = [voucherRequests EXCEPT ![q].state = "refunded"]
        /\ UNCHANGED <<vouchers, bidders>>
    BY <1>5 DEF RefundExpiredRequest
  <2>2. voucherRequests'[r].state \in {"open", "refunded"}
    <3>1. CASE q = r
      BY <1>0, <2>1, <3>1 DEF VoucherRequest
    <3>2. CASE q # r
      BY <1>0, <2>1, <3>2
    <3> QED
      BY <3>1, <3>2
  <2> QED
    BY <2>1, <2>2
<1>6. ASSUME NEW q \in Requests, ClaimSourceFunds(q)
      PROVE  /\ UNCHANGED <<vouchers[r].xlp, bidders[r]>>
             /\ voucherRequests'[r].state \in {"open", "refunded"}
  <2>1. q # r
    BY <1>6, InvFacts DEF ClaimSourceFunds, Claimable, IssuedForClaimed
  <2>2. vouchers'[r] = vouchers[r] /\ UNCHANGED <<voucherRequests, bidders>>
    BY <1>0, <1>6, <2>1 DEF ClaimSourceFunds, Vouchers
  <2> QED
    BY <2>2
<1>7. ASSUME NEW w \in Vouchers, UNCHANGED <<voucherRequests, bidders>>,
             vouchers' = [vouchers EXCEPT ![w].fulfilled = TRUE]
      PROVE  /\ UNCHANGED <<vouchers[r].xlp, bidders[r]>>
             /\ voucherRequests'[r].state \in {"open", "refunded"}
  BY <1>0, <1>2, <1>7, Marked
<1>8. ASSUME UNCHANGED requestVars
      PROVE  /\ UNCHANGED <<vouchers[r].xlp, bidders[r]>>
             /\ voucherRequests'[r].state \in {"open", "refunded"}
  BY <1>8 DEF requestVars
<1>9. ASSUME NEW w \in Vouchers, MarkVoucherFulfilled(w)
      PROVE  /\ UNCHANGED <<vouchers[r].xlp, bidders[r]>>
             /\ voucherRequests'[r].state \in {"open", "refunded"}
  BY <1>7, <1>9 DEF MarkVoucherFulfilled
<1>10. ASSUME NEW f \in Fulfilments, FulfillVoucher(f)
       PROVE  /\ UNCHANGED <<vouchers[r].xlp, bidders[r]>>
              /\ voucherRequests'[r].state \in {"open", "refunded"}
  BY <1>7, <1>10, FulfilmentTypes DEF FulfillVoucher
<1> QED
  BY <1>3, <1>4, <1>5, <1>6, <1>8, <1>9, <1>10, Zenon
     DEF Next, UpdateXLPStake, Deposit, Withdraw, Swap, RefillEntryPoint, Receive,
         Tick, vars

(* From the block on in which the user may count on a refund, no call of   *)
(* an XLP takes the request or bids on it.                                 *)
THEOREM ExpiredIsForUserHolds == Spec => ExpiredIsForUser
<1>1. ASSUME IInv, [Next]_vars
      PROVE  [\A r \in Requests :
                block > Deadline(r) /\ voucherRequests[r].state = "open" =>
                  /\ UNCHANGED <<vouchers[r].xlp, bidders[r]>>
                  /\ voucherRequests'[r].state \in {"open", "refunded"}]_vars
  BY <1>1, ExpiredStep
<1> QED
  BY <1>1, InitIInv, NextIInv, PTL DEF Spec, ExpiredIsForUser
=============================================================================
