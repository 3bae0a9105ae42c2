------------------------ MODULE CrossChainPaymaster -------------------------
(***************************************************************************)
(* Cross-chain transfers by voucher, and the pool of liquidity behind      *)
(* them, on one chain: src/packages/contracts/src/eil/                     *)
(* CrossChainPaymaster.sol.  As the source of a transfer it locks a user's *)
(* funds, auctions the request to XLPs, and pays the one that issued the   *)
(* voucher once it was fulfilled; as the destination it pays the recipient *)
(* from the XLP's deposit; and anyone swaps against all deposits.  Funds   *)
(* of all these kinds are one balance per asset.  A transaction is one     *)
(* step; a transfer that fails reverts it.  Gas sponsorship is left out.   *)
(***************************************************************************)
EXTENDS Integers, FiniteSetsExt, Functions

CONSTANTS
  ETH,              (* address(0)                                          *)
  Tokens,           (* supportedTokens other than ETH                      *)
  Users, Xlps,
  NoXlp,
  Requests,         (* request ids, each used once; also the voucher's     *)
  Remote,           (* vouchers issued on other chains                     *)
  Fulfilments,      (* what XLPs sign for this chain as the destination    *)
  MIN_FEE, REQUEST_TIMEOUT, CLAIM_DELAY,
  MIN_XLP_STAKE,    (* 0.01 ether                                          *)
  BASIS_POINTS, swapFeeBps,
  InitialFunds,
  Amounts, MaxFees, Increments, Allowlists,
  Stakes,           (* stakes that L1 reports                              *)
  MaxBlock          (* Bound: the last block explored                      *)

Assets == {ETH} \cup Tokens
Accounts == Users \cup Xlps
Vouchers == Requests \cup Remote

ASSUME PaymasterAssumption ==
  /\ ETH \notin Tokens /\ NoXlp \notin Xlps /\ Requests \cap Remote = {}
  /\ Users # {} /\ IsFiniteSet(Requests) /\ IsFiniteSet(Fulfilments)
  /\ MIN_FEE \in Nat /\ REQUEST_TIMEOUT \in Nat /\ CLAIM_DELAY \in Nat
  /\ MIN_XLP_STAKE \in Nat /\ MaxBlock \in Nat
  /\ BASIS_POINTS \in Nat \ {0} /\ swapFeeBps \in 0..BASIS_POINTS
  /\ InitialFunds \in [Accounts -> [Assets -> Nat]]
  /\ Amounts \subseteq Nat /\ MaxFees \subseteq Nat /\ Increments \subseteq Nat
  /\ Stakes \subseteq Nat /\ Allowlists \subseteq SUBSET Xlps
  /\ Fulfilments \subseteq [voucher : Vouchers, xlp : Xlps, asset : Assets,
                            amount : Nat, gas : Nat, recipient : Users]

VARIABLES
  voucherRequests,          (* [Requests -> VoucherRequest]                *)
  bidders,                  (* requestBidders, [Requests -> SUBSET Xlps]   *)
  vouchers,                 (* [Vouchers -> Voucher]                       *)
  fulfilledVoucherHashes,   (* SUBSET Fulfilments                          *)
  xlpDeposits,              (* with xlpETHDeposits, [Xlps -> [Assets->Nat]]*)
  totalLiquidity,           (* totalTokenLiquidity and totalETHLiquidity   *)
  xlpActiveRequests,
  xlpVerifiedStake,
  block, balance, wallet,
  unbooked                  (* ghost: ETH from receive(), less refills     *)

requestVars == <<voucherRequests, bidders, vouchers, xlpActiveRequests>>
poolVars == <<xlpDeposits, totalLiquidity>>
moneyVars == <<balance, wallet>>
vars == <<requestVars, fulfilledVoucherHashes, poolVars, xlpVerifiedStake,
          block, moneyVars, unbooked>>

VoucherRequest ==
  [state : {"none", "open", "claimed", "refunded"}, user : Users, asset : Assets,
   amount : Nat, maxFee : Nat, increment : Nat, created : Nat,
   allowed : SUBSET Xlps]
Voucher == [xlp : Xlps \cup {NoXlp}, fee : Nat, issued : Nat,
            fulfilled : BOOLEAN, claimed : BOOLEAN]

NoRequest == [state |-> "none", user |-> CHOOSE u \in Users : TRUE,
              asset |-> ETH, amount |-> 0, maxFee |-> 0, increment |-> 0,
              created |-> 0, allowed |-> {}]
NoVoucher == [xlp |-> NoXlp, fee |-> 0, issued |-> 0, fulfilled |-> FALSE,
              claimed |-> FALSE]

Init ==
  /\ voucherRequests = [r \in Requests |-> NoRequest]
  /\ bidders = [r \in Requests |-> {}]
  /\ vouchers = [v \in Vouchers |-> NoVoucher]
  /\ fulfilledVoucherHashes = {}
  /\ xlpDeposits = [x \in Xlps |-> [a \in Assets |-> 0]]
  /\ totalLiquidity = [a \in Assets |-> 0]
  /\ xlpActiveRequests = [x \in Xlps |-> 0]
  /\ xlpVerifiedStake = [x \in Xlps |-> 0]
  /\ block = 0
  /\ balance = [a \in Assets |-> 0]
  /\ wallet = InitialFunds
  /\ unbooked = 0

-----------------------------------------------------------------------------
(* Amounts of every asset.  Fees and gas are always in ETH.                *)

Bundle(asset, amount, eth) ==
  [a \in Assets |-> (IF a = asset THEN amount ELSE 0) + (IF a = ETH THEN eth ELSE 0)]
Plus(b, c)  == [a \in Assets |-> b[a] + c[a]]
Minus(b, c) == [a \in Assets |-> b[a] - c[a]]
Covers(b, c) == \A a \in Assets : b[a] >= c[a]

PayIn(who, b) ==
  /\ Covers(wallet[who], b)
  /\ wallet' = [wallet EXCEPT ![who] = Minus(@, b)]
  /\ balance' = Plus(balance, b)

PayOut(who, b) ==
  /\ Covers(balance, b)
  /\ wallet' = [wallet EXCEPT ![who] = Plus(@, b)]
  /\ balance' = Minus(balance, b)

-----------------------------------------------------------------------------
(* The source chain.                                                       *)

Locked(r) == Bundle(voucherRequests[r].asset, voucherRequests[r].amount,
                    voucherRequests[r].maxFee)
Deadline(r) == voucherRequests[r].created + REQUEST_TIMEOUT

(* With or without an allowlist; what is sent beyond the need comes back.  *)
CreateVoucherRequest(u, r, asset, amount, maxFee, increment, allowed) ==
  /\ voucherRequests[r].state = "none"
  /\ amount > 0 /\ maxFee >= MIN_FEE
  /\ PayIn(u, Bundle(asset, amount, maxFee))
  /\ voucherRequests' = [voucherRequests EXCEPT ![r] =
       [state |-> "open", user |-> u, asset |-> asset, amount |-> amount,
        maxFee |-> maxFee, increment |-> increment, created |-> block,
        allowed |-> allowed]]
  /\ UNCHANGED <<bidders, vouchers, xlpActiveRequests, fulfilledVoucherHashes,
                 poolVars, xlpVerifiedStake, block, unbooked>>

(* The reverse Dutch auction: the fee rises with every block, to maxFee.   *)
CurrentFee(r) ==
  Min({MIN_FEE + (block - voucherRequests[r].created) * voucherRequests[r].increment,
       voucherRequests[r].maxFee})

(* Mutated form: a request is taken as long as nobody had it refunded.     *)
Biddable_late(x, r) ==
  /\ voucherRequests[r].state = "open"
  /\ voucherRequests[r].allowed = {} \/ x \in voucherRequests[r].allowed

(* An empty allowlist lets everyone in.                                    *)
Biddable(x, r) ==
  /\ voucherRequests[r].state = "open"
  /\ block <= Deadline(r)
  /\ voucherRequests[r].allowed = {} \/ x \in voucherRequests[r].allowed

(* A bid commits to nothing, and nothing later asks for one.               *)
SubmitBid(x, r) ==
  /\ Biddable(x, r)
  /\ x \notin bidders[r]
  /\ bidders' = [bidders EXCEPT ![r] = @ \cup {x}]
  /\ UNCHANGED <<voucherRequests, vouchers, xlpActiveRequests,
                 fulfilledVoucherHashes, poolVars, xlpVerifiedStake, block,
                 moneyVars, unbooked>>

(* Mutated form: a request that XLPs bid on is left to them.               *)
Refundable_noBids(r) == voucherRequests[r].state = "open" /\ bidders[r] = {}

Refundable(r) == voucherRequests[r].state = "open"

(* By anyone, to the requester.                                            *)
RefundExpiredRequest(r) ==
  /\ Refundable(r)
  /\ block > Deadline(r)
  /\ voucherRequests' = [voucherRequests EXCEPT ![r].state = "refunded"]
  /\ PayOut(voucherRequests[r].user, Locked(r))
  /\ UNCHANGED <<bidders, vouchers, xlpActiveRequests, fulfilledVoucherHashes,
                 poolVars, xlpVerifiedStake, block, unbooked>>

(* A tenth of the amount, and at least MIN_XLP_STAKE.                      *)
RequiredStake(r) == Max({voucherRequests[r].amount \div 10, MIN_XLP_STAKE})

IssueVoucher(x, r) ==
  /\ Biddable(x, r)
  /\ xlpVerifiedStake[x] >= RequiredStake(r)
  /\ voucherRequests' = [voucherRequests EXCEPT ![r].state = "claimed"]
  /\ vouchers' = [vouchers EXCEPT ![r] =
       [xlp |-> x, fee |-> CurrentFee(r), issued |-> block,
        fulfilled |-> FALSE, claimed |-> FALSE]]
  /\ xlpActiveRequests' = [xlpActiveRequests EXCEPT ![x] = @ + 1]
  /\ UNCHANGED <<bidders, fulfilledVoucherHashes, poolVars, xlpVerifiedStake,
                 block, moneyVars, unbooked>>

(* By a message from L1, or by the owner.                                  *)
MarkVoucherFulfilled(v) ==
  /\ vouchers[v].xlp # NoXlp
  /\ ~vouchers[v].fulfilled
  /\ vouchers' = [vouchers EXCEPT ![v].fulfilled = TRUE]
  /\ UNCHANGED <<voucherRequests, bidders, xlpActiveRequests,
                 fulfilledVoucherHashes, poolVars, xlpVerifiedStake, block,
                 moneyVars, unbooked>>

Finish(x) == xlpActiveRequests' = [xlpActiveRequests EXCEPT ![x] = @ - 1]

(* Mutated form: a voucher can be claimed for again.                       *)
Claimable_again(r) ==
  /\ vouchers[r].xlp # NoXlp /\ vouchers[r].fulfilled
  /\ block >= vouchers[r].issued + CLAIM_DELAY

Claimable(r) ==
  /\ vouchers[r].xlp # NoXlp /\ vouchers[r].fulfilled /\ ~vouchers[r].claimed
  /\ block >= vouchers[r].issued + CLAIM_DELAY

(* By the XLP of the voucher.  What is left of maxFee stays here.          *)
ClaimSourceFunds(r) ==
  /\ Claimable(r)
  /\ vouchers' = [vouchers EXCEPT ![r].claimed = TRUE]
  /\ Finish(vouchers[r].xlp)
  /\ PayOut(vouchers[r].xlp,
            Bundle(voucherRequests[r].asset, voucherRequests[r].amount,
                   vouchers[r].fee))
  /\ UNCHANGED <<voucherRequests, bidders, fulfilledVoucherHashes, poolVars,
                 xlpVerifiedStake, block, unbooked>>

(* What L1 last reported, or the owner said.                               *)
UpdateXLPStake(x, stake) ==
  /\ xlpVerifiedStake' = [xlpVerifiedStake EXCEPT ![x] = stake]
  /\ UNCHANGED <<requestVars, fulfilledVoucherHashes, poolVars, block, moneyVars,
                 unbooked>>

-----------------------------------------------------------------------------
(* The destination chain, and the pool.                                    *)

(* Mutated form: the signature is checked, but not that it is new.         *)
IsNew_unchecked(f) == TRUE

IsNew(f) == f \notin fulfilledVoucherHashes

(* The XLP's deposit pays the recipient; totalLiquidity stays as it was.   *)
FulfillVoucher(f) ==
  LET b == Bundle(f.asset, f.amount, f.gas)
  IN  /\ IsNew(f)
      /\ Covers(xlpDeposits[f.xlp], b)
      /\ fulfilledVoucherHashes' = fulfilledVoucherHashes \cup {f}
      /\ vouchers' = [vouchers EXCEPT ![f.voucher].fulfilled = TRUE]
      /\ xlpDeposits' = [xlpDeposits EXCEPT ![f.xlp] = Minus(@, b)]
      /\ PayOut(f.recipient, b)
      /\ UNCHANGED <<voucherRequests, bidders, xlpActiveRequests, totalLiquidity,
                     xlpVerifiedStake, block, unbooked>>

(* depositETH and depositLiquidity.                                        *)
Deposit(x, asset, amount) ==
  /\ amount > 0
  /\ PayIn(x, Bundle(asset, amount, 0))
  /\ xlpDeposits' = [xlpDeposits EXCEPT ![x][asset] = @ + amount]
  /\ totalLiquidity' = [totalLiquidity EXCEPT ![asset] = @ + amount]
  /\ UNCHANGED <<requestVars, fulfilledVoucherHashes, xlpVerifiedStake, block,
                 unbooked>>

(* withdrawETH and withdrawLiquidity; each subtraction reverts if negative.*)
Withdraw(x, asset, amount) ==
  /\ xlpDeposits[x][asset] >= amount /\ totalLiquidity[asset] >= amount
  /\ xlpDeposits' = [xlpDeposits EXCEPT ![x][asset] = @ - amount]
  /\ totalLiquidity' = [totalLiquidity EXCEPT ![asset] = @ - amount]
  /\ PayOut(x, Bundle(asset, amount, 0))
  /\ UNCHANGED <<requestVars, fulfilledVoucherHashes, xlpVerifiedStake, block,
                 unbooked>>

(* x*y=k over the totals, rounded down, after the fee.                     *)
AmountOut(amountIn, reserveIn, reserveOut) ==
  LET afterFee == amountIn * (BASIS_POINTS - swapFeeBps)
  IN  (afterFee * reserveOut) \div (reserveIn * BASIS_POINTS + afterFee)

Swap(u, tokenIn, tokenOut, amountIn) ==
  LET out == AmountOut(amountIn, totalLiquidity[tokenIn], totalLiquidity[tokenOut])
      given == Bundle(tokenIn, amountIn, 0)
      taken == Bundle(tokenOut, out, 0)
  IN  /\ amountIn > 0 /\ tokenIn # tokenOut
      /\ totalLiquidity[tokenIn] > 0 /\ totalLiquidity[tokenOut] > 0
      /\ Covers(wallet[u], given) /\ Covers(balance, taken)
      /\ totalLiquidity' = Minus(Plus(totalLiquidity, given), taken)
      /\ wallet' = [wallet EXCEPT ![u] = Minus(Plus(@, taken), given)]
      /\ balance' = Minus(Plus(balance, given), taken)
      /\ UNCHANGED <<requestVars, fulfilledVoucherHashes, xlpDeposits,
                     xlpVerifiedStake, block, unbooked>>

(* The owner moves ETH of the pool to the EntryPoint, and totalLiquidity   *)
(* stays as it was.                                                        *)
RefillEntryPoint(amount) ==
  /\ totalLiquidity[ETH] >= amount /\ balance[ETH] >= amount
  /\ balance' = [balance EXCEPT ![ETH] = @ - amount]
  /\ unbooked' = unbooked - amount
  /\ UNCHANGED <<requestVars, fulfilledVoucherHashes, poolVars, xlpVerifiedStake,
                 block, wallet>>

Receive(u, amount) ==
  /\ PayIn(u, Bundle(ETH, amount, 0))
  /\ unbooked' = unbooked + amount
  /\ UNCHANGED <<requestVars, fulfilledVoucherHashes, poolVars, xlpVerifiedStake,
                 block>>

Tick ==
  /\ block < MaxBlock
  /\ block' = block + 1
  /\ UNCHANGED <<requestVars, fulfilledVoucherHashes, poolVars, xlpVerifiedStake,
                 moneyVars, unbooked>>

Next ==
  \/ \E u \in Users, r \in Requests, asset \in Assets, amount \in Amounts,
        maxFee \in MaxFees, increment \in Increments, allowed \in Allowlists :
       CreateVoucherRequest(u, r, asset, amount, maxFee, increment, allowed)
  \/ \E x \in Xlps, r \in Requests : SubmitBid(x, r) \/ IssueVoucher(x, r)
  \/ \E r \in Requests : RefundExpiredRequest(r) \/ ClaimSourceFunds(r)
  \/ \E v \in Vouchers : MarkVoucherFulfilled(v)
  \/ \E x \in Xlps, stake \in Stakes : UpdateXLPStake(x, stake)
  \/ \E f \in Fulfilments : FulfillVoucher(f)
  \/ \E x \in Xlps, asset \in Assets, amount \in Amounts :
       Deposit(x, asset, amount) \/ Withdraw(x, asset, amount)
  \/ \E u \in Users, tokenIn, tokenOut \in Assets, amount \in Amounts :
       Swap(u, tokenIn, tokenOut, amount)
  \/ \E amount \in Amounts : RefillEntryPoint(amount)
  \/ \E u \in Users, amount \in Amounts : Receive(u, amount)
  \/ Tick

Spec == Init /\ [][Next]_vars

(* Blocks follow; somebody, the user for one, has an expired request       *)
(* refunded; and an XLP claims what it is owed.                            *)
FairSpec ==
  /\ Spec /\ WF_vars(Tick)
  /\ \A r \in Requests :
       WF_vars(RefundExpiredRequest(r)) /\ WF_vars(ClaimSourceFunds(r))

-----------------------------------------------------------------------------
(* Correctness.                                                            *)

TypeOK ==
  /\ voucherRequests \in [Requests -> VoucherRequest]
  /\ bidders \in [Requests -> SUBSET Xlps]
  /\ vouchers \in [Vouchers -> Voucher]
  /\ fulfilledVoucherHashes \subseteq Fulfilments
  /\ xlpDeposits \in [Xlps -> [Assets -> Nat]]
  /\ totalLiquidity \in [Assets -> Nat]
  /\ xlpActiveRequests \in [Xlps -> Nat]
  /\ xlpVerifiedStake \in [Xlps -> Nat]
  /\ block \in 0..MaxBlock
  /\ balance \in [Assets -> Nat] /\ wallet \in [Accounts -> [Assets -> Nat]]
  /\ unbooked \in Int

(* What is still owed for requests, what stayed of their maximal fees, and *)
(* what fulfilments took.                                                  *)
Unsettled(r) == \/ voucherRequests[r].state = "open"
                \/ voucherRequests[r].state = "claimed" /\ ~vouchers[r].claimed
LockedNow(r) == [a \in Assets |-> IF Unsettled(r) THEN Locked(r)[a] ELSE 0]
FeeLeft(r) ==
  Bundle(ETH, 0, IF vouchers[r].claimed
                 THEN voucherRequests[r].maxFee - vouchers[r].fee ELSE 0)
Paid(f) == [a \in Assets |-> IF f \in fulfilledVoucherHashes
                             THEN Bundle(f.asset, f.amount, f.gas)[a] ELSE 0]
Owed == [a \in Assets |-> SumFunction([r \in Requests |-> LockedNow(r)[a]])]
Leftover == [a \in Assets |-> SumFunction([r \in Requests |-> FeeLeft(r)[a]])]
PaidOut == [a \in Assets |-> SumFunction([f \in Fulfilments |-> Paid(f)[a]])]

(* xlpActiveRequests counts the vouchers that an XLP issued and did not    *)
(* claim for yet.                                                          *)
ActiveIsExact ==
  \A x \in Xlps :
    xlpActiveRequests[x] =
      Cardinality({r \in Requests : vouchers[r].xlp = x /\ ~vouchers[r].claimed})

(* Every request is settled once, by a refund of all it locked or by a     *)
(* claim of the amount and the auctioned fee, and every signed fulfilment  *)
(* pays once, however requests, claims, deposits, swaps and refills        *)
(* interleave on the one balance: it is the pool's total, less what        *)
(* fulfilments took, plus what is owed and left over.  The vouchers that   *)
(* XLPs may still claim for are counted.                                   *)
BooksExplained ==
  /\ Plus(balance, PaidOut) =
       Plus(Plus(totalLiquidity, Bundle(ETH, 0, unbooked)),
            Plus(Owed, Leftover))
  /\ ActiveIsExact

(* A request that can be refunded is no longer auctioned: from the block   *)
(* on in which the user may count on a refund, no XLP can take the request *)
(* or bid on it.                                                           *)
ExpiredIsForUser ==
  [][\A r \in Requests :
       block > Deadline(r) /\ voucherRequests[r].state = "open" =>
         /\ UNCHANGED <<vouchers[r].xlp, bidders[r]>>
         /\ voucherRequests'[r].state \in {"open", "refunded"}]_vars

(* A request does not stay open, and the XLP of a fulfilled voucher is     *)
(* paid, unless the pool has taken the funds of users.                     *)
Short == ~Covers(balance, Owed)
Expiring(r) == voucherRequests[r].state = "open" /\ Deadline(r) < MaxBlock
Deserved(r) == /\ vouchers[r].xlp # NoXlp /\ vouchers[r].fulfilled
               /\ vouchers[r].issued + CLAIM_DELAY <= MaxBlock
EveryRequestEnds ==
  \A r \in Requests :
    /\ Expiring(r) ~> voucherRequests[r].state # "open" \/ Short
    /\ Deserved(r) ~> vouchers[r].claimed \/ Short
=============================================================================
