# TLA+ models of the Jeju intent and cross-chain liquidity layer

Jeju is an OP-stack layer 2 with its contracts, services and applications in
one repository. This directory models the part of it that moves money between
chains, the Open Intents Framework (OIF) and the Ethereum Interop Layer (EIL),
and two services with their clients: the x402 payment facilitator and the
messaging relay.
Paths below are relative to the repository (`src/`); `oif/` and `eil/` stand for
`packages/contracts/src/oif/` and `packages/contracts/src/eil/`.

1. [The system](#1-the-system)
2. [The modules](#2-the-modules)
3. [The runs](#3-the-runs)
4. [Fairness](#4-fairness)
5. [The proofs](#5-the-proofs)
6. [Disagreements found](#6-disagreements-found)
7. [What is not modelled](#7-what-is-not-modelled)
8. [Plan](#8-plan)

## 1. The system

### How an intent moves

    user --open/openFor--> InputSettler (source chain)
                              | Open event
                              v
                        solver agent --fillDirect--> OutputSettler (destination)
                              |                          | fill record
                              |                          v
                              |                 transport / attesters
                              |                          v
                              +--settle--> InputSettler <-- oracle attestation
    anyone --refund--> InputSettler, after the fill deadline

    XLP --stake--> L1StakeManager --syncStakeToL2--> CrossChainPaymaster (each L2)
    user --createVoucherRequest--> CrossChainPaymaster (source)
    XLP --issueVoucher--> source;  --fulfillVoucher--> CrossChainPaymaster (destination)
    L1 or owner --markVoucherFulfilled--> source;  XLP --claimSourceFunds--> source

    client --verify, settle, settle/gasless--> facilitator --settle--> X402Facilitator
    sender --POST /send--> relay --WebSocket--> recipient, when it is subscribed

### Inventory

| Component | State it keeps | Operations | Hard about it | Correct when |
|---|---|---|---|---|
| Input settler, `oif/InputSettler.sol` | orders by hash, nonces, oracle, token balance | open, openFor, claimOrder, settle, refund, setOracle | settle and refund race; an id can be opened twice in a block; the oracle can be swapped | each deposit leaves once, to the right side, and does leave |
| Output settler, `oif/OutputSettler.sol` | fill records, deposits of solvers | deposit, withdraw, fill, fillDirect, receive | two ways to fill, two sources of money each; anyone may fill, with anything | one payment per order, deposits covered |
| Oracles, `oif/OracleAdapter.sol`, `oif/HyperlaneOracle.sol` | attestations, attesters, tables of trusted senders, domains and chains, switches, processed messages | submitAttestation, handle, manual attestation, setters | lost, repeated and forged messages; settings that are not made yet, or change | attested implies filled, where proofs are verified |
| Solver registry, `oif/SolverRegistry.sol` | stakes, chains, totals, active count | register, addStake, unbond, cancel, complete, slash, chains | slash, unbond and re-register in any order | counts exact, stake backed, exits complete |
| Solver agent, `apps/gateway/src/solver/` | in memory: orders in work, settlements awaited | notice, evaluate, fill, sweep, settle | awaits between check, approval and fill; crashes; lost receipts; overlapping sweeps | pays once per own fill, is paid for it |
| L1 stake manager, `eil/L1StakeManager.sol` | XLP stakes, chains, slash records, votes, arbitrators | register, unbond, slash, dispute, prove, vote, resolve | a dispute outlives the stake it is about | books balance, verdicts final, no early exit |
| Cross-chain paymaster, `eil/CrossChainPaymaster.sol` | requests, vouchers, deposits, verified stakes, pool totals, one balance | request, bid, refund, issue, fulfil, claim, deposit, withdraw, swap, refill | one balance backs three kinds of debt; fee auction against expiry | each request ends once, in time, and its money is there |
| x402 facilitator, `apps/facilitator`, `packages/contracts/src/x402` | in memory: nonces used and pending, settlements under way; on chain: nonces used | verify, reserve, settle, clean up | nonce checked before an await, taken after it; exceptions and restarts in between; late receipts | a nonce is paid once, who is told so paid it, no nonce is lost |
| Messaging, `packages/messaging` | relay: messages, pending per address, subscribers; client: socket, attempts, cache | send, subscribe, push; connect, reconnect, disconnect | each end learns of a break at its own time; late frames and late closes; restarts | a subscriber is sent everything, a client keeps trying |
| Stage 2, `packages/contracts/src/stage2` | forced transactions, sequencer stakes, dispute games, timelocks | queue, include, force, refund; stake, slash; propose, challenge | deadlines in two clocks, one fee pool | a queued transaction is included or refunded, once |
| Council | proposals, votes, delegations, circuit breaker | propose, vote, veto, execute | phases and time locks | only what passed is executed |
| Node staking, oracle network | stakes, committees, reports, disputes | stake, report, dispute, reward | quorum and staleness | a price needs its committee |
| Compute and storage markets, paymasters, exchanges, registries, names, games | balances and records of one contract each | — | mostly single-transaction arithmetic | — |

PROJECT.json lists all of them, with the reason for each that has no module, and
under `hazards` the lines at which this code can go wrong in ways a unit test
would hardly reach.

## 2. The modules

A transaction is atomic, so it is one step; what interleaves are transactions,
messages, and the awaits of the agent. A revert is a step that is not enabled.
Hashes are the tuples that are hashed, so that two things have one id exactly
when the code gives them one. Amounts are small naturals, tokens and accounts
are model values. Time and block numbers advance by `Tick` (`NextBlock` in `OIF`),
and any number of transactions fit between two ticks. Views, events, wording and statistics are
left out unless a property needs them.

| Module | Models |
|---|---|
| `Escrow` | the abstract promise: a slot pays out once, on evidence or on expiry |
| `InputSettler` | `InputSettler.sol`, whole; implements `Escrow` |
| `OutputSettler` | `OutputSettler.sol`, whole |
| `OracleAdapter` | SimpleOracle, HyperlaneOracle, SuperchainOracle and the standalone Hyperlane oracle, behind one interface |
| `Delivery`, `Delivery_proofs` | OutputSettler and OracleAdapter with a transport that repeats, delays and loses, and theorems about it |
| `SolverAgent` | the control of `agent.ts`: one task per event, overlapping sweeps, exceptions, restarts |
| `OIF` | InputSettler, extended by an instance of OutputSettler and one of SolverAgent |
| `OIF_proofs` | theorems about InputSettler and, on top of them, about OIF |
| `Stake`, `ChainList` | a bonded stake and a list of chains, shared by the two stake contracts |
| `SolverRegistry`, `SolverRegistry_proofs` | `SolverRegistry.sol`, whole, and theorems about it |
| `L1StakeManager`, `L1StakeManager_proofs` | `L1StakeManager.sol` except the two functions that only send messages, and theorems about it |
| `CrossChainPaymaster`, `CrossChainPaymaster_proofs` | `CrossChainPaymaster.sol` except gas sponsorship, and theorems about it |
| `PaymentOnce` | the abstract promise of the facilitator: one payment per nonce, success told to the one who paid |
| `X402Facilitator` | the settlement of `X402Facilitator.sol`, and what payers do to their balances |
| `NonceManager` | `nonce-manager.ts`: the nonces a process remembers |
| `Facilitator` | `verifier.ts`, `settler.ts` and the routes on top of both; implements `PaymentOnce` |
| `Facilitator_proofs` | theorems about it |
| `RelayNode` | `node/server.ts`: the store, the subscribers, both sets of socket handlers |
| `MessagingClient` | `sdk/client.ts`: the socket and its events, reconnection, sending, the inbox |
| `Messaging` | clients, a relay and a network that breaks connections |
| `Messaging_proofs` | theorems about it |
| `Sums` | lemmas about sums over a finite set, for the other proofs |
| `MC…` | constants for TLC |

State and actions keep the names of the code (`orders`, `voucherRequests`,
`ClaimOrder`, `SubmitBid`); `map` in PROJECT.json gives the lines of each
definition. Points worth knowing when reading them:

* **InputSettler.** `OpenOrder` is `_openOrder`; `Open` and `OpenFor` are its
  two callers. It overwrites the slot of the order id, as the code does.
  `nonces` is written and never read, in the code and in the model: a signed
  order can be opened again in every block until its open deadline. Nothing
  states a promise about that, so no property does.
* **OutputSettler.** `fill` with native tokens has two sources, the value sent
  and the deposit, and two actions; a value that is too small stays in the
  contract, as does ETH that `receive` takes from anyone.
* **OracleAdapter, Delivery.** Attesters of SimpleOracle, and the owner, are
  honest: they attest only what was filled. Attesters of message oracles are
  not: they may submit any message, sent or not, as often as they like, under
  any order id and for any chain. The contract that sends messages is external,
  for nothing in `OutputSettler.sol` does. All tables start as the code leaves
  them, at zero, and all switches as the constructors leave them: a
  `HyperlaneOracle` requires verification and has no ISM to ask, so it verifies
  nothing until `setISM` (`Verifies`). The owner may make and unmake every
  setting at any time; all it is trusted with is to name no other sender than
  the settler. `unproven` is a history variable, the attestations whose proof
  nobody verified. `OriginWord` is what `_verifyProof` reads for the origin of a
  message: bytes of its sender.
* **SolverAgent, OIF.** Every `await` ends a step. What a check saw is in the
  step that made it, what is done with it in a later one. The profit, balance
  and gas checks only decide whether the task goes on, so going on is a choice.
  `Crash` forgets both maps; transactions that were sent stay in the mempool.
  A fill of an ERC-20 waits for the receipt of an approval first
  (`SendApproval`, `AfterApproval`). The allowance itself is not kept: approvals
  of one agent's tasks overwrite each other, so any such fill may be refused when
  it is sent, or revert when it is mined (`MayRevert`). `fillDirect` takes a fill
  from anyone, of any token and amount and to any recipient; agents fill what an
  `Open` event asked for, `Strangers` whatever they can afford.
  An operator who claims and settles by hand is part of the environment.
  `OIF` extends `InputSettler`, whose `Init`, `Next` and `vars` are those of the
  source chain; its own are `OIFInit`, `OIFNext`, `oifVars`, and its steps on the
  source chain `UserOpens`, `Claim`, `SettleByHand`, `RefundOrder`, `Report`.
* **Stake, SolverRegistry, L1StakeManager.** `Stake` holds the record
  arithmetic that both contracts repeat. In `L1StakeManager`, `OwnerCalls`
  bounds what the owner, receivers of stray ETH and the like may do by
  `MaxExtraCalls`. `SolverRegistry` has two history variables: `received`, what
  came in through `receive()`, and `forfeited`, the stake that a registration
  overwrote.
* **CrossChainPaymaster.** One contract is source and destination: it has its own
  requests and fulfils vouchers of another chain (`Remote`). A signed fulfilment
  is a member of `Fulfilments`; an XLP signs one for the chain its voucher is
  due on. `updateXLPStake` brings any member of `Stakes` at any time, as nothing
  on L2 constrains it; the instance has one stake, the least that suffices, so
  an XLP goes from not admitted to admitted there and not back. Products of the swap formula are exact; wallets are capped by
  what users bring, so no 128- or 256-bit overflow is near.
* **X402Facilitator.** `Settleable` is every condition under which `settle` or
  `settleWithAuthorization` does not revert: amount, recipient, age, nonce, the
  signature over the contract's own domain, network and schemes, the token's
  support, balance and, for `settle` only, allowance. Payers spend, receive and
  approve at any time (`Transfer`, `Approve`), and the owner adds and removes
  the token.
* **Facilitator.** Each action goes from one `await` to the next. Where the code
  after an await uses what was read without another await, reading and using are
  one step; in `reserveNonce` they are two (`ReadNonce`, `Reserve`), so that what
  was read can be stale. Any await may throw, and nothing catches it. A
  transaction whose sending was not answered may be on its way (`Throw`).
  `writeContract` estimates gas first, so it throws if the call would revert
  now. One clock, `now`, is the service's and the chain's; the 60 s by which a
  payment may be ahead are `Skew`. `cleanupStalePendingSettlements` is exported
  and called by nothing, so it happens at any time or never, and no liveness of
  a pending nonce is claimed.
* **Messaging.** A connection has two ends, `near` (the client's readyState) and
  `far` (the relay's); `cut` is the truth. What is pushed into a broken
  connection is lost, a subscribe frame that was sent before may still be read.
  `handleWebSocket` and `startRelayServer` have different close handlers; which
  set a host uses is the constant choice `host`. Neither is reached in the
  repository as it stands (section 6), so both take a host that upgrades `/ws`. `Initialize`
  stands for every call of `initialize` or `connectToRelay`, also while a
  connection exists. `disconnect` leaves the close event to `Closed`, which
  schedules a reconnection, as the code does. Nothing ever leaves
  `pendingByRecipient`: a subscription repeats all of it, and `message:new` is
  emitted again.

Modules that are proved about have no RECURSIVE operator; sums are folds.

## 3. The runs

Nine runs check what holds, three exhibit a disagreement (section 6). Every
property of a passing run has a mutant in PROJECT.json: a plausible bug in one
mapped definition under which TLC finds the property violated.

| Run | Instance | What it shows |
|---|---|---|
| `input_settler` | a user, a solver, three requests (two under one id, one refused), two oracles, four blocks | `SettledProperly`: never settled and refunded, settled only when claimed, attested and old enough. `Solvent`: what is owed is held. `ResolvedIsFinal`, `ClaimIsFinal`: overwriting a slot never revives or changes an order of an earlier block. `EscrowSpec`: implements `Escrow`. `EveryOrderEnds`: no order stays locked for ever |
| `delivery` | two solvers, a token and ETH, two orders, one oracle of any kind, one attester; see the bounds | `Backed`: the contract covers the deposits. `RecipientsPaidOnce`. `AttestedWasFilled`: with replayed, forged and late messages and in any configuration, an attested order was filled, unless its proof was given to an oracle that verified none |
| `oif` | two agents, an order that may be opened twice in a block, for ETH to one recipient and for a token to another; a stranger with that token, who fills as it likes, claims and settles; one crash, faults on | `PaidMeansDelivered`: what is paid was filled, and where an agent filled it, recipient, token and amount are those of some `Open` event of the order. `PaysForOwnFills`: what an agent (that receives nothing itself) has spent of each asset is what its own fills cost, so it never pays for an order twice or for another's fill. `AwaitsOwnFills`: it waits for settlement of nothing else |
| `oif_sweeps` | one agent, two overlapping sweeps, three retries, one crash | `CountedOnce`, and `SettlementsDrain`: no entry stays in the map for ever |
| `solver_registry` | two solvers, one can stake twice; slasher, owner, one chain, one unit of stray ETH | `Backed`: the balance is `totalStaked` and the stray ETH, `totalStaked` is the stakes and what registering anew overwrote, exactly. `CountIsExact`. `OnlyCancelGoesBelow`: an active solver falls below the minimum only by cancelling an unbonding after a slash. `EveryExitCompletes` |
| `l1_stake_manager` | an XLP that can stake again, two vouchers, one arbitrator, one extra owner call | `BooksExplained`: every coin of the balance is accounted for, and active XLPs are counted. `VotesInTime`: a count stops at its deadline, a verdict is final. `NoEarlyExit`. `EveryDisputeDecided` |
| `cross_chain_paymaster` | one user, two XLPs of which one has funds, one request, an XLP's signature to fulfil a voucher from elsewhere and one to fulfil this request's, also before it is made; ETH and a token, three blocks | `BooksExplained`: each request settles once, each fulfilment pays once, and claimable vouchers are counted. `ExpiredIsForUser`: no bid and no voucher once the refund is due. `EveryRequestEnds` |
| `facilitator` | two requests by any of three routes, three payments under one nonce, one for more money and signed a tick ahead, one for another network; a payer that spends, receives and approves; time 0 to 3 | `PaidOnce`: implements `PaymentOnce`. `TurnedAwayForCause`: a payment in time is turned away only if the contract has used its nonce or a settlement of it is on record, so what failed may be tried again. `PendingIsRecoverable`: what an exception leaves pending can be freed. `FreedIsOld`: a nonce freed as stale has no transaction that could still be mined later than `Skew` |
| `messaging` | a sender with one connection, a recipient with two, two messages, one break or restart, two attempts to reconnect, both handlers | `SubscriberHasAll`: a live subscriber was pushed all that is kept for it, in order. `KeepsTrying`: no end of a connection strands a client. `SubscribedGetsAll`: who stays subscribed gets what was written into broken connections before |

**Bounds.** `delivery` explores two slices of one specification (`MCBound`):
everything the settler can do while no oracle has been touched, and everything
oracles, messages and their owner can do over at most one fill. Settler and
oracles meet in the fill records alone, and an attestation looks at nothing of
them but whether there is one; the second order is the one that was not filled.
The theorem has no such bound. Amounts of 0 and 1 reach each path of `fill`, also
a value that falls short of amount and gas, which the deposit then pays.

`oif` stops after one block, which is enough to open twice, fill, report, claim
and settle; sweeps over several blocks are in `oif_sweeps`. Each agent can afford
one fill in ETH and one in the token, so after a crash, or a fill that it lost
sight of, it can pay for an order again if the contract lets it. The stranger has
one unit of the token.

`MaxBlock` and `MaxTime` are just past the last deadline, delay or
waiting period, so that "before", "at" and "after" each of them occur; nothing in
the code looks further. Two solvers, agents or XLPs are what it takes to race;
the contracts treat each pair alike. Two orders, or two vouchers, are what it
takes to confuse one with another. Amounts allow a sum that is short by one,
exact, and one over; with a minimum stake of 2, half of it is not zero, so that a
slash takes something and leaves something. `MaxCrashes`, `MaxFills` and
`MaxExtraCalls` cap events whose repetition adds nothing the first did not.
`MaxTime = 2` in the L1 run covers an XLP that unbonds, is slashed and disputes
before its period is over and one that does so after. The values of the code
(150 blocks, 8 days, 14 days) are constants of the modules; the models use the
smallest that keep their order. `input_settler` has a claim delay that ends
with one fill deadline and before the other, which are the two cases there are.
`cross_chain_paymaster` has one request, which keeps the swap, the pool and two
fulfilments within reach; requests share state only through the balance and
`xlpActiveRequests`, and the voucher of another chain competes for both
the balance and the deposit. `L1StakeManager` is checked with one XLP for the
same reason: XLPs share `totalStaked`, the count and the balance only, and
arbitrators and victims compete for the latter.

`facilitator`: all time limits are 1, `MaxTime = 3` lets a payment be ahead,
fresh, expired and its nonce freed and swept in turn; a payer's balance and
allowance go up and down between 0 and 2; two requests are what it
takes to race for one nonce. Service and contract verify signatures under one
domain in this run, which they do not in the code: with the domains of the code
(`facilitator_domain`) no payment of the service ever gets through, and what
races for a nonce would not be seen. The theorems hold for any two domains, equal
or not. `messaging`: a second connection of the recipient is what lets an old and
a new one overlap; two messages show order and gaps; one fault is enough for
each property to fail under its mutant, and a restart, which breaks all
connections, counts as one. The 5 attempts of the code are 2: after the
first a timer must be scheduled, after the second none may be.

`CHECK_DEADLOCK FALSE` stands in the configurations in which the bounded world
really stops: money is spent, time is at its bound, every order has ended.

## 4. Fairness

* Blocks are produced and time passes: `WF(Tick)`, in `OIF` `WF(NextBlock)`.
* A refund of an expired order or request is eventually called. Anyone may call
  it and the user gains by it; weak fairness, because it stays enabled.
* `completeUnbonding` is called by the solver who asked for it; `resolveDispute`
  by whoever wins it; `claimSourceFunds` by the XLP that earns by it.
* Sweeps: the interval timer keeps firing and an await ends, in an answer or in
  a timeout: weak fairness of the steps of each sweep. That an entry gets older
  than 24 hours, and is met by a sweep then, is strong fairness of `DropStale`:
  it is enabled only while a sweep is at that entry, again and again.
* `oif_reimbursed` gives the agent every benefit: no faults, honest oracles,
  weak fairness of each of its steps, and it still is not paid.

* Messaging: an attempt to connect ends, a break is noticed by either end some
  time, frames arrive on a connection that stays up, timers fire. A break that
  nobody ever notices is outside: neither side sends pings, so TCP decides.
* `facilitator` has no liveness property and no fairness: nothing schedules the
  clean-up that would free a nonce after an exception.

Nothing is assumed of users opening orders, of solvers claiming, of attesters in
`input_settler`, of bidders, or of slashers and arbitrators.

## 5. The proofs

Thirty-four theorems, for every value of the constants that satisfies the named
assumptions (delays positive, amounts natural, sets finite where something is
counted or summed, the zero address not an account). The bounds on blocks, time,
crashes and calls are constants, too: the theorems hold for each of them. Every
invariant and every action property of the passing runs is stated by a theorem,
and so are the two refinements.

**Sums.** Five contracts keep one balance that several debts are paid from, and
what is right about them compares it with a sum over solvers, orders or XLPs.
`SumFunction` of the community modules folds with a recursive function; `Sums`
proves that this function exists (`RecursExists`), is the same on every set that
contains its argument (`RecursUnique`), and does not depend on the order in
which elements are taken. From these follow the facts that the other modules
cite: a sum of naturals is a natural and at least each of them (`SumNat`), moves
by what one summand moves by (`SumChange`), is monotone and additive
(`SumAtMost`, `SumOfSums`). An induction theorem that quantifies over a
predicate cannot be instantiated by the provers used here; strict inclusion on
the subsets of a finite set is well founded, which is a fact about sets alone,
so each induction takes a minimal member of the *set* of subsets that break the
statement (`MinimalSubset`).

**`OIF_proofs`, the input settler.** The inductive invariant is `TypeOK /\
OrdersWellFormed /\ SettledProperly`. `OrdersWellFormed` says that an order sits
in the slot of its own id, that its open deadline precedes its fill deadline,
and that one that paid out was created in an earlier block. It is there because
`_openOrder` overwrites blindly: it can only reach a slot created in the current
block, `refund` needs a block after the fill deadline, which is not before the
creation block, and `settle` needs `CLAIM_DELAY > 0` blocks. `OpenStep` is that
argument; from it follow

* `TypeCorrect`, `SettledProperlyHolds`, `SolventHolds` — invariants,
* `ResolvedIsFinalHolds`, `ClaimIsFinalHolds` — action properties,
* `ImplementsEscrow` — each step maps to a step of `Escrow` or a stutter.

`SolventHolds` needs that `_openOrder` files an order under an id that names its
amount, so that the one it overwrites was owed no more than the new one brings,
and that a claim, a settlement and a refund never owe again what was paid.

**`OIF_proofs`, the framework.** `ImplementsInputSettler` shows that each step
of `OIF` is a step of `InputSettler` or leaves it alone, which brings its
invariant into the composition; that is why both are in one module. On top of it
`Connected` is inductive, a conjunction of

* `AgentInv`: types, tasks work on events that were emitted, an agent's mined
  fill carries its name, `AwaitsOwnFills`;
* `DestTypes`, `FillsAsked`: the record of an agent's fill has the recipient,
  token and amount of some `Open` event under its id; of a stranger's fill nothing
  of the kind holds (`FillHasEffect` is what both have in common);
* `ReportsTrue`, `PaidIsFilled`: what an oracle attests is filled, and what is
  paid was attested;
* `PaysForOwnFills` and `CountedOnce`.

Theorems: `PaidMeansDeliveredHolds`, `PaysForOwnFillsHolds`,
`AwaitsOwnFillsHolds`, `CountedOnceHolds`, for any number of agents, sweeps,
strangers, crashes and lost receipts. `PaysForOwnFills` and `AwaitsOwnFills` rest on one
fact of the code: `fillDirect` reverts on a filled order, so a transaction that
an agent sent before a crash and one it sent after cannot both succeed. Writing
the theorem showed that `PaysForOwnFills` needs agents that do not receive what
they deliver: one that fills an order addressed to itself spends nothing.

**`Delivery_proofs`.** The inductive invariant is the four invariants of the run
(`TypeOK`, `Backed`, `RecipientsPaidOnce`, `AttestedWasFilled`) and two facts:
`SentIsFilled` (the settler's messages are about fills, and nobody sends from
address 0) and `TrustsReal` (no table of an oracle names another sender than the
settler, or names none). The second half of the first is for tables that are
still unset: what comes from address 0 cannot have been sent, so only a proof
that nobody verifies gets past them. `ProofIsTrusted` covers both kinds of
proof: the chain under which the sender is looked up may be read wrong, and the
sender is still one that some table names.
`Backed` and `TypeOK` need each other: withdrawals do not
underflow because the credit is covered, and the credit is covered because what
leaves was credited. A wallet and a credit change together (`Debit`, `Credit`),
and sums of credits move by `Sums`. Theorems: `TypeCorrect`, `BackedHolds`,
`RecipientsPaidOnceHolds`, `AttestedWasFilledHolds`.

**`SolverRegistry_proofs`.** The inductive invariant is `TypeOK /\ Backed /\
CountIsExact /\ ActiveIsBonded /\ LeavingIsBonded`. `ActiveIsBonded` says that
an active solver has something at stake, and the minimum if it was never
slashed; `LeavingIsBonded` that a stake that is inactive and was never slashed
has nothing but what unbonds, and that at least the minimum, because
`cancelUnbonding` activates it without looking. `OnlyCancelGoesBelowHolds`, an
action property, goes through the actions one by one and needs both: a
cancellation that ends below the minimum is one after a slash.
`TypeOK` is not shallow here: it holds only because
`_slash` never takes more than there is (`ShareBound`, `SlashAmountBound`,
`SlashStake`), the decrements of `activeSolverCount` only because the count is
exact (`CountMoves`), and those of `totalStaked` only because it covers the sum
of all stakes (`Backed`). Theorems: `TypeCorrect`, `BackedHolds`,
`CountIsExactHolds`, `OnlyCancelGoesBelowHolds`.

**`L1StakeManager_proofs`.** The inductive invariant is `TypeOK /\
BooksExplained /\ EmptyUntilSlashed`. `BooksExplained` compares four sums
(stakes, arbitrators' stakes, what verdicts gave back, what slashes took from
each XLP and kept) with the balance, the total and `slashedAmount`, and the
count with the active XLPs. `EmptyUntilSlashed` says that a record no slash has
written is empty; without it a first slash could overwrite an amount that was
given back, or a slash a verdict. Theorems: `TypeCorrect`,
`BooksExplainedHolds`, and the action properties `VotesInTimeHolds` (no call
changes the votes of a dispute after its deadline, or a verdict) and
`NoEarlyExitHolds` (which needs the types only).

**`CrossChainPaymaster_proofs`.** The inductive invariant is `TypeOK /\
BooksExplained /\ IssuedForClaimed`. `IssuedForClaimed` says that a request is
claimed exactly when its voucher was issued and that only an issued voucher is
claimed for; without it a claim could pay for a request that was refunded. Each
action is shown to move the balance, the pool, the locked requests, the fees
left over and the fulfilments by amounts that cancel out, asset by asset
(`Moves`, `Balanced`, `BooksMove`). `TypeOK` says that nothing goes below zero;
for the pool that is so because a swap gives no more than it has
(`AmountOutBound`), for `xlpActiveRequests` because it is exact. Theorems:
`TypeCorrect`, `BooksExplainedHolds`, `ExpiredIsForUserHolds`.

**`Facilitator_proofs`.** The inductive invariant is `TypeOK` with
`PendingIsRecoverable`, `UsedIsUsedOnChain` and four facts: `MinedHasPaid` (a
mined transaction is the one its nonce names), `HasTxIsSent`, `NotAhead` (a
verified payment is at most `Skew` ahead of the clock) and `EntryIsYoung` (what
is in flight under a nonce was reserved no later than its entry in
`pendingSettlements` says, because a second reservation overwrites the entry).
`PaidOnceHolds` is the refinement of `PaymentOnce` and needs the first two;
`FreedIsOldHolds` needs the last two and that stale means older than
`MAX_PAYMENT_AGE`. `TurnedAwayForCauseHolds` needs `PendingIsRecoverable` and
`UsedIsUsedOnChain`, for `verifyPayment` and `reserveNonce` look at the cache
before they ask the chain.

**`Messaging_proofs`.** `KeepsTrying` is inductive given the types.
`SubscriberHasAll` needs `SubscriberIsOpen`: the subscriber of an address is a
connection of that address that asked for it and that the relay has not seen
close; otherwise the relay would accept a message without pushing it to a
connection that is up. Three lemmas about `IsSuffix` carry the sequences.

**Only model-checked.** Liveness (`EveryOrderEnds`, `SettlementsDrain`,
`EveryExitCompletes`, `EveryDisputeDecided`, `EveryRequestEnds`,
`SubscribedGetsAll`): it rests on fairness, hence on ENABLED, which the prover
does not handle. The three runs of section 6 exhibit counterexamples, which are
not theorems.

## 6. Disagreements found

Each is a run that checks one property, which a line of the repository states.

* `oif_reimbursed` — the agent never claims an order, so a fill is never paid
  and the user is refunded on top of the delivery
  (`apps/gateway/src/solver/agent.ts:142`;
  `apps/documentation/guides/become-solver.md:7`).
* `facilitator_domain` — the service verifies signatures under the zero address,
  the contract under its own, so whatever verifies is refused
  (`apps/facilitator/src/services/verifier.ts:36`;
  `apps/facilitator/README.md:99` "Verify and settle a payment on-chain").
* `messaging_connected` — the late close of an old connection deletes the
  subscription of the new one: the client is connected and gets nothing
  (`packages/messaging/src/node/server.ts:316`; `packages/messaging/README.md:45`).

Seven more are not runs of their own, because a property that holds describes
them exactly:

* `PaidMeansDelivered` speaks of what agents deliver only. `fill` and
  `fillDirect` take token, amount and recipient from the caller, an attestation
  names the order id alone, and `settle` compares nothing, so a stranger's fill
  of any kind makes the order payable to whoever claimed it
  (`oif/OutputSettler.sol:131`, `206`; line 24 "Fill must match order
  parameters").
* `AttestedWasFilled` exempts `unproven`: `_verifyProof` asks the ISM `if
  (requireISMVerification && address(ism) != address(0))`, so a `HyperlaneOracle`
  that requires verification and has no ISM yet, as deployed, verifies nothing
  (`oif/OracleAdapter.sol:267`; line 149 "Verifies Hyperlane message proofs using
  ISM verification", line 176 "can be disabled for testing").
* `OnlyCancelGoesBelow` has one exception: `cancelUnbonding` does not compare
  what a slash left with the minimum (`oif/SolverRegistry.sol:188`; line 140 "Must
  keep minimum if staying active", line 257 "Deactivate if below minimum").
* `Solvent` of InputSettler is an inequality: two orders of one user with equal
  nonce, token, amount and destination in one block share an id, the second
  overwrites the first, and what the first locked is owed to nobody
  (`oif/InputSettler.sol:204`).
* `Backed` of SolverRegistry has the term `forfeited`: `register` over a stake
  that is unbonding or was left by a slash loses it, while `totalStaked` and the
  balance keep it (`oif/SolverRegistry.sol:105`).
* `BooksExplained` of L1StakeManager has the term `GivenBack`: an XLP that wins a
  dispute is credited the ETH the victim already has (`eil/L1StakeManager.sol:624`),
  so the contract owes more than it holds by just that.
* `BooksExplained` of CrossChainPaymaster has the term `PaidOut`: fulfilling a
  voucher leaves the pool's total too high, and the pool can pay it from what users
  locked (`eil/CrossChainPaymaster.sol:976`; line 84 "Users' funds are safe").

`EveryRequestEnds` and `EveryDisputeDecided` name the states in which the code
cannot go on because of that (`Short`, `Wiped`) and hold in all others.

Noticed on the way, without a run:

* `HyperlaneOracle._verifyProof` loads the origin of a message as a whole word
  and keeps its last four bytes, which are bytes of the sender
  (`oif/OracleAdapter.sol:238`; line 254 "Verify origin matches expected chain"):
  a proof from a domain that the tables name is refused. `FromTrustedDomain`
  models what the code reads.
* `startRelayServer` serves `app.fetch`, which never upgrades a request to `/ws`,
  and nothing calls `handleWebSocket`: no client of the SDK reaches a relay that
  is started as `packages/messaging/src/node` starts one.
* A messaging client that has no `relayNode` and no `relayUrl` throws in
  `connectToRelay` before there is a socket whose close could schedule anything
  (`packages/messaging/src/sdk/client.ts:257`), whether or not a node registry is
  configured: the reconnecting ends there.
* `disconnect` of a messaging client reconnects. A relay says `delivered`, and
  sends a receipt, for what it wrote into a connection that is already broken. A
  relay that restarts loses what it accepted.
* The unstaking period of solvers is 8 days in `SolverRegistry` and 7 in
  `operate/overview.md:68`; that of XLPs is 7 days by default in `L1StakeManager`
  and 14 in `operate/xlp.md:21` (both under `apps/documentation/`).
* The facilitator asks for an allowance before a gasless settlement, which needs
  none (`apps/facilitator/src/services/settler.ts`, `CheckFunds`).
* A voucher that is issued and never fulfilled leaves no way back to the user on
  the source chain. `nonces` of InputSettler are written and never checked.

## 7. What is not modelled

* Gas sponsorship in `CrossChainPaymaster` (validation and `postOp`, exchange
  rates). The promise is across two calls of an entry point; it is in the plan.
* `syncStakeToL2` and `relayFulfillment`: messages between the two EIL contracts.
* Cryptography: signatures are sets of what was signed, proofs are messages that
  were sent. Bytes, ABI encodings and logs are absent.
* Reentrancy: a call to a recipient is the end of the step it is part of.
* Fee-on-transfer and rebasing tokens. In `OIF`, the values of ERC-20 allowances.
* In `OIF`, fills from deposits and ETH sent along with a token fill: `delivery`
  has them, and what they leave in the fill records is the same.
* The facilitator's `nonce-manager-distributed.ts`: nothing calls it yet. Fees,
  statistics, the contract's owner.
* Messaging: several relays (they do not forward to each other), read receipts,
  IPFS, encryption, and the registries of keys and nodes.
* The components listed as not modelled in PROJECT.json, each with its reason.

## 8. Plan

In the order in which it pays:

1. **EIL composition**: `L1StakeManager`, a source and a destination
   `CrossChainPaymaster`, and messengers that delay and reorder stake updates. To
   check: who issues a voucher has the stake that L1 knows of, and a voucher that
   is issued and never fulfilled costs its XLP what the user lost. Gas
   sponsorship as steps of the entry point.
2. **Stage 2**: `ForcedInclusion` (fees owed are held, although an expired
   transaction can still be marked included; a refund that compares a time with a
   block number), `SequencerRegistry` (a slash that deactivates leaves the total
   too high), `GovernanceTimelock`, `DisputeGameFactory`.
3. **Council**: proposals from draft to execution against the circuit breaker.
4. **Theorems** about the composition of item 1, from the invariants of
   `L1StakeManager` and `CrossChainPaymaster` as `OIF_proofs` does for its
   parts; the abstract promise that `OIF` makes to a user (an order is delivered
   and paid, or refunded) as a refinement; the same for each component of 2
   and 3 when it is modelled.

Runs of small models that a composition subsumes are merged into it, so that the
list stays one run per question.
