--------------------------------- MODULE OIF --------------------------------
(***************************************************************************)
(* The Open Intents Framework end to end: a user opens orders on the       *)
(* source chain (InputSettler), solver agents hear of them (SolverAgent),  *)
(* deliver on the destination chain (OutputSettler, fillDirect), oracles   *)
(* report the delivery back, and the agents settle.                        *)
(*                                                                         *)
(* OutputSettler takes fills from anyone, of any token and amount and to   *)
(* any recipient, and nothing on the source chain compares them with the   *)
(* order: that is what Strangers do.                                       *)
(*                                                                         *)
(* The oracles are honest here; Delivery shows when that may be assumed.   *)
(* The owner's setters and openFor have their own run of InputSettler.     *)
(* Nothing in src/apps/gateway/src/solver calls claimOrder, so claims come *)
(* from Claimants only: accounts that do it, and may settle, by hand.      *)
(*                                                                         *)
(* The module extends InputSettler, whose Init, Next and vars are those of *)
(* the source chain alone; the framework's own are OIFInit and so on.      *)
(***************************************************************************)
EXTENDS InputSettler

CONSTANTS
  Users, Agents,
  Claimants,          (* accounts that claim by hand                       *)
  Strangers,          (* other accounts that fill                          *)
  Recipients, DestTokens, NoFill, DestinationFunds,
  AgentOracle,        (* ORACLES of the gateway's configuration            *)
  Faults,             (* whether receipts get lost and reads fail          *)
  NoId, Sweeps, MAX_SETTLEMENT_RETRIES, MaxCrashes

VARIABLES
  opened,             (* the Open events: <<id, output>>                   *)
  fillRecords, destWallet, destHeld,
  pending, task, orphans, pendingSettlements, todo, settling, claimed, crashes

sourceVars == <<vars, opened>>
destVars == <<fillRecords, destWallet, destHeld>>
agentVars == <<pending, task, orphans, pendingSettlements, todo, settling,
               claimed, crashes>>
oifVars == <<sourceVars, destVars, agentVars>>

Ids == {id \in OrderIds : id.user \in Users}
Outputs == {r.output : r \in Requests}
Fillers == Agents \cup Strangers

D == INSTANCE OutputSettler WITH
       Solvers <- Fillers, Tokens <- DestTokens, ETH <- NativeToken, Amounts <- {},
       InitialFunds <- DestinationFunds,
       wallet <- destWallet, held <- destHeld,
       solverETH <- [a \in Fillers |-> 0],
       solverLiquidity <- [a \in Fillers |-> [t \in DestTokens |-> 0]]

A == INSTANCE SolverAgent

ASSUME OIFAssumption == D!OutputAssumption /\ A!AgentAssumption
ASSUME PartiesAssumption ==
  /\ Users \subseteq Accounts /\ Agents \subseteq Accounts
  /\ Claimants \subseteq Accounts /\ Strangers \cap Agents = {}
ASSUME OutputsAssumption ==
  \A output \in Outputs \ {NoRecipient} :
    /\ output.amount \in Nat /\ output.recipient \in Recipients
    /\ output.token \in D!Assets

OIFInit == Init /\ D!Init /\ A!Init /\ opened = {}

-----------------------------------------------------------------------------
(* The source chain.                                                       *)

UserOpens(u, r) ==
  /\ Open(u, r)
  /\ opened' = opened \cup {<<OrderId(u, r, block), r.output>>}
  /\ UNCHANGED <<destVars, agentVars>>

Claim(a, id) == ClaimOrder(a, id) /\ UNCHANGED <<opened, destVars, agentVars>>
SettleByHand(a, id) ==
  Settle(a, id) /\ UNCHANGED <<opened, destVars, agentVars>>
RefundOrder(id) == Refund(id) /\ UNCHANGED <<opened, destVars, agentVars>>
NextBlock == Tick /\ UNCHANGED <<opened, destVars, agentVars>>

Report(o, id) ==
  /\ D!IsFilled(id) /\ id \notin attested[o]
  /\ Attest(o, id)
  /\ UNCHANGED <<opened, destVars, agentVars>>

-----------------------------------------------------------------------------
(* What the agents do to the two chains.                                   *)

Notice(a, event) ==
  A!Notice(a, event[1], event[2]) /\ UNCHANGED <<sourceVars, destVars>>

Consider(a, id) ==
  /\ A!GoOn(a, id, D!IsFilled(id)) \/ A!GiveUp(a, id)
  /\ UNCHANGED <<sourceVars, destVars>>

(* fillDirect, with exactly the amount of a native output as value.        *)
FillDirect(a, id, output) ==
  D!FillDirect(a, id, output.token, output.amount, output.recipient,
               IF output.token = NativeToken THEN output.amount ELSE 0)

Fillable(a, id, output) ==
  /\ ~D!IsFilled(id) /\ output.amount > 0
  /\ destWallet[a][output.token] >= output.amount

(* An ERC-20 fill may lack the allowance besides.                          *)
MayRevert(a, id, output) ==
  output.token # NativeToken \/ ~Fillable(a, id, output)

SendApproval(a, id) ==
  A!SendApproval(a, id) /\ UNCHANGED <<sourceVars, destVars>>
AfterApproval(a, id) ==
  A!AfterApproval(a, id) /\ UNCHANGED <<sourceVars, destVars>>

SendFill(a, id) ==
  /\ A!ReadyToFill(a, id)
  /\ \/ /\ Fillable(a, id, task[a][id].output)
        /\ A!SendFill(a, id, TRUE)
     \/ /\ MayRevert(a, id, task[a][id].output)
        /\ A!SendFill(a, id, FALSE)
  /\ UNCHANGED <<sourceVars, destVars>>

(* A transaction that reverts leaves the chain as it was.                  *)
Mine(a, id, output, ok) ==
  \/ ok /\ FillDirect(a, id, output)
  \/ ~ok /\ MayRevert(a, id, output) /\ UNCHANGED destVars

MineFill(a, id) ==
  /\ A!At(a, id, {"sent"})
  /\ \E ok \in BOOLEAN : /\ A!MineFill(a, id, ok)
                         /\ Mine(a, id, task[a][id].output, ok)
  /\ UNCHANGED sourceVars

MineOrphan(a, fill) ==
  /\ A!MineOrphan(a, fill[1], fill[2])
  /\ \E ok \in BOOLEAN : Mine(a, fill[1], fill[2], ok)
  /\ UNCHANGED sourceVars

AfterFill(a, id) == A!AfterFill(a, id) /\ UNCHANGED <<sourceVars, destVars>>

LoseReceipt(a, id) ==
  Faults /\ A!LoseReceipt(a, id) /\ UNCHANGED <<sourceVars, destVars>>

StartSweep(a, l) == A!StartSweep(a, l) /\ UNCHANGED <<sourceVars, destVars>>

TrySettle(a, l, id) ==
  /\ \/ A!TrySettle(a, l, id, id \in attested[AgentOracle] /\ CanSettle(id))
     \/ Faults /\ A!TrySettle(a, l, id, FALSE)
  /\ UNCHANGED <<sourceVars, destVars>>

Pass(a, l, id) == A!Skip(a, l, id) /\ UNCHANGED <<sourceVars, destVars>>
DropStale(a, l, id) ==
  A!DropStale(a, l, id) /\ UNCHANGED <<sourceVars, destVars>>

(* The settle transaction goes through, or it reverts: the order was       *)
(* settled or refunded meanwhile, or the agent is not the one who claimed. *)
CanBeSettledBy(a, id) == CanSettle(id) /\ orders[id].solver = a

SettleMined(a, l, id) ==
  /\ IF CanBeSettledBy(a, id)
       THEN A!AfterSettle(a, l, id, TRUE) /\ Settle(a, id)
       ELSE /\ A!AfterSettle(a, l, id, FALSE)
            /\ UNCHANGED vars
  /\ UNCHANGED <<opened, destVars>>

(* The sweep ends without the receipt, with or without the transaction.    *)
SettleUnseen(a, l, id) ==
  /\ Faults
  /\ A!AbortSweep(a, l, id)
  /\ \/ Settle(a, id)
     \/ UNCHANGED vars
  /\ UNCHANGED <<opened, destVars>>

Crash(a) == A!Crash(a) /\ UNCHANGED <<sourceVars, destVars>>

(* Someone else fills under an id, with whatever it likes and can afford.  *)
StrangerFills(s, id) ==
  /\ \E t \in D!Assets, r \in Recipients : \E n \in 1..destWallet[s][t] :
       FillDirect(s, id, [recipient |-> r, token |-> t, amount |-> n])
  /\ UNCHANGED <<sourceVars, agentVars>>

-----------------------------------------------------------------------------
Filling(a) ==
  \/ \E event \in opened : Notice(a, event)
  \/ \E id \in Ids : \/ Consider(a, id)
                     \/ SendApproval(a, id) \/ AfterApproval(a, id)
                     \/ SendFill(a, id) \/ MineFill(a, id)
                     \/ AfterFill(a, id) \/ LoseReceipt(a, id)
  \/ \E fill \in orphans[a] : MineOrphan(a, fill)

SweepStep(a, l) ==
  \/ StartSweep(a, l)
  \/ \E id \in todo[a][l] : \/ TrySettle(a, l, id) \/ Pass(a, l, id)
                            \/ DropStale(a, l, id)
  \/ \E id \in Ids : SettleMined(a, l, id) \/ SettleUnseen(a, l, id)

OIFNext ==
  \/ \E u \in Users, r \in Requests : UserOpens(u, r)
  \/ \E id \in Ids : \/ RefundOrder(id)
                     \/ \E a \in Claimants : Claim(a, id) \/ SettleByHand(a, id)
                     \/ \E o \in Oracles : Report(o, id)
                     \/ \E s \in Strangers : StrangerFills(s, id)
  \/ NextBlock
  \/ \E a \in Agents : \/ Filling(a) \/ Crash(a)
                       \/ \E l \in Sweeps : SweepStep(a, l)

OIFSpec == OIFInit /\ [][OIFNext]_oifVars

(* The timer keeps starting sweeps, their awaits end (with an answer or a  *)
(* timeout), and an entry that sweeps keep meeting gets 24 hours old.      *)
SweepFairness ==
  \A a \in Agents :
    /\ \A l \in Sweeps : WF_oifVars(SweepStep(a, l))
    /\ \A id \in Ids : SF_oifVars(\E l \in Sweeps : DropStale(a, l, id))

SweepSpec == OIFSpec /\ SweepFairness

(* Moreover blocks are produced, honest oracles report, fills are mined,   *)
(* tasks go on, and refundable orders are refunded.                        *)
OIFFairSpec ==
  /\ SweepSpec
  /\ WF_oifVars(NextBlock)
  /\ \A id \in Ids :
       /\ WF_oifVars(\E o \in Oracles : Report(o, id))
       /\ WF_oifVars(RefundOrder(id))
       /\ \A a \in Agents : /\ WF_oifVars(SendApproval(a, id))
                            /\ WF_oifVars(AfterApproval(a, id))
                            /\ WF_oifVars(SendFill(a, id))
                            /\ WF_oifVars(MineFill(a, id))
                            /\ WF_oifVars(AfterFill(a, id))

-----------------------------------------------------------------------------
(* Correctness.                                                            *)

(* An order that is paid was filled, and where an agent filled it, what    *)
(* was delivered, of which token and to whom, is what an Open event of     *)
(* that order asked for: also when an order is overwritten under its id.   *)
(* What a stranger delivered is compared with the order by nobody.         *)
Paid(id) == orders[id] # NoOrder /\ orders[id].filled
Delivers(record, output) ==
  /\ record.recipient = output.recipient
  /\ record.token = output.token /\ record.amount = output.amount
Asked(id) ==
  \E event \in opened : event[1] = id /\ Delivers(fillRecords[id], event[2])

PaidMeansDelivered ==
  \A id \in Ids : Paid(id) =>
    /\ D!IsFilled(id)
    /\ fillRecords[id].solver \in Agents => Asked(id)

(* Racing agents, repeated events, crashes between sending a fill and      *)
(* seeing its receipt: in no asset does an agent spend on an order someone *)
(* else filled, nor twice on one order.                                    *)
Spent(a, t) == DestinationFunds[a][t] - destWallet[a][t]
FilledBy(a, id) == D!IsFilled(id) /\ fillRecords[id].solver = a
Cost(a, id, t) ==
  IF FilledBy(a, id) /\ fillRecords[id].token = t THEN fillRecords[id].amount ELSE 0
PaysForOwnFills ==
  \A a \in Agents \ Recipients, t \in D!Assets :
    Spent(a, t) = SumFunction([id \in Ids |-> Cost(a, id, t)])

(* An agent waits for settlement of its own fills only.                    *)
AwaitsOwnFills ==
  \A a \in Agents, id \in Ids :
    A!HasEntry(a, id) => FilledBy(a, id)

(* With overlapping sweeps that settle the same entry twice, an order is   *)
(* counted as claimed once, by the agent the contract paid.                *)
CountedOnce ==
  \A a \in Agents, id \in Ids : claimed[a][id] > 0 =>
    /\ claimed[a][id] = 1
    /\ Paid(id) /\ orders[id].solver = a

(* An entry does not stay in pendingSettlements: it is settled, runs out   *)
(* of retries, or gets too old, even when reads fail and sweeps die.       *)
SettlementsDrain ==
  \A a \in Agents, id \in Ids : A!HasEntry(a, id) ~> ~A!HasEntry(a, id)

-----------------------------------------------------------------------------
(* What the documentation says and the code does not do.                   *)

(* "Solvers earn by monitoring for pending intents, filling intents on the *)
(* destination chain, and claiming settlement from the source chain"       *)
(* (src/apps/documentation/guides/become-solver.md): an agent that filled  *)
(* an order in time is paid for it.  The agent never claims the order, so  *)
(* canSettle stays false and the user is refunded.                         *)
FilledInTime(a, id) ==
  /\ FilledBy(a, id)
  /\ orders[id] # NoOrder /\ block <= orders[id].request.fillDeadline

FilledIsReimbursed ==
  \A a \in Agents, id \in Ids :
    FilledInTime(a, id) ~> Paid(id) /\ orders[id].solver = a
=============================================================================
