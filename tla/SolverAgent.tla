----------------------------- MODULE SolverAgent ----------------------------
(***************************************************************************)
(* The off-chain solvers: src/apps/gateway/src/solver/agent.ts.  Each      *)
(* agent hears of orders, fills the ones it likes on the destination chain *)
(* and then keeps trying to settle them on the source chain.               *)
(*                                                                         *)
(* A step is what runs between two awaits.  What a chain answers is a      *)
(* parameter of the step that reads it; the chains are in module OIF.      *)
(* Profit, gas prices and the cached balances decide only whether a task   *)
(* goes on, so they are a choice of GoOn and GiveUp.  Wall-clock time      *)
(* (the backoff and the 24 hours) is abstracted to "may happen now".  The  *)
(* allowance that an ERC-20 fill needs is not kept: tasks of one agent     *)
(* overwrite each other's, so any such fill may turn out to lack it.       *)
(***************************************************************************)
EXTENDS Integers

CONSTANTS
  Agents,
  Ids,                     (* order ids                                    *)
  Outputs,                 (* what an Open event asks to be delivered      *)
  NativeToken,             (* address(0)                                   *)
  NoId,
  Sweeps,                  (* runs of checkPendingSettlements that may     *)
                           (* overlap: setInterval does not wait for one   *)
  MAX_SETTLEMENT_RETRIES,  (* 5 in the code                                *)
  MaxCrashes               (* Bound: crashes per agent                     *)

NoEntry == -1

(* What a module that instantiates this one assumes of its constants.      *)
AgentAssumption ==
  /\ MAX_SETTLEMENT_RETRIES \in Nat \ {0}
  /\ NoId \notin Ids
  /\ MaxCrashes \in Nat

VARIABLES
  pending,      (* [Agents -> SUBSET Ids], the keys of the pending map     *)
  task,         (* [Agents -> [Ids -> Task]], where processIntent stands   *)
  orphans,      (* [Agents -> SUBSET Fills], fills in the mempool that no  *)
                (* task waits for any more                                 *)
  pendingSettlements, (* [Agents -> [Ids -> Retries]], retryCount of an entry *)
  todo,         (* [Agents -> [Sweeps -> SUBSET Ids]], what is left of the *)
                (* entries a sweep took at its start                       *)
  settling,     (* [Agents -> [Sweeps -> Ids \cup {NoId}]], the settle     *)
                (* transaction a sweep waits for                           *)
  claimed,      (* [Agents -> [Ids -> Nat]], recordSettlementClaimed       *)
  crashes       (* [Agents -> Nat]                                         *)

taskVars == <<pending, task, orphans>>
sweepVars == <<pendingSettlements, todo, settling, claimed>>
vars == <<taskVars, sweepVars, crashes>>

Phases ==
  {"open", "ready", "approving", "approved", "sent", "mined", "reverted"}
NoTask == [phase |-> "none"]
Task == {NoTask} \cup [phase : Phases, output : Outputs]
Fills == Ids \X Outputs
Retries == 0..(MAX_SETTLEMENT_RETRIES - 1) \cup {NoEntry}

Init ==
  /\ pending = [a \in Agents |-> {}]
  /\ task = [a \in Agents |-> [id \in Ids |-> NoTask]]
  /\ orphans = [a \in Agents |-> {}]
  /\ pendingSettlements = [a \in Agents |-> [id \in Ids |-> NoEntry]]
  /\ todo = [a \in Agents |-> [l \in Sweeps |-> {}]]
  /\ settling = [a \in Agents |-> [l \in Sweeps |-> NoId]]
  /\ claimed = [a \in Agents |-> [id \in Ids |-> 0]]
  /\ crashes = [a \in Agents |-> 0]

-----------------------------------------------------------------------------
(* Intents.                                                                *)

At(a, id, phases) == task[a][id].phase \in phases
Enter(a, id, phase) == task' = [task EXCEPT ![a][id].phase = phase]
Finish(a, id) == task' = [task EXCEPT ![a][id] = NoTask]

(* The end of processIntent: handleIntent drops the id from pending.       *)
Leave(a, id) ==
  /\ Finish(a, id)
  /\ pending' = [pending EXCEPT ![a] = @ \ {id}]

(* An exception leaves handleIntent at its await: pending keeps the id.    *)
Throw(a, id) == Finish(a, id) /\ UNCHANGED pending

(* handleIntent.  The monitor may report the same event more than once.    *)
Notice(a, id, output) ==
  /\ id \notin pending[a]
  /\ pending' = [pending EXCEPT ![a] = @ \cup {id}]
  /\ task' = [task EXCEPT ![a][id] = [phase |-> "open", output |-> output]]
  /\ UNCHANGED <<orphans, sweepVars, crashes>>

(* isFilled is read, then the strategy and the cached liquidity agree.     *)
GoOn(a, id, filled) ==
  /\ At(a, id, {"open"})
  /\ ~filled
  /\ Enter(a, id, "ready")
  /\ UNCHANGED <<pending, orphans, sweepVars, crashes>>

(* Already filled, unprofitable, no liquidity, gas too high; or a read     *)
(* that throws.                                                            *)
GiveUp(a, id) ==
  /\ At(a, id, {"open", "ready"})
  /\ Leave(a, id) \/ Throw(a, id)
  /\ UNCHANGED <<orphans, sweepVars, crashes>>

(* A native output is filled at once, an ERC-20 output after an approval.  *)
IsNative(a, id) == task[a][id].output.token = NativeToken
ReadyToFill(a, id) ==
  \/ At(a, id, {"ready"}) /\ IsNative(a, id)
  \/ At(a, id, {"approved"})

SendApproval(a, id) ==
  /\ At(a, id, {"ready"}) /\ ~IsNative(a, id)
  /\ Enter(a, id, "approving")
  /\ UNCHANGED <<pending, orphans, sweepVars, crashes>>

(* The approval's receipt arrives; its status is not looked at.            *)
AfterApproval(a, id) ==
  /\ At(a, id, {"approving"})
  /\ Enter(a, id, "approved")
  /\ UNCHANGED <<pending, orphans, sweepVars, crashes>>

(* writeContract estimates gas first, and throws when the call would       *)
(* revert at that moment.                                                  *)
SendFill(a, id, accepted) ==
  /\ ReadyToFill(a, id)
  /\ IF accepted THEN Enter(a, id, "sent") /\ UNCHANGED pending
                 ELSE Throw(a, id)
  /\ UNCHANGED <<orphans, sweepVars, crashes>>

(* The fill that a task waits for is mined; ok says with which status.     *)
MineFill(a, id, ok) ==
  /\ At(a, id, {"sent"})
  /\ Enter(a, id, IF ok THEN "mined" ELSE "reverted")
  /\ UNCHANGED <<pending, orphans, sweepVars, crashes>>

(* A fill of an earlier life of the agent is mined.                        *)
MineOrphan(a, id, output) ==
  /\ <<id, output>> \in orphans[a]
  /\ orphans' = [orphans EXCEPT ![a] = @ \ {<<id, output>>}]
  /\ UNCHANGED <<pending, task, sweepVars, crashes>>

(* Mutated form: the receipt's status is not looked at.                    *)
AfterFill_anyStatus(a, id) ==
  /\ At(a, id, {"mined", "reverted"})
  /\ pendingSettlements' = [pendingSettlements EXCEPT ![a][id] = 0]
  /\ Leave(a, id)
  /\ UNCHANGED <<orphans, todo, settling, claimed, crashes>>

(* The receipt: a successful fill is remembered for settlement.            *)
AfterFill(a, id) ==
  /\ At(a, id, {"mined", "reverted"})
  /\ IF At(a, id, {"mined"})
       THEN pendingSettlements' = [pendingSettlements EXCEPT ![a][id] = 0]
       ELSE UNCHANGED pendingSettlements
  /\ Leave(a, id)
  /\ UNCHANGED <<orphans, todo, settling, claimed, crashes>>

SentBy(a, ids) ==
  {<<id, task[a][id].output>> : id \in {i \in ids : At(a, i, {"sent"})}}

(* Waiting for a receipt times out: the fill is forgotten, whether or not  *)
(* it was mined or still will be.                                          *)
LoseReceipt(a, id) ==
  /\ At(a, id, {"approving", "sent", "mined", "reverted"})
  /\ Throw(a, id)
  /\ orphans' = [orphans EXCEPT ![a] = @ \cup SentBy(a, {id})]
  /\ UNCHANGED <<sweepVars, crashes>>

-----------------------------------------------------------------------------
(* Settlements.                                                            *)

HasEntry(a, id) == pendingSettlements[a][id] # NoEntry
Entries(a) == {id \in Ids : HasEntry(a, id)}

Remove(a, id) ==
  pendingSettlements' = [pendingSettlements EXCEPT ![a][id] = NoEntry]

(* One more retry, or the last one.  Another sweep may have removed the    *)
(* entry in the meantime.                                                  *)
Retry(a, id) ==
  pendingSettlements' = [pendingSettlements EXCEPT ![a][id] =
    IF @ = NoEntry \/ @ + 1 >= MAX_SETTLEMENT_RETRIES THEN NoEntry ELSE @ + 1]

(* checkPendingSettlements takes a snapshot and works through it, one      *)
(* entry after the other.                                                  *)
StartSweep(a, l) ==
  /\ todo[a][l] = {} /\ settling[a][l] = NoId
  /\ Entries(a) # {}
  /\ todo' = [todo EXCEPT ![a][l] = Entries(a)]
  /\ UNCHANGED <<taskVars, pendingSettlements, settling, claimed, crashes>>

TakeNext(a, l, id) ==
  /\ id \in todo[a][l] /\ settling[a][l] = NoId
  /\ todo' = [todo EXCEPT ![a][l] = @ \ {id}]

(* Mutated form: an entry never gets too old.                              *)
DropStale_never(a, l, id) ==
  /\ TakeNext(a, l, id)
  /\ UNCHANGED <<taskVars, pendingSettlements, settling, claimed, crashes>>

(* Older than 24 hours.                                                    *)
DropStale(a, l, id) ==
  /\ TakeNext(a, l, id)
  /\ Remove(a, id)
  /\ UNCHANGED <<taskVars, settling, claimed, crashes>>

(* Not time for the next retry yet.                                        *)
Skip(a, l, id) ==
  /\ TakeNext(a, l, id)
  /\ UNCHANGED <<taskVars, pendingSettlements, settling, claimed, crashes>>

(* trySettle up to its transaction: hasAttested, then canSettle.  A read   *)
(* that fails counts as a no.                                              *)
TrySettle(a, l, id, canSettle) ==
  /\ TakeNext(a, l, id)
  /\ IF canSettle
       THEN /\ settling' = [settling EXCEPT ![a][l] = id]
            /\ UNCHANGED pendingSettlements
       ELSE Retry(a, id) /\ UNCHANGED settling
  /\ UNCHANGED <<taskVars, claimed, crashes>>

(* Mutated form: a reverted settlement is taken for a successful one.      *)
AfterSettle_anyStatus(a, l, id, ok) ==
  /\ settling[a][l] = id /\ id # NoId
  /\ settling' = [settling EXCEPT ![a][l] = NoId]
  /\ Remove(a, id)
  /\ claimed' = [claimed EXCEPT ![a][id] = @ + 1]
  /\ UNCHANGED <<taskVars, todo, crashes>>

(* The settle transaction is mined, reverts, or is refused when sent.      *)
AfterSettle(a, l, id, ok) ==
  /\ settling[a][l] = id /\ id # NoId
  /\ settling' = [settling EXCEPT ![a][l] = NoId]
  /\ IF ok THEN /\ Remove(a, id)
                /\ claimed' = [claimed EXCEPT ![a][id] = @ + 1]
           ELSE Retry(a, id) /\ UNCHANGED claimed
  /\ UNCHANGED <<taskVars, todo, crashes>>

(* Waiting for the receipt of settle throws: the sweep ends there.         *)
AbortSweep(a, l, id) ==
  /\ settling[a][l] = id /\ id # NoId
  /\ settling' = [settling EXCEPT ![a][l] = NoId]
  /\ todo' = [todo EXCEPT ![a][l] = {}]
  /\ UNCHANGED <<taskVars, pendingSettlements, claimed, crashes>>

(* The process ends and starts again: all of this lives in memory.  A fill *)
(* that was sent is in the mempool of the destination chain.               *)
Crash(a) ==
  /\ crashes[a] < MaxCrashes
  /\ crashes' = [crashes EXCEPT ![a] = @ + 1]
  /\ orphans' = [orphans EXCEPT ![a] = @ \cup SentBy(a, Ids)]
  /\ pending' = [pending EXCEPT ![a] = {}]
  /\ task' = [task EXCEPT ![a] = [id \in Ids |-> NoTask]]
  /\ pendingSettlements' =
       [pendingSettlements EXCEPT ![a] = [id \in Ids |-> NoEntry]]
  /\ todo' = [todo EXCEPT ![a] = [l \in Sweeps |-> {}]]
  /\ settling' = [settling EXCEPT ![a] = [l \in Sweeps |-> NoId]]
  /\ UNCHANGED claimed

TypeOK ==
  /\ pending \in [Agents -> SUBSET Ids]
  /\ task \in [Agents -> [Ids -> Task]]
  /\ orphans \in [Agents -> SUBSET Fills]
  /\ pendingSettlements \in [Agents -> [Ids -> Retries]]
  /\ todo \in [Agents -> [Sweeps -> SUBSET Ids]]
  /\ settling \in [Agents -> [Sweeps -> Ids \cup {NoId}]]
  /\ claimed \in [Agents -> [Ids -> Nat]]
  /\ crashes \in [Agents -> 0..MaxCrashes]
=============================================================================
