------------------------------ MODULE Delivery ------------------------------
(***************************************************************************)
(* The destination chain and the way back: OutputSettler fills orders, the *)
(* transport carries messages, OracleAdapter turns them into attestations  *)
(* on the source chain.                                                    *)
(*                                                                         *)
(* Nothing in OutputSettler.sol sends the message the message oracles wait *)
(* for: that step is external, and so are attesters and the owner.  They   *)
(* are taken to be honest where the code trusts them and only there: the   *)
(* attesters of SimpleOracle, the owner's manual attestation, and which    *)
(* contracts the owner trusts.  Attesters of the message oracles and       *)
(* contracts that are not trusted may do what they like.                   *)
(***************************************************************************)
EXTENDS Integers, FiniteSets

CONSTANTS
  Solvers, Recipients, Tokens, ETH, Ids, Amounts, NoFill, InitialFunds,
  Oracles, Attesters, Owner, NoAddress, Chains, LocalChain, OriginWord,
  FillChain,    (* the chain of the OutputSettler, and its domain          *)
  RealSettler,  (* the OutputSettler deployment                            *)
  OtherSettler  (* some other contract that can send messages              *)

VARIABLES
  solverLiquidity, solverETH, fillRecords, wallet, held,
  kind, attestations, authorizedAttesters, trusted, domainIds,
  validSourceChains, switches, processedMessages, sent,
  unproven      (* history: attestations by a proof that nobody verified   *)

O == INSTANCE OutputSettler
A == INSTANCE OracleAdapter WITH Settlers <- {RealSettler, OtherSettler}

ASSUME DeliveryAssumption ==
  /\ O!OutputAssumption /\ IsFiniteSet(Solvers) /\ IsFiniteSet(Ids)
  /\ A!OracleAssumption /\ FillChain \in Chains

outputVars == <<solverLiquidity, solverETH, fillRecords, wallet, held>>
oracleVars == <<kind, attestations, authorizedAttesters, trusted, domainIds,
                validSourceChains, switches, processedMessages, sent>>
vars == <<outputVars, oracleVars, unproven>>

Init == O!Init /\ A!Init /\ unproven = {}

(* Transactions on the destination chain.                                  *)
DestinationStep == O!Next /\ UNCHANGED <<oracleVars, unproven>>

(* The trusted contract reports fills only.                                *)
Dispatch(m) ==
  /\ m.origin = FillChain
  /\ m.sender = RealSettler => O!IsFilled(m.id)
  /\ A!Send(m)
  /\ UNCHANGED <<outputVars, unproven>>

(* What the code takes on trust.                                           *)
TrustedAttestation(o, id) ==
  /\ O!IsFilled(id)
  /\ \/ \E a \in Attesters \cup {Owner} : A!SubmitTrusted(o, a, id)
     \/ A!SubmitManual(o, id)
  /\ UNCHANGED <<outputVars, unproven>>

(* A proof is submitted to a message oracle, which may not look at it.     *)
ProvenAttestation(o) ==
  /\ \E a \in Attesters, id \in Ids, m \in A!Messages, chain \in Chains :
       /\ A!SubmitProof(o, a, id, m, chain)
       /\ unproven' = IF A!Verifies(o) THEN unproven
                      ELSE unproven \cup {<<o, id>>}
  /\ UNCHANGED outputVars

DeliveredAttestation(o) ==
  /\ \E m \in A!Messages : A!Handle(o, m)
  /\ UNCHANGED <<outputVars, unproven>>

(* The owner trusts the settler or nobody, on chains there are; all else   *)
(* is up to it.                                                            *)
Configure(o) ==
  /\ \/ \E a \in Attesters, b \in BOOLEAN : A!SetAttester(o, a, b)
     \/ \E c \in Chains \ {0}, s \in {RealSettler, NoAddress} :
          A!SetTrusted(o, c, s)
     \/ \E domain \in Chains : A!SetDomainId(o, FillChain, domain)
     \/ \E b \in BOOLEAN : A!SetSourceChain(o, FillChain, b)
     \/ \E w \in A!Switches(kind[o]), b \in BOOLEAN : A!SetSwitch(o, w, b)
  /\ UNCHANGED <<outputVars, unproven>>

Next ==
  \/ DestinationStep
  \/ \E m \in A!Messages : Dispatch(m)
  \/ \E o \in Oracles :
       \/ \E id \in Ids : TrustedAttestation(o, id)
       \/ ProvenAttestation(o) \/ DeliveredAttestation(o)
       \/ Configure(o)

Spec == Init /\ [][Next]_vars

-----------------------------------------------------------------------------
TypeOK ==
  /\ O!TypeOK /\ A!TypeOK
  /\ unproven \subseteq Oracles \X Ids

Backed == O!Backed
RecipientsPaidOnce == O!RecipientsPaidOnce

(* An attestation stands for a delivery: whatever is replayed, forged,     *)
(* delayed or re-configured, an order that is attested was filled, unless  *)
(* its proof was submitted to an oracle that verified none at the time.    *)
AttestedWasFilled ==
  \A o \in Oracles, id \in Ids :
    id \in attestations[o] =>
      O!IsFilled(id) \/ <<o, id>> \in unproven
=============================================================================
