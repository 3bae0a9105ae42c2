---------------------------- MODULE OracleAdapter ----------------------------
(***************************************************************************)
(* The contracts that tell the source chain an order was filled:           *)
(* src/packages/contracts/src/oif/OracleAdapter.sol (SimpleOracle,         *)
(* HyperlaneOracle, SuperchainOracle) and src/packages/contracts/src/oif/  *)
(* HyperlaneOracle.sol (kind "mailbox").                                   *)
(*                                                                         *)
(* A message carries an order id, the chain and the contract it was sent   *)
(* from.  The transport is external: a message that was sent stays in the  *)
(* network, so it may be delivered late, in any order, many times or never.*)
(* A proof may hold any message, sent or not.                              *)
(***************************************************************************)
EXTENDS Integers

CONSTANTS
  Oracles,
  Attesters,    (* accounts that may be authorised                         *)
  Owner,
  Settlers,     (* contracts that send messages                            *)
  NoAddress,    (* address 0, which tables hold until they are set         *)
  Ids,          (* order ids                                               *)
  Chains,       (* chain ids and domains; 0 is the unset domain            *)
  LocalChain,   (* localChainId                                            *)
  OriginWord    (* [Senders -> Chains], what HyperlaneOracle._verifyProof  *)
                (* reads for the origin of a message                       *)

Kinds == {"simple", "hyperlane", "superchain", "mailbox"}
Senders == Settlers \cup {NoAddress}
Messages == [id : Ids, origin : Chains, sender : Senders]

(* What the owner may set or clear: requireISMVerification or              *)
(* requireInboxVerification, ism, mailbox.                                 *)
Switch == {"required", "ism", "mailbox"}
Switches(k) == {w \in Switch :
                  \/ w = "required" /\ k \in {"hyperlane", "superchain"}
                  \/ w = "ism" /\ k = "hyperlane"
                  \/ w = "mailbox" /\ k \in {"hyperlane", "mailbox"}}

VARIABLES
  kind,                 (* [Oracles -> Kinds], fixed at deployment         *)
  attestations,         (* [Oracles -> SUBSET Ids]                         *)
  authorizedAttesters,  (* [Oracles -> SUBSET Attesters]                   *)
  trusted,              (* [Oracles -> [Chains -> Senders]]: trustedSenders*)
                        (* trustedOutputSettlers or trustedRemotes         *)
  domainIds,            (* [Oracles -> [Chains -> Chains]]                 *)
  validSourceChains,    (* [Oracles -> SUBSET Chains]                      *)
  switches,             (* [Oracles -> SUBSET Switch]                      *)
  processedMessages,    (* [Oracles -> SUBSET Messages]                    *)
  sent                  (* messages in the network                         *)

tables == <<authorizedAttesters, trusted, domainIds, validSourceChains, switches>>
vars == <<kind, attestations, tables, processedMessages, sent>>

OracleAssumption ==
  /\ NoAddress \notin Settlers
  /\ 0 \in Chains /\ OriginWord \in [Senders -> Chains]

HasAttested(o, id) == id \in attestations[o]

(* Only the constructor of HyperlaneOracle.sol takes a mailbox.            *)
Init ==
  /\ kind \in [Oracles -> Kinds]
  /\ attestations = [o \in Oracles |-> {}]
  /\ authorizedAttesters = [o \in Oracles |-> {}]
  /\ trusted = [o \in Oracles |-> [c \in Chains |-> NoAddress]]
  /\ domainIds = [o \in Oracles |-> [c \in Chains |-> 0]]
  /\ validSourceChains = [o \in Oracles |-> {}]
  /\ switches = [o \in Oracles |-> Switches(kind[o]) \cap
                   (IF kind[o] = "hyperlane" THEN {"required"}
                    ELSE {"required", "mailbox"})]
  /\ processedMessages = [o \in Oracles |-> {}]
  /\ sent = {}

-----------------------------------------------------------------------------
(* The owner's configuration.                                              *)

Updated(S, x, present) == IF present THEN S \cup {x} ELSE S \ {x}

SetAttester(o, a, authorized) ==
  /\ authorizedAttesters' =
       [authorizedAttesters EXCEPT ![o] = Updated(@, a, authorized)]
  /\ UNCHANGED <<kind, attestations, trusted, domainIds, validSourceChains,
                 switches, processedMessages, sent>>

SetTrusted(o, c, sender) ==
  /\ kind[o] # "simple"
  /\ trusted' = [trusted EXCEPT ![o][c] = sender]
  /\ UNCHANGED <<kind, attestations, authorizedAttesters, domainIds,
                 validSourceChains, switches, processedMessages, sent>>

SetDomainId(o, c, domain) ==
  /\ kind[o] = "hyperlane"
  /\ domainIds' = [domainIds EXCEPT ![o][c] = domain]
  /\ UNCHANGED <<kind, attestations, authorizedAttesters, trusted,
                 validSourceChains, switches, processedMessages, sent>>

SetSourceChain(o, c, valid) ==
  /\ kind[o] = "superchain"
  /\ validSourceChains' = [validSourceChains EXCEPT ![o] = Updated(@, c, valid)]
  /\ UNCHANGED <<kind, attestations, authorizedAttesters, trusted, domainIds,
                 switches, processedMessages, sent>>

(* setRequireISMVerification, setISM, setMailbox, setRequireInboxVerification. *)
SetSwitch(o, w, on) ==
  /\ w \in Switches(kind[o])
  /\ switches' = [switches EXCEPT ![o] = Updated(@, w, on)]
  /\ UNCHANGED <<kind, attestations, authorizedAttesters, trusted, domainIds,
                 validSourceChains, processedMessages, sent>>

-----------------------------------------------------------------------------
(* Attesting.                                                              *)

(* The ISM is asked if verification is required and an ISM is set; the     *)
(* inbox whenever verification is required.                                *)
Verifies(o) ==
  /\ "required" \in switches[o]
  /\ kind[o] = "hyperlane" => "ism" \in switches[o]

(* HyperlaneOracle._verifyProof up to the replay check.  The chain is the  *)
(* caller's claim.  messageOrigin is loaded from offset 5 as a whole word  *)
(* and cut to its last four bytes, which belong to the sender.             *)
FromTrustedDomain(o, m, chain) ==
  /\ domainIds[o][chain] = OriginWord[m.sender]
  /\ trusted[o][OriginWord[m.sender]] = m.sender
  /\ m \notin processedMessages[o]

(* SuperchainOracle._verifyProof up to the replay check, which looks at    *)
(* the body of the message alone.                                          *)
FromTrustedChain(o, m) ==
  /\ m.origin \in validSourceChains[o] /\ m.origin # LocalChain
  /\ trusted[o][m.origin] = m.sender
  /\ \A p \in processedMessages[o] : p.id # m.id

ProofOK(o, id, m, chain) ==
  /\ \/ kind[o] = "hyperlane" /\ FromTrustedDomain(o, m, chain)
     \/ kind[o] = "superchain" /\ FromTrustedChain(o, m)
  /\ Verifies(o) => m \in sent
  /\ m.id = id

Authorized(o, a) == a \in authorizedAttesters[o] \/ a = Owner

(* submitAttestation of SimpleOracle: the attester is trusted.             *)
SubmitTrusted(o, a, id) ==
  /\ kind[o] = "simple"
  /\ Authorized(o, a)
  /\ ~HasAttested(o, id)
  /\ attestations' = [attestations EXCEPT ![o] = @ \cup {id}]
  /\ UNCHANGED <<kind, tables, processedMessages, sent>>

(* submitAttestation of the message oracles, with a message as the proof.  *)
SubmitProof(o, a, id, m, chain) ==
  /\ Authorized(o, a)
  /\ ~HasAttested(o, id)
  /\ ProofOK(o, id, m, chain)
  /\ attestations' = [attestations EXCEPT ![o] = @ \cup {id}]
  /\ processedMessages' = [processedMessages EXCEPT ![o] = @ \cup {m}]
  /\ UNCHANGED <<kind, tables, sent>>

(* submitAttestation of the mailbox oracle: the owner, by hand.            *)
SubmitManual(o, id) ==
  /\ kind[o] = "mailbox"
  /\ ~HasAttested(o, id)
  /\ attestations' = [attestations EXCEPT ![o] = @ \cup {id}]
  /\ UNCHANGED <<kind, tables, processedMessages, sent>>

(* Mutated form: the sender table is not consulted.                        *)
FromTrusted_anyone(o, m) == m \in sent

(* The messenger calls only with what the network carries, and names the   *)
(* chain and the contract that sent it.                                    *)
FromTrusted(o, m) ==
  /\ m \in sent /\ trusted[o][m.origin] = m.sender
  /\ kind[o] = "superchain" => m.origin \in validSourceChains[o]

(* handle and handleCrossChainFill.  A repeated delivery is ignored, or    *)
(* reverts in the mailbox oracle: either way nothing changes.              *)
Handle(o, m) ==
  /\ kind[o] = "superchain" \/ "mailbox" \in switches[o]
  /\ FromTrusted(o, m)
  /\ ~HasAttested(o, m.id)
  /\ attestations' = [attestations EXCEPT ![o] = @ \cup {m.id}]
  /\ UNCHANGED <<kind, tables, processedMessages, sent>>

(* External: a contract hands a message to the network.                    *)
Send(m) ==
  /\ m.sender # NoAddress
  /\ sent' = sent \cup {m}
  /\ UNCHANGED <<kind, attestations, tables, processedMessages>>

TypeOK ==
  /\ kind \in [Oracles -> Kinds]
  /\ attestations \in [Oracles -> SUBSET Ids]
  /\ authorizedAttesters \in [Oracles -> SUBSET Attesters]
  /\ trusted \in [Oracles -> [Chains -> Senders]]
  /\ domainIds \in [Oracles -> [Chains -> Chains]]
  /\ validSourceChains \in [Oracles -> SUBSET Chains]
  /\ switches \in [Oracles -> SUBSET Switch]
  /\ processedMessages \in [Oracles -> SUBSET Messages]
  /\ sent \subseteq Messages
=============================================================================
