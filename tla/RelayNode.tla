----------------------------- MODULE RelayNode ------------------------------
(***************************************************************************)
(* A messaging relay: packages/messaging/src/node/server.ts.  Everything   *)
(* it keeps is in memory, and a handler runs to its end before the next    *)
(* one starts.  A host that upgrades /ws hands every socket to one of two  *)
(* sets of handlers: those of handleWebSocket ("listener"), or those of    *)
(* startRelayServer ("bun").                                               *)
(*                                                                         *)
(* Abstracted: an envelope is a message with a sender and a recipient; all *)
(* of them are valid and small enough; statistics, IPFS and read receipts. *)
(***************************************************************************)
EXTENDS Naturals, SequencesExt

CONSTANTS
  Clients,      (* addresses, one client each                              *)
  Messages,     (* envelopes                                               *)
  From, To,     (* [Messages -> Clients]                                   *)
  Conns,        (* Bound: the WebSocket connections ever made              *)
  Owner,        (* [Conns -> Clients]                                      *)
  Nobody,
  Hosts,        (* SUBSET {"listener", "bun"}                              *)
  MaxFaults     (* Bound: how often connections break or are closed        *)

ASSUME RelayAssumption ==
  /\ From \in [Messages -> Clients] /\ To \in [Messages -> Clients]
  /\ Owner \in [Conns -> Clients] /\ Nobody \notin Conns
  /\ Hosts \subseteq {"listener", "bun"} /\ MaxFaults \in Nat

VARIABLES
  host,         (* which handlers serve the sockets; never changes         *)
  pending,      (* pendingByRecipient: [Clients -> Seq(Messages)]          *)
  delivered,    (* messages with a deliveredAt                             *)
  subscribers,  (* [Clients -> Conns \cup {Nobody}]                        *)
  asked,        (* connections whose subscribedAddress is set              *)
  far,          (* [Conns -> {"none", "open", "closed"}], the relay's end  *)
  cut,          (* connections that are broken, noticed or not             *)
  asks,         (* [Conns -> Nat], subscribe frames on their way           *)
  pushed,       (* [Conns -> Seq(Messages)], message frames ever pushed    *)
  receipts,     (* [Conns -> SUBSET Messages], delivery receipts under way *)
  faults        (* how often that has happened                             *)

storeVars == <<pending, delivered>>
socketVars == <<subscribers, asked, far, cut>>
frameVars == <<asks, pushed, receipts>>
relayVars == <<host, faults, storeVars, socketVars, frameVars>>

RelayInit ==
  /\ host \in Hosts
  /\ pending = [a \in Clients |-> <<>>] /\ delivered = {}
  /\ subscribers = [a \in Clients |-> Nobody] /\ asked = {}
  /\ far = [c \in Conns |-> "none"] /\ cut = {}
  /\ asks = [c \in Conns |-> 0]
  /\ pushed = [c \in Conns |-> <<>>] /\ receipts = [c \in Conns |-> {}]
  /\ faults = 0

(* notifySubscriber finds a socket that is open, as far as the relay knows.*)
Listening(a) == subscribers[a] # Nobody /\ far[subscribers[a]] = "open"

(* The connections a frame for a can still arrive through.                 *)
Reaching(a) == IF Listening(a) THEN {subscribers[a]} \ cut ELSE {}

(* Mutated form: the newest message comes first.                           *)
Keep_first(m) == [pending EXCEPT ![To[m]] = <<m>> \o @]

(* addPendingMessage; nothing ever takes a message out again.              *)
Keep(m) == [pending EXCEPT ![To[m]] = Append(@, m)]

(* POST /send.  A message counts as delivered when it is written to a      *)
(* socket that looks open, and the sender is told so.                      *)
Accept(m) ==
  /\ pending' = Keep(m)
  /\ pushed' = [c \in Conns |->
       IF c \in Reaching(To[m]) THEN Append(pushed[c], m) ELSE pushed[c]]
  /\ IF Listening(To[m])
     THEN /\ delivered' = delivered \cup {m}
          /\ receipts' = [c \in Conns |->
               receipts[c] \cup IF c \in Reaching(From[m]) THEN {m} ELSE {}]
     ELSE UNCHANGED <<delivered, receipts>>
  /\ UNCHANGED <<host, faults, socketVars, asks>>

(* Mutated form: only what has no deliveredAt yet.                         *)
Backlog_undelivered(a) == SelectSeq(pending[a], LAMBDA m : m \notin delivered)

(* getPendingMessages                                                      *)
Backlog(a) == pending[a]

(* A subscribe frame is read, possibly after the connection broke: the     *)
(* socket becomes the address's only one and gets all it ever was sent.    *)
Subscribe(c) ==
  /\ asks[c] > 0 /\ far[c] = "open"
  /\ LET a == Owner[c] IN
     /\ subscribers' = [subscribers EXCEPT ![a] = c]
     /\ pushed' = [pushed EXCEPT ![c] = IF c \in cut THEN @ ELSE @ \o Backlog(a)]
     /\ delivered' = delivered \cup ToSet(Backlog(a))
  /\ asked' = asked \cup {c}
  /\ asks' = [asks EXCEPT ![c] = @ - 1]
  /\ UNCHANGED <<host, faults, pending, far, cut, receipts>>

(* The close handlers: the listener drops the address that this socket     *)
(* asked for, whatever socket it has now; the other drops this socket.     *)
DropAddress(c) ==
  [a \in Clients |->
     IF c \in asked /\ a = Owner[c] THEN Nobody ELSE subscribers[a]]
DropSocket(c) ==
  [a \in Clients |-> IF subscribers[a] = c THEN Nobody ELSE subscribers[a]]

Close(c) ==
  /\ c \in cut /\ far[c] = "open"
  /\ far' = [far EXCEPT ![c] = "closed"]
  /\ subscribers' = IF host = "listener" THEN DropAddress(c) ELSE DropSocket(c)
  /\ UNCHANGED <<host, faults, storeVars, asked, cut, frameVars>>

(* What is under way when connections break is lost, except a subscribe    *)
(* frame, which the relay may find later.                                  *)
Break(cs) ==
  /\ faults < MaxFaults /\ faults' = faults + 1
  /\ cut' = cut \cup cs
  /\ pushed' = [c \in Conns |-> IF c \in cs THEN <<>> ELSE pushed[c]]
  /\ receipts' = [c \in Conns |-> IF c \in cs THEN {} ELSE receipts[c]]

(* The process starts again with empty memory; its sockets are gone.       *)
Restart(sockets) ==
  /\ pending' = [a \in Clients |-> <<>>] /\ delivered' = {}
  /\ subscribers' = [a \in Clients |-> Nobody]
  /\ far' = [c \in Conns |-> IF far[c] = "open" THEN "closed" ELSE far[c]]
  /\ asks' = [c \in Conns |-> 0]
  /\ Break(sockets)
  /\ UNCHANGED <<host, asked>>
=============================================================================
