-------------------------- MODULE MessagingClient ---------------------------
(***************************************************************************)
(* The client of the messaging SDK: packages/messaging/src/sdk/client.ts,  *)
(* with one relay that relayUrl names, so that connectToRelay always finds *)
(* a node, and autoReconnect on.                                           *)
(*                                                                         *)
(* Abstracted: keys, their registry on the chain and encryption (every     *)
(* client has a key and every message decrypts); the length of a delay.    *)
(***************************************************************************)
EXTENDS RelayNode

CONSTANTS
  MaxReconnectAttempts

ASSUME ClientAssumption == MaxReconnectAttempts \in Nat

VARIABLES
  near,         (* [Conns -> ReadyState], the client's end                 *)
  ws,           (* [Clients -> Conns \cup {Nobody}]                        *)
  relayNode,    (* clients that have chosen a relay                        *)
  attempts,     (* reconnectAttempts: [Clients -> Nat]                     *)
  timers,       (* [Clients -> Nat], reconnections that are scheduled      *)
  read,         (* [Conns -> Nat], how many message frames were handled    *)
  messageCache, (* [Clients -> SUBSET Messages], what was received         *)
  told,         (* [Clients -> SUBSET Messages], message:delivered events  *)
  sent          (* SUBSET Messages, what the relay has accepted            *)

ReadyState == {"unused", "connecting", "open", "closed"}
connectVars == <<near, ws, relayNode, attempts, timers>>
inboxVars == <<read, messageCache, told>>
clientVars == <<connectVars, inboxVars, sent>>

ClientInit ==
  /\ near = [c \in Conns |-> "unused"]
  /\ ws = [a \in Clients |-> Nobody] /\ relayNode = {}
  /\ attempts = [a \in Clients |-> 0] /\ timers = [a \in Clients |-> 0]
  /\ read = [c \in Conns |-> 0]
  /\ messageCache = [a \in Clients |-> {}]
  /\ told = [a \in Clients |-> {}] /\ sent = {}

Unused(a) == {c \in Conns : Owner[c] = a /\ near[c] = "unused"}
Live(a) == {c \in Conns : Owner[c] = a /\ near[c] \in {"connecting", "open"}}

(* connectToRelay, from the choice of a node to new WebSocket.             *)
ConnectToRelay(a) ==
  /\ Unused(a) # {}
  /\ LET c == CHOOSE d \in Unused(a) : TRUE IN
     /\ near' = [near EXCEPT ![c] = "connecting"]
     /\ ws' = [ws EXCEPT ![a] = c]
  /\ relayNode' = relayNode \cup {a}

(* The application calls initialize or connectToRelay, at any time.        *)
Initialize(a) ==
  /\ ConnectToRelay(a)
  /\ UNCHANGED <<relayVars, attempts, timers, inboxVars, sent>>

(* Where onopen sends its subscribe frame: the newest socket, which need   *)
(* not be the one that opened.  It throws on one that is still connecting  *)
(* and has no effect on one that is closed.                                *)
SubscribesOn(c) ==
  {d \in {ws[Owner[c]]} \ (cut \cup {Nobody}) : d = c \/ near[d] = "open"}

(* onopen                                                                  *)
Opened(c) ==
  /\ near[c] = "connecting" /\ c \notin cut
  /\ near' = [near EXCEPT ![c] = "open"]
  /\ far' = [far EXCEPT ![c] = "open"]
  /\ attempts' = [attempts EXCEPT ![Owner[c]] = 0]
  /\ asks' = [d \in Conns |-> asks[d] + IF d \in SubscribesOn(c) THEN 1 ELSE 0]
  /\ UNCHANGED <<host, faults, storeVars, subscribers, asked, cut, pushed,
                 receipts, ws, relayNode, timers, inboxVars, sent>>

(* Mutated form: the attempt is counted, and no timer is set.              *)
HandleReconnect_countsOnly(a) ==
  /\ attempts' = IF attempts[a] >= MaxReconnectAttempts THEN attempts
                 ELSE [attempts EXCEPT ![a] = @ + 1]
  /\ UNCHANGED timers

HandleReconnect(a) ==
  IF attempts[a] >= MaxReconnectAttempts
  THEN UNCHANGED <<attempts, timers>>
  ELSE /\ attempts' = [attempts EXCEPT ![a] = @ + 1]
       /\ timers' = [timers EXCEPT ![a] = @ + 1]

(* Mutated form: onerror reconnects, too, so that an attempt that fails     *)
(* counts twice.                                                           *)
Closed_twice(c) ==
  /\ c \in cut /\ near[c] \in {"connecting", "open"}
  /\ near' = [near EXCEPT ![c] = "closed"]
  /\ LET a == Owner[c]  n == IF near[c] = "connecting" THEN 2 ELSE 1 IN
     IF attempts[a] >= MaxReconnectAttempts
     THEN UNCHANGED <<attempts, timers>>
     ELSE /\ attempts' = [attempts EXCEPT ![a] = @ + n]
          /\ timers' = [timers EXCEPT ![a] = @ + n]
  /\ UNCHANGED <<relayVars, ws, relayNode, inboxVars, sent>>

(* onclose, after onerror if the connection never opened.  After           *)
(* disconnect, too, it connects again.                                     *)
Closed(c) ==
  /\ c \in cut /\ near[c] \in {"connecting", "open"}
  /\ near' = [near EXCEPT ![c] = "closed"]
  /\ HandleReconnect(Owner[c])
  /\ UNCHANGED <<relayVars, ws, relayNode, inboxVars, sent>>

(* The timer of handleReconnect fires.                                     *)
Reconnect(a) ==
  /\ timers[a] > 0
  /\ timers' = [timers EXCEPT ![a] = @ - 1]
  /\ ConnectToRelay(a)
  /\ UNCHANGED <<relayVars, attempts, inboxVars, sent>>

Disconnect(a) ==
  /\ ws[a] # Nobody
  /\ Break({ws[a]} \cap Live(a))
  /\ ws' = [ws EXCEPT ![a] = Nobody]
  /\ relayNode' = relayNode \ {a}
  /\ UNCHANGED <<host, storeVars, subscribers, asked, far, asks, near,
                 attempts, timers, inboxVars, sent>>

(* sendMessage: a POST of its own, whatever the socket is doing.  sent     *)
(* stands for what its senders keep in their messageCache.                 *)
SendMessage(m) ==
  /\ From[m] \in relayNode /\ m \notin sent
  /\ Accept(m)
  /\ sent' = sent \cup {m}
  /\ UNCHANGED <<connectVars, inboxVars>>

(* onmessage, for a message frame                                          *)
HandleIncomingMessage(c) ==
  /\ near[c] = "open" /\ c \notin cut /\ read[c] < Len(pushed[c])
  /\ read' = [read EXCEPT ![c] = @ + 1]
  /\ messageCache' = [messageCache EXCEPT ![Owner[c]] =
                        @ \cup {pushed[c][read[c] + 1]}]
  /\ UNCHANGED <<relayVars, connectVars, told, sent>>

(* onmessage, for delivery receipts                                        *)
HandleReceipts(c) ==
  /\ near[c] = "open" /\ receipts[c] # {}
  /\ told' = [told EXCEPT ![Owner[c]] = @ \cup receipts[c]]
  /\ receipts' = [receipts EXCEPT ![c] = {}]
  /\ UNCHANGED <<host, faults, storeVars, socketVars, asks, pushed,
                 connectVars, read, messageCache, sent>>
=============================================================================
