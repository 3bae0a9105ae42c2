----------------------------- MODULE Messaging ------------------------------
(***************************************************************************)
(* Clients of the messaging SDK, a relay and the network between them:     *)
(* packages/messaging.  A connection breaks at any time, and either end    *)
(* learns of it at a time of its own.                                      *)
(***************************************************************************)
EXTENDS MessagingClient

vars == <<relayVars, clientVars>>

Init == RelayInit /\ ClientInit

LoseConnection(c) ==
  /\ near[c] \in {"connecting", "open"} /\ c \notin cut
  /\ Break({c})
  /\ UNCHANGED <<host, storeVars, subscribers, asked, far, asks, clientVars>>

RestartRelay ==
  /\ Restart({c \in Conns : near[c] \in {"connecting", "open"}})
  /\ UNCHANGED clientVars

Relay(c) ==
  /\ Subscribe(c) \/ Close(c)
  /\ UNCHANGED clientVars

Socket(c) ==
  \/ Opened(c) \/ Closed(c) \/ HandleIncomingMessage(c) \/ HandleReceipts(c)

Client(a) == Initialize(a) \/ Reconnect(a) \/ Disconnect(a)

Next ==
  \/ \E a \in Clients : Client(a)
  \/ \E m \in Messages : SendMessage(m)
  \/ \E c \in Conns : Socket(c) \/ Relay(c) \/ LoseConnection(c)
  \/ RestartRelay

Spec == Init /\ [][Next]_vars

(* An attempt to connect ends, a break gets noticed, frames arrive on a    *)
(* connection that stays up, and timers fire.                              *)
Fairness ==
  /\ \A c \in Conns : WF_vars(Socket(c)) /\ WF_vars(Relay(c))
  /\ \A a \in Clients : WF_vars(Reconnect(a))

FairSpec == Spec /\ Fairness

-----------------------------------------------------------------------------
TypeOK ==
  /\ host \in Hosts
  /\ pending \in [Clients -> Seq(Messages)] /\ delivered \subseteq Messages
  /\ subscribers \in [Clients -> Conns \cup {Nobody}]
  /\ asked \subseteq Conns /\ cut \subseteq Conns
  /\ far \in [Conns -> {"none", "open", "closed"}]
  /\ asks \in [Conns -> Nat]
  /\ pushed \in [Conns -> Seq(Messages)]
  /\ receipts \in [Conns -> SUBSET Messages]
  /\ near \in [Conns -> ReadyState]
  /\ ws \in [Clients -> Conns \cup {Nobody}] /\ relayNode \subseteq Clients
  /\ attempts \in [Clients -> 0 .. MaxReconnectAttempts]
  /\ timers \in [Clients -> Nat]
  /\ read \in [Conns -> Nat]
  /\ messageCache \in [Clients -> SUBSET Messages]
  /\ told \in [Clients -> SUBSET Messages]
  /\ sent \subseteq Messages /\ faults \in 0 .. MaxFaults

(* A subscriber whose connection is up has been pushed everything that is  *)
(* kept for it, in the order in which it was accepted and with no gap,     *)
(* whatever was pushed into broken connections before.                     *)
SubscriberHasAll ==
  \A a \in Clients :
    LET c == subscribers[a] IN
    c # Nobody /\ c \notin cut => IsSuffix(pending[a], pushed[c])

(* A client that ever connected has a connection, or is about to make one, *)
(* or has used up its attempts: no end of a connection leaves it stranded. *)
KeepsTrying ==
  \A a \in Clients :
    (\E c \in Conns : Owner[c] = a /\ near[c] # "unused") =>
      \/ Live(a) # {} \/ timers[a] > 0
      \/ attempts[a] = MaxReconnectAttempts

Arrives(m) ==
  m \in sent ~> \/ m \in messageCache[To[m]]
                \/ m \notin ToSet(pending[To[m]])

(* A message whose recipient is subscribed from some time on arrives,      *)
(* although it may have been written into a broken connection and counted  *)
(* as delivered.  Only a restart of the relay can lose it.                 *)
SubscribedGetsAll ==
  \A m \in Messages :
    <>[](subscribers[To[m]] \notin cut \cup {Nobody}) => Arrives(m)

(* isConnected: the newest socket is open.                                 *)
IsConnected(a) == ws[a] # Nobody /\ near[ws[a]] = "open"

(* The same for a recipient whose client stays connected, the most it can  *)
(* see: onMessage then reports every message.                              *)
ConnectedGetsAll ==
  \A m \in Messages : <>[]IsConnected(To[m]) => Arrives(m)
=============================================================================
