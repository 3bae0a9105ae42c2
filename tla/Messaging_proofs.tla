-------------------------- MODULE Messaging_proofs --------------------------
(***************************************************************************)
(* Proofs about Messaging, for any clients, messages and connections.      *)
(*                                                                         *)
(* KeepsTrying needs nothing but the types.  SubscriberHasAll rests on     *)
(* SubscriberIsOpen: what the relay has for an address is a connection of  *)
(* that address that it has not seen close, so that it pushes to it all    *)
(* that it accepts, and that its close handler removes it.                 *)
(***************************************************************************)
EXTENDS Messaging, SequenceTheorems, TLAPS

SubscriberIsOpen ==
  \A a \in Clients :
    subscribers[a] # Nobody =>
      /\ Owner[subscribers[a]] = a /\ subscribers[a] \in asked
      /\ far[subscribers[a]] = "open"

IInv == TypeOK /\ SubscriberIsOpen /\ SubscriberHasAll

-----------------------------------------------------------------------------
(* What a suffix is, position by position.                                 *)
LEMMA SuffixDef ==
  ASSUME NEW S, NEW s \in Seq(S), NEW t \in Seq(S)
  PROVE  IsSuffix(s, t) <=>
           /\ Len(s) <= Len(t)
           /\ \A i \in 1 .. Len(s) : s[i] = t[Len(t) - Len(s) + i]
<1> DEFINE rs == Reverse(s)  rt == Reverse(t)
<1>1. ASSUME NEW q \in Seq(S)
      PROVE  /\ Reverse(q) \in Seq(S) /\ Len(Reverse(q)) = Len(q)
             /\ \A i \in 1 .. Len(q) : Reverse(q)[i] = q[(Len(q) - i) + 1]
  <2>1. Len(q) \in Nat /\ q \in [1 .. Len(q) -> S]
    BY LenProperties
  <2>2. Reverse(q) \in [1 .. Len(q) -> S]
    BY <2>1 DEF Reverse
  <2>3. Reverse(q) \in Seq(S)
    BY <2>1, <2>2, SeqDef
  <2>4. DOMAIN Reverse(q) = 1 .. Len(q)
    BY <2>2
  <2>5. Len(Reverse(q)) = Len(q)
    BY <2>1, <2>3, <2>4, LenProperties
  <2> QED
    BY <2>1, <2>3, <2>5 DEF Reverse
<1>2. Len(s) \in Nat /\ Len(t) \in Nat
  BY LenProperties
<1>3. /\ rs \in Seq(S) /\ Len(rs) = Len(s)
      /\ \A i \in 1 .. Len(s) : rs[i] = s[(Len(s) - i) + 1]
      /\ rt \in Seq(S) /\ Len(rt) = Len(t)
      /\ \A i \in 1 .. Len(t) : rt[i] = t[(Len(t) - i) + 1]
  BY <1>1
<1> HIDE DEF rs, rt
<1>4. IsSuffix(s, t) <=>
        Len(s) <= Len(t) /\ SubSeq(rs, 1, Len(s)) = SubSeq(rt, 1, Len(s))
  BY <1>3 DEF IsSuffix, IsPrefix, rs, rt
<1>5. ASSUME Len(s) <= Len(t)
      PROVE  SubSeq(rs, 1, Len(s)) = SubSeq(rt, 1, Len(s)) <=>
               \A i \in 1 .. Len(s) : rs[i] = rt[i]
  <2>1. /\ SubSeq(rs, 1, Len(s)) = [i \in 1 .. Len(s) |-> rs[i]]
        /\ SubSeq(rt, 1, Len(s)) = [i \in 1 .. Len(s) |-> rt[i]]
    BY <1>2, <1>3, <1>5
  <2> QED
    BY <2>1, Zenon
<1>6. ASSUME Len(s) <= Len(t)
      PROVE  (\A i \in 1 .. Len(s) : rs[i] = rt[i]) <=>
               (\A i \in 1 .. Len(s) : s[i] = t[Len(t) - Len(s) + i])
  <2>1. ASSUME \A i \in 1 .. Len(s) : rs[i] = rt[i], NEW i \in 1 .. Len(s)
        PROVE  s[i] = t[Len(t) - Len(s) + i]
    <3> DEFINE j == (Len(s) - i) + 1
    <3>1. j \in 1 .. Len(s) /\ j \in 1 .. Len(t)
      BY <1>2, <1>6
    <3>2. rs[j] = s[(Len(s) - j) + 1] /\ rt[j] = t[(Len(t) - j) + 1]
      BY <1>3, <3>1
    <3>3. (Len(s) - j) + 1 = i /\ (Len(t) - j) + 1 = Len(t) - Len(s) + i
      BY <1>2
    <3> QED
      BY <2>1, <3>1, <3>2, <3>3
  <2>2. ASSUME \A i \in 1 .. Len(s) : s[i] = t[Len(t) - Len(s) + i],
               NEW i \in 1 .. Len(s)
        PROVE  rs[i] = rt[i]
    <3> DEFINE j == (Len(s) - i) + 1
    <3>1. j \in 1 .. Len(s) /\ i \in 1 .. Len(t)
      BY <1>2, <1>6
    <3>2. Len(t) - Len(s) + j = (Len(t) - i) + 1
      BY <1>2
    <3> QED
      BY <1>3, <2>2, <3>1, <3>2
  <2> QED
    BY <2>1, <2>2
<1> QED
  BY <1>4, <1>5, <1>6

(* Both grow at the end by the same message.                               *)
LEMMA SuffixAppend ==
  ASSUME NEW S, NEW s \in Seq(S), NEW t \in Seq(S), NEW e \in S,
         IsSuffix(s, t)
  PROVE  IsSuffix(Append(s, e), Append(t, e))
<1> DEFINE sx == Append(s, e)  tx == Append(t, e)
<1>1. /\ sx \in Seq(S) /\ Len(sx) = Len(s) + 1 /\ sx[Len(s) + 1] = e
      /\ \A i \in 1 .. Len(s) : sx[i] = s[i]
      /\ tx \in Seq(S) /\ Len(tx) = Len(t) + 1 /\ tx[Len(t) + 1] = e
      /\ \A i \in 1 .. Len(t) : tx[i] = t[i]
  BY AppendProperties
<1>2. Len(s) \in Nat /\ Len(t) \in Nat
  BY LenProperties
<1>3. /\ Len(s) <= Len(t)
      /\ \A i \in 1 .. Len(s) : s[i] = t[Len(t) - Len(s) + i]
  BY SuffixDef
<1> HIDE DEF sx, tx
<1>4. ASSUME NEW i \in 1 .. Len(sx)
      PROVE  sx[i] = tx[Len(tx) - Len(sx) + i]
  <2>1. CASE i = Len(s) + 1
    <3>1. Len(tx) - Len(sx) + i = Len(t) + 1
      BY <1>1, <1>2, <2>1
    <3>2. sx[i] = e /\ tx[Len(t) + 1] = e
      BY <1>1, <2>1, Zenon
    <3> QED
      BY <3>1, <3>2, Zenon
  <2>2. CASE i \in 1 .. Len(s)
    <3> DEFINE j == Len(t) - Len(s) + i
    <3>1. j \in 1 .. Len(t) /\ Len(tx) - Len(sx) + i = j
      BY <1>1, <1>2, <1>3, <2>2
    <3>2. sx[i] = s[i] /\ tx[j] = t[j] /\ s[i] = t[j]
      BY <1>1, <1>3, <2>2, <3>1
    <3> QED
      BY <3>1, <3>2
  <2> QED
    BY <1>1, <1>2, <2>1, <2>2
<1>5. Len(sx) <= Len(tx)
  BY <1>1, <1>2, <1>3
<1>6. IsSuffix(sx, tx)
  BY <1>1, <1>4, <1>5, SuffixDef, Zenon
<1> QED
  BY <1>6 DEF sx, tx

(* What comes last is a suffix.                                            *)
LEMMA SuffixConcat ==
  ASSUME NEW S, NEW s \in Seq(S), NEW t \in Seq(S)
  PROVE  IsSuffix(s, t \o s)
<1> DEFINE u == t \o s
<1>1. Len(s) \in Nat /\ Len(t) \in Nat
  BY LenProperties
<1>2. /\ u \in Seq(S) /\ Len(u) = Len(t) + Len(s)
      /\ \A i \in 1 .. Len(t) + Len(s) :
           u[i] = IF i <= Len(t) THEN t[i] ELSE s[i - Len(t)]
  BY ConcatProperties
<1> HIDE DEF u
<1>3. ASSUME NEW i \in 1 .. Len(s)
      PROVE  s[i] = u[Len(u) - Len(s) + i]
  <2> DEFINE j == Len(t) + i
  <2>1. /\ Len(u) - Len(s) + i = j /\ j - Len(t) = i
        /\ j \in 1 .. Len(t) + Len(s) /\ ~(j <= Len(t))
    BY <1>1, <1>2
  <2>2. u[j] = IF j <= Len(t) THEN t[j] ELSE s[j - Len(t)]
    BY <1>2, <2>1, Zenon
  <2>3. u[j] = s[i]
    BY <2>1, <2>2, Zenon
  <2> QED
    BY <2>1, <2>3, Zenon
<1>4. Len(s) <= Len(u)
  BY <1>1, <1>2
<1>5. IsSuffix(s, u)
  BY <1>2, <1>3, <1>4, SuffixDef, Zenon
<1> QED
  BY <1>5 DEF u

-----------------------------------------------------------------------------
(* What Break and the choice of a new connection write.                    *)
LEMMA BreakType ==
  ASSUME TypeOK, NEW cs, cs \subseteq Conns, Break(cs)
  PROVE  /\ cut' \subseteq Conns /\ faults' \in 0 .. MaxFaults
         /\ pushed' \in [Conns -> Seq(Messages)]
         /\ receipts' \in [Conns -> SUBSET Messages]
<1>1. <<>> \in Seq(Messages)
  BY EmptySeq
<1> QED
  BY <1>1, RelayAssumption DEF TypeOK, Break

LEMMA ConnectType ==
  ASSUME TypeOK, NEW a \in Clients, ConnectToRelay(a)
  PROVE  /\ near' \in [Conns -> ReadyState] /\ relayNode' \subseteq Clients
         /\ ws' \in [Clients -> Conns \cup {Nobody}]
<1> DEFINE d == CHOOSE c \in Unused(a) : TRUE
<1>1. d \in Unused(a)
  BY Zenon DEF ConnectToRelay
<1>2. d \in Conns
  BY <1>1 DEF Unused
<1>3. /\ near' = [near EXCEPT ![d] = "connecting"]
      /\ ws' = [ws EXCEPT ![a] = d] /\ relayNode' = relayNode \cup {a}
  BY Zenon DEF ConnectToRelay
<1> HIDE DEF d
<1> QED
  BY <1>2, <1>3 DEF TypeOK, ReadyState

(* A step of the relay, by what it writes.                                 *)
LEMMA RelayType ==
  ASSUME TypeOK, NEW c \in Conns, Relay(c)
  PROVE  TypeOK'
<1> USE RelayAssumption
<1>1. Owner[c] \in Clients
  OBVIOUS
<1>2. CASE Subscribe(c)
  <2>1. pushed[c] \o Backlog(Owner[c]) \in Seq(Messages)
    BY <1>1, ConcatProperties DEF TypeOK, Backlog
  <2>2. ToSet(Backlog(Owner[c])) \subseteq Messages
    <3>1. Backlog(Owner[c]) \in Seq(Messages)
      BY <1>1 DEF TypeOK, Backlog
    <3>2. \A i \in DOMAIN Backlog(Owner[c]) : Backlog(Owner[c])[i] \in Messages
      BY <3>1, ElementOfSeq, LenProperties
    <3> QED
      BY <3>2, Zenon DEF ToSet
  <2> DEFINE new == pushed[c] \o Backlog(Owner[c])  old == ToSet(Backlog(Owner[c]))
  <2>3. /\ subscribers' = [subscribers EXCEPT ![Owner[c]] = c]
        /\ pushed' = [pushed EXCEPT ![c] = IF c \in cut THEN @ ELSE new]
        /\ delivered' = delivered \cup old
        /\ asks[c] > 0 /\ asks' = [asks EXCEPT ![c] = @ - 1]
        /\ asked' = asked \cup {c}
    BY <1>2 DEF Subscribe
  <2> HIDE DEF new, old
  <2>4. subscribers' \in [Clients -> Conns \cup {Nobody}]
    BY <1>1, <2>3 DEF TypeOK
  <2>5. pushed' \in [Conns -> Seq(Messages)]
    BY <2>1, <2>3 DEF TypeOK, new
  <2>6. asks' \in [Conns -> Nat]
    BY <2>3 DEF TypeOK
  <2>7. delivered' \subseteq Messages /\ asked' \subseteq Conns
    BY <2>2, <2>3 DEF TypeOK, old
  <2>8. UNCHANGED <<host, faults, pending, far, cut, receipts, clientVars>>
    BY <1>2 DEF Subscribe, Relay
  <2> QED
    BY <2>4, <2>5, <2>6, <2>7, <2>8
    DEF TypeOK, clientVars, connectVars, inboxVars
<1>3. CASE Close(c)
  BY <1>3 DEF Close, DropAddress, DropSocket, Relay, TypeOK, storeVars,
              frameVars, clientVars, connectVars, inboxVars
<1> QED
  BY <1>2, <1>3 DEF Relay

(* A step of a connection's client end.                                    *)
LEMMA SocketType ==
  ASSUME TypeOK, NEW c \in Conns, Socket(c)
  PROVE  TypeOK'
<1> USE RelayAssumption, ClientAssumption
<1>1. Owner[c] \in Clients
  OBVIOUS
<1>2. CASE Opened(c)
  <2>1. /\ near' \in [Conns -> ReadyState] /\ attempts' \in [Clients -> 0 .. MaxReconnectAttempts]
        /\ far' \in [Conns -> {"none", "open", "closed"}]
    BY <1>1, <1>2 DEF Opened, TypeOK, ReadyState
  <2>2. asks' \in [Conns -> Nat]
    BY <1>2 DEF Opened, TypeOK
  <2> QED
    BY <1>2, <2>1, <2>2 DEF Opened, TypeOK, storeVars, inboxVars
<1>3. CASE Closed(c)
  <2>1. /\ attempts' \in [Clients -> 0 .. MaxReconnectAttempts]
        /\ timers' \in [Clients -> Nat]
    <3>1. CASE attempts[Owner[c]] >= MaxReconnectAttempts
      BY <1>3, <3>1 DEF Closed, HandleReconnect, TypeOK
    <3>2. CASE ~(attempts[Owner[c]] >= MaxReconnectAttempts)
      <4>1. /\ attempts' = [attempts EXCEPT ![Owner[c]] = @ + 1]
            /\ timers' = [timers EXCEPT ![Owner[c]] = @ + 1]
        BY <1>3, <3>2, Zenon DEF Closed, HandleReconnect
      <4>2. attempts[Owner[c]] + 1 \in 0 .. MaxReconnectAttempts
        BY <1>1, <3>2 DEF TypeOK
      <4> QED
        BY <1>1, <4>1, <4>2 DEF TypeOK
    <3> QED
      BY <3>1, <3>2
  <2>2. near' \in [Conns -> ReadyState]
    BY <1>3 DEF Closed, TypeOK, ReadyState
  <2> QED
    BY <1>3, <2>1, <2>2
    DEF Closed, TypeOK, relayVars, storeVars, socketVars, frameVars, inboxVars
<1>4. CASE HandleIncomingMessage(c)
  <2>0. read' = [read EXCEPT ![c] = @ + 1]
    BY <1>4, Zenon DEF HandleIncomingMessage
  <2>1. read' \in [Conns -> Nat]
    BY <2>0 DEF TypeOK
  <2>2. pushed[c][read[c] + 1] \in Messages
    <3>1. /\ pushed[c] \in Seq(Messages) /\ Len(pushed[c]) \in Nat
          /\ read[c] \in Nat /\ read[c] < Len(pushed[c])
      BY <1>4, LenProperties DEF HandleIncomingMessage, TypeOK
    <3> QED
      BY <3>1, ElementOfSeq
  <2>3. messageCache' \in [Clients -> SUBSET Messages]
    BY <1>1, <1>4, <2>2 DEF HandleIncomingMessage, TypeOK
  <2> QED
    BY <1>4, <2>1, <2>3
    DEF HandleIncomingMessage, TypeOK, relayVars, storeVars, socketVars,
        frameVars, connectVars
<1>5. CASE HandleReceipts(c)
  <2>1. /\ told' \in [Clients -> SUBSET Messages]
        /\ receipts' \in [Conns -> SUBSET Messages]
    BY <1>1, <1>5 DEF HandleReceipts, TypeOK
  <2> QED
    BY <1>5, <2>1
    DEF HandleReceipts, TypeOK, storeVars, socketVars, connectVars
<1> QED
  BY <1>2, <1>3, <1>4, <1>5 DEF Socket

(* A step of a client's application or of a timer of its own.              *)
LEMMA ClientType ==
  ASSUME TypeOK, NEW a \in Clients, Client(a)
  PROVE  TypeOK'
<1> USE RelayAssumption, ClientAssumption
<1>1. CASE Initialize(a)
  BY <1>1, ConnectType
  DEF Initialize, TypeOK, relayVars, storeVars, socketVars, frameVars, inboxVars
<1>2. CASE Reconnect(a)
  <2>1. timers' \in [Clients -> Nat] /\ ConnectToRelay(a)
    BY <1>2 DEF Reconnect, TypeOK
  <2> QED
    BY <1>2, <2>1, ConnectType
    DEF Reconnect, TypeOK, relayVars, storeVars, socketVars, frameVars, inboxVars
<1>3. CASE Disconnect(a)
  <2>1. {ws[a]} \cap Live(a) \subseteq Conns /\ Break({ws[a]} \cap Live(a))
    BY <1>3 DEF Disconnect, Live
  <2>2. /\ ws' \in [Clients -> Conns \cup {Nobody}] /\ relayNode' \subseteq Clients
    BY <1>3 DEF Disconnect, TypeOK
  <2> QED
    BY <1>3, <2>1, <2>2, BreakType DEF Disconnect, TypeOK, storeVars, inboxVars
<1> QED
  BY <1>1, <1>2, <1>3 DEF Client

(* A message is sent.                                                      *)
LEMMA SendType ==
  ASSUME TypeOK, NEW m \in Messages, SendMessage(m)
  PROVE  TypeOK'
<1> USE RelayAssumption
<1>1. To[m] \in Clients /\ From[m] \in Clients
  OBVIOUS
<1>2. pending' \in [Clients -> Seq(Messages)]
  <2>1. Append(pending[To[m]], m) \in Seq(Messages)
    BY <1>1, AppendProperties DEF TypeOK
  <2> QED
    BY <1>1, <2>1 DEF SendMessage, Accept, Keep, TypeOK
<1>3. pushed' \in [Conns -> Seq(Messages)]
  <2>1. \A c \in Conns : Append(pushed[c], m) \in Seq(Messages)
    BY AppendProperties DEF TypeOK
  <2> QED
    BY <2>1 DEF SendMessage, Accept, TypeOK
<1>4. /\ delivered' \subseteq Messages /\ sent' \subseteq Messages
      /\ receipts' \in [Conns -> SUBSET Messages]
  BY DEF SendMessage, Accept, TypeOK
<1> QED
  BY <1>2, <1>3, <1>4
  DEF SendMessage, Accept, TypeOK, socketVars, connectVars, inboxVars

(* A connection breaks, or the relay starts again.                         *)
LEMMA LoseType ==
  ASSUME TypeOK, NEW c \in Conns, LoseConnection(c)
  PROVE  TypeOK'
<1>1. Break({c})
  BY DEF LoseConnection
<1> QED
  BY <1>1, BreakType
  DEF LoseConnection, TypeOK, storeVars, clientVars, connectVars, inboxVars

LEMMA RestartType ==
  ASSUME TypeOK, RestartRelay
  PROVE  TypeOK'
<1> DEFINE up == {c \in Conns : near[c] \in {"connecting", "open"}}
<1>1. Break(up)
  BY DEF RestartRelay, Restart
<1>2. up \subseteq Conns
  OBVIOUS
<1> HIDE DEF up
<1>3. /\ cut' \subseteq Conns /\ faults' \in 0 .. MaxFaults
      /\ pushed' \in [Conns -> Seq(Messages)]
      /\ receipts' \in [Conns -> SUBSET Messages]
  BY <1>1, <1>2, BreakType
<1>4. <<>> \in Seq(Messages)
  BY EmptySeq
<1>5. /\ pending' \in [Clients -> Seq(Messages)] /\ delivered' \subseteq Messages
      /\ subscribers' \in [Clients -> Conns \cup {Nobody}]
      /\ far' \in [Conns -> {"none", "open", "closed"}]
      /\ asks' \in [Conns -> Nat]
  BY <1>4 DEF RestartRelay, Restart, TypeOK
<1> QED
  BY <1>3, <1>5 DEF RestartRelay, Restart, TypeOK, clientVars, connectVars, inboxVars

LEMMA StutterType == TypeOK /\ UNCHANGED vars => TypeOK'
BY DEF TypeOK, vars, relayVars, storeVars, socketVars, frameVars, clientVars,
       connectVars, inboxVars

LEMMA NextType == TypeOK /\ [Next]_vars => TypeOK'
BY RelayType, SocketType, ClientType, SendType, LoseType, RestartType,
   StutterType DEF Next

LEMMA InitType == Init => TypeOK
<1>1. <<>> \in Seq(Messages)
  BY EmptySeq
<1> QED
  BY <1>1, RelayAssumption, ClientAssumption
  DEF Init, RelayInit, ClientInit, TypeOK, ReadyState

-----------------------------------------------------------------------------
(* KeepsTrying, an inductive invariant as it stands.                       *)

(* A new connection keeps its client trying and leaves others alone.       *)
LEMMA ConnectTries ==
  ASSUME TypeOK, KeepsTrying, NEW a \in Clients, ConnectToRelay(a),
         UNCHANGED attempts,
         \A b \in Clients \ {a} : timers'[b] = timers[b]
  PROVE  KeepsTrying'
<1> DEFINE d == CHOOSE c \in Unused(a) : TRUE
<1>1. d \in Unused(a)
  BY Zenon DEF ConnectToRelay
<1>2. near' = [near EXCEPT ![d] = "connecting"]
  BY Zenon DEF ConnectToRelay
<1> HIDE DEF d
<1>3. d \in Conns /\ Owner[d] = a
  BY <1>1 DEF Unused
<1>4. Live(a)' # {}
  BY <1>2, <1>3 DEF Live, TypeOK
<1>5. ASSUME NEW b \in Clients \ {a}
      PROVE  \A c \in Conns : Owner[c] = b => near'[c] = near[c]
  BY <1>2, <1>3 DEF TypeOK
<1> QED
  BY <1>4, <1>5 DEF KeepsTrying, Live

(* The end of a connection leads to another attempt, if one is left.       *)
LEMMA ClosedTries ==
  ASSUME TypeOK, KeepsTrying, NEW c \in Conns, Closed(c)
  PROVE  KeepsTrying'
<1> USE RelayAssumption, ClientAssumption
<1> DEFINE a == Owner[c]
<1>1. a \in Clients
  OBVIOUS
<1> HIDE DEF a
<1>2. timers'[a] > 0 \/ attempts'[a] = MaxReconnectAttempts
  <2>1. CASE attempts[a] >= MaxReconnectAttempts
    BY <1>1, <2>1 DEF Closed, HandleReconnect, TypeOK, a
  <2>2. CASE ~(attempts[a] >= MaxReconnectAttempts)
    <3>1. timers' = [timers EXCEPT ![a] = @ + 1]
      BY <2>2, Zenon DEF Closed, HandleReconnect, a
    <3> QED
      BY <1>1, <3>1 DEF TypeOK
  <2> QED
    BY <2>1, <2>2
<1>3. ASSUME NEW b \in Clients, b # a
      PROVE  /\ timers'[b] = timers[b] /\ attempts'[b] = attempts[b]
             /\ \A d \in Conns : Owner[d] = b => near'[d] = near[d]
  BY <1>1, <1>3 DEF Closed, HandleReconnect, TypeOK, a
<1> QED
  BY <1>2, <1>3 DEF KeepsTrying, Live

(* attempts starts again at zero, but with a connection that is open.      *)
LEMMA OpenedTries ==
  ASSUME TypeOK, KeepsTrying, NEW c \in Conns, Opened(c)
  PROVE  KeepsTrying'
<1>1. Owner[c] \in Clients
  BY RelayAssumption
<1>2. Live(Owner[c])' # {}
  BY DEF Opened, Live, TypeOK
<1>3. ASSUME NEW b \in Clients, b # Owner[c]
      PROVE  /\ timers'[b] = timers[b] /\ attempts'[b] = attempts[b]
             /\ \A d \in Conns : Owner[d] = b => near'[d] = near[d]
  BY <1>1, <1>3 DEF Opened, TypeOK
<1> QED
  BY <1>2, <1>3 DEF KeepsTrying, Live

LEMMA NextTries == TypeOK /\ KeepsTrying /\ [Next]_vars => KeepsTrying'
<1> SUFFICES ASSUME TypeOK, KeepsTrying, [Next]_vars
             PROVE  KeepsTrying'
  OBVIOUS
<1>1. ASSUME UNCHANGED <<near, attempts, timers>>
      PROVE  KeepsTrying'
  BY <1>1 DEF KeepsTrying, Live
<1>2. ASSUME NEW a \in Clients, Client(a)
      PROVE  KeepsTrying'
  <2>1. CASE Initialize(a)
    BY <2>1, ConnectTries DEF Initialize
  <2>2. CASE Reconnect(a)
    BY <2>2, ConnectTries DEF Reconnect, TypeOK
  <2>3. CASE Disconnect(a)
    BY <1>1, <2>3 DEF Disconnect
  <2> QED
    BY <1>2, <2>1, <2>2, <2>3 DEF Client
<1>3. ASSUME NEW c \in Conns, Socket(c)
      PROVE  KeepsTrying'
  BY <1>1, <1>3, OpenedTries, ClosedTries
  DEF Socket, HandleIncomingMessage, HandleReceipts, connectVars
<1>4. ASSUME NEW c \in Conns, Relay(c) \/ LoseConnection(c)
      PROVE  KeepsTrying'
  BY <1>1, <1>4 DEF Relay, LoseConnection, clientVars, connectVars
<1>5. ASSUME \/ \E m \in Messages : SendMessage(m)
             \/ RestartRelay
             \/ UNCHANGED vars
      PROVE  KeepsTrying'
  BY <1>1, <1>5 DEF SendMessage, RestartRelay, vars, clientVars, connectVars
<1> QED
  BY <1>2, <1>3, <1>4, <1>5 DEF Next

-----------------------------------------------------------------------------
(* SubscriberIsOpen and SubscriberHasAll.                                  *)

(* What is about a subscriber of an address that a step leaves alone.      *)
LEMMA OthersKept ==
  ASSUME SubscriberIsOpen, SubscriberHasAll, NEW a \in Clients,
         subscribers'[a] \in {subscribers[a], Nobody},
         cut \subseteq cut',
         subscribers'[a] # Nobody =>
           /\ subscribers[a] \in asked' /\ far'[subscribers[a]] = "open"
           /\ subscribers[a] \notin cut' =>
                /\ pending'[a] = pending[a]
                /\ pushed'[subscribers[a]] = pushed[subscribers[a]]
  PROVE  /\ subscribers'[a] # Nobody =>
              /\ Owner[subscribers'[a]] = a /\ subscribers'[a] \in asked'
              /\ far'[subscribers'[a]] = "open"
         /\ subscribers'[a] # Nobody /\ subscribers'[a] \notin cut' =>
              IsSuffix(pending'[a], pushed'[subscribers'[a]])
BY DEF SubscriberIsOpen, SubscriberHasAll

LEMMA SubscribeHasAll ==
  ASSUME IInv, NEW c \in Conns, Subscribe(c)
  PROVE  SubscriberIsOpen' /\ SubscriberHasAll'
<1> DEFINE o == Owner[c]
<1>1. o \in Clients /\ c # Nobody
  BY RelayAssumption
<1>2. /\ subscribers' = [subscribers EXCEPT ![o] = c]
      /\ pushed' = [pushed EXCEPT ![c] = IF c \in cut THEN @ ELSE @ \o pending[o]]
      /\ asked' = asked \cup {c}
      /\ UNCHANGED <<pending, far, cut>> /\ far[c] = "open"
  BY DEF Subscribe, Backlog
<1>3. /\ subscribers'[o] = c /\ c \in asked' /\ far'[c] = "open"
      /\ c \notin cut' => IsSuffix(pending'[o], pushed'[c])
  BY <1>1, <1>2, SuffixConcat DEF IInv, TypeOK
<1>4. ASSUME NEW a \in Clients, a # o
      PROVE  /\ subscribers'[a] = subscribers[a]
             /\ subscribers[a] # Nobody => subscribers[a] # c
  BY <1>1, <1>2, <1>4 DEF IInv, TypeOK, SubscriberIsOpen
<1>5. ASSUME NEW a \in Clients, a # o, subscribers[a] # Nobody
      PROVE  pushed'[subscribers[a]] = pushed[subscribers[a]]
  BY <1>2, <1>4, <1>5 DEF IInv, TypeOK
<1>6. ASSUME NEW a \in Clients
      PROVE  /\ subscribers'[a] # Nobody =>
                  /\ Owner[subscribers'[a]] = a /\ subscribers'[a] \in asked'
                  /\ far'[subscribers'[a]] = "open"
             /\ subscribers'[a] # Nobody /\ subscribers'[a] \notin cut' =>
                  IsSuffix(pending'[a], pushed'[subscribers'[a]])
  <2>1. CASE a = o
    BY <1>3, <2>1
  <2>2. CASE a # o
    <3>1. subscribers[a] # Nobody => subscribers[a] \in asked /\ far[subscribers[a]] = "open"
      BY DEF IInv, SubscriberIsOpen
    <3> QED
      BY <1>2, <1>4, <1>5, <2>2, <3>1, OthersKept DEF IInv
  <2> QED
    BY <2>1, <2>2
<1> QED
  BY <1>6 DEF SubscriberIsOpen, SubscriberHasAll

(* Whichever handlers close c, no address keeps it as its subscriber.      *)
LEMMA CloseHasAll ==
  ASSUME IInv, NEW c \in Conns, Close(c)
  PROVE  SubscriberIsOpen' /\ SubscriberHasAll'
<1> SUFFICES ASSUME NEW a \in Clients
             PROVE  /\ subscribers'[a] # Nobody =>
                         /\ Owner[subscribers'[a]] = a /\ subscribers'[a] \in asked'
                         /\ far'[subscribers'[a]] = "open"
                    /\ subscribers'[a] # Nobody /\ subscribers'[a] \notin cut' =>
                         IsSuffix(pending'[a], pushed'[subscribers'[a]])
  BY DEF SubscriberIsOpen, SubscriberHasAll
<1>1. subscribers'[a] \in {subscribers[a], Nobody}
  BY DEF Close, DropAddress, DropSocket
<1>2. subscribers[a] # Nobody =>
        Owner[subscribers[a]] = a /\ subscribers[a] \in asked /\ far[subscribers[a]] = "open"
  BY DEF IInv, SubscriberIsOpen
<1>3. subscribers'[a] # Nobody => subscribers[a] # c
  BY <1>2, RelayAssumption DEF Close, DropAddress, DropSocket, IInv, TypeOK
<1>4. subscribers[a] # Nobody /\ subscribers[a] # c => far'[subscribers[a]] = far[subscribers[a]]
  BY DEF Close, IInv, TypeOK
<1>5. UNCHANGED <<asked, cut, pending, pushed>>
  BY DEF Close, storeVars, frameVars
<1> QED
  BY <1>1, <1>2, <1>3, <1>4, <1>5, OthersKept DEF IInv

(* What breaks is no subscriber that has to have everything.               *)
LEMMA BreakHasAll ==
  ASSUME IInv, NEW cs, cs \subseteq Conns, Break(cs),
         UNCHANGED <<subscribers, asked, far, pending>>
  PROVE  SubscriberIsOpen' /\ SubscriberHasAll'
<1>1. cut' = cut \cup cs /\ \A c \in Conns \ cs : pushed'[c] = pushed[c]
  BY DEF Break
<1> QED
  BY <1>1 DEF IInv, TypeOK, SubscriberIsOpen, SubscriberHasAll

(* A message is pushed to its recipient's subscriber and to no other.      *)
LEMMA SendHasAll ==
  ASSUME IInv, NEW m \in Messages, SendMessage(m)
  PROVE  SubscriberIsOpen' /\ SubscriberHasAll'
<1> DEFINE o == To[m]
<1>1. o \in Clients
  BY RelayAssumption
<1>2. /\ pending' = [pending EXCEPT ![o] = Append(@, m)]
      /\ pushed' = [c \in Conns |->
           IF c \in Reaching(o) THEN Append(pushed[c], m) ELSE pushed[c]]
      /\ UNCHANGED <<subscribers, asked, far, cut>>
  BY DEF SendMessage, Accept, Keep, socketVars
<1>3. SubscriberIsOpen'
  BY <1>2 DEF IInv, SubscriberIsOpen
<1>4. ASSUME NEW a \in Clients, subscribers[a] # Nobody, subscribers[a] \notin cut
      PROVE  IsSuffix(pending'[a], pushed'[subscribers[a]])
  <2> DEFINE c == subscribers[a]
  <2>1. /\ c \in Conns /\ Owner[c] = a /\ far[c] = "open"
        /\ IsSuffix(pending[a], pushed[c])
        /\ pending[a] \in Seq(Messages) /\ pushed[c] \in Seq(Messages)
    BY <1>4 DEF IInv, TypeOK, SubscriberIsOpen, SubscriberHasAll
  <2>2. CASE a = o
    <3>1. Reaching(o) = {c}
      BY <1>4, <2>1, <2>2 DEF Reaching, Listening
    <3>2. pushed'[c] = Append(pushed[c], m) /\ pending'[a] = Append(pending[a], m)
      BY <1>1, <1>2, <2>1, <2>2, <3>1 DEF IInv, TypeOK
    <3> QED
      BY <2>1, <3>2, SuffixAppend
  <2>3. CASE a # o
    <3>1. c \notin Reaching(o)
      BY <1>1, <2>1, <2>3 DEF Reaching, Listening, IInv, SubscriberIsOpen
    <3>2. pushed'[c] = pushed[c] /\ pending'[a] = pending[a]
      BY <1>1, <1>2, <2>1, <2>3, <3>1 DEF IInv, TypeOK
    <3> QED
      BY <2>1, <3>2
  <2> QED
    BY <2>2, <2>3
<1>5. SubscriberHasAll'
  BY <1>2, <1>4 DEF SubscriberHasAll
<1> QED
  BY <1>3, <1>5

LEMMA NextHasAll == IInv /\ [Next]_vars => SubscriberIsOpen' /\ SubscriberHasAll'
<1> SUFFICES ASSUME IInv, [Next]_vars
             PROVE  SubscriberIsOpen' /\ SubscriberHasAll'
  OBVIOUS
<1>1. ASSUME UNCHANGED <<subscribers, asked, far, cut, pending, pushed>>
      PROVE  SubscriberIsOpen' /\ SubscriberHasAll'
  BY <1>1 DEF IInv, SubscriberIsOpen, SubscriberHasAll
<1>2. ASSUME NEW c \in Conns, Relay(c)
      PROVE  SubscriberIsOpen' /\ SubscriberHasAll'
  BY <1>2, SubscribeHasAll, CloseHasAll DEF Relay
<1>3. ASSUME NEW c \in Conns, Socket(c)
      PROVE  SubscriberIsOpen' /\ SubscriberHasAll'
  <2>1. CASE Opened(c)
    <3>1. /\ far' = [far EXCEPT ![c] = "open"]
          /\ UNCHANGED <<subscribers, asked, cut, pending, pushed>>
      BY <2>1 DEF Opened, storeVars
    <3>2. SubscriberIsOpen'
      BY <3>1 DEF IInv, TypeOK, SubscriberIsOpen
    <3>3. SubscriberHasAll'
      BY <3>1 DEF IInv, SubscriberHasAll
    <3> QED
      BY <3>2, <3>3
  <2>2. CASE Closed(c)
    BY <1>1, <2>2 DEF Closed, relayVars, storeVars, socketVars, frameVars
  <2>3. CASE HandleIncomingMessage(c)
    BY <1>1, <2>3
    DEF HandleIncomingMessage, relayVars, storeVars, socketVars, frameVars
  <2>4. CASE HandleReceipts(c)
    BY <1>1, <2>4 DEF HandleReceipts, storeVars, socketVars
  <2> QED
    BY <1>3, <2>1, <2>2, <2>3, <2>4 DEF Socket
<1>4. ASSUME NEW a \in Clients, Client(a)
      PROVE  SubscriberIsOpen' /\ SubscriberHasAll'
  <2>1. CASE Initialize(a) \/ Reconnect(a)
    BY <1>1, <2>1
    DEF Initialize, Reconnect, relayVars, storeVars, socketVars, frameVars
  <2>2. CASE Disconnect(a)
    <3>1. {ws[a]} \cap Live(a) \subseteq Conns
      BY DEF Live
    <3> QED
      BY <2>2, <3>1, BreakHasAll DEF Disconnect, storeVars
  <2> QED
    BY <1>4, <2>1, <2>2 DEF Client
<1>5. ASSUME NEW c \in Conns, LoseConnection(c)
      PROVE  SubscriberIsOpen' /\ SubscriberHasAll'
  <2>1. {c} \subseteq Conns
    OBVIOUS
  <2> QED
    BY <1>5, <2>1, BreakHasAll DEF LoseConnection, storeVars
<1>6. CASE RestartRelay
  BY <1>6 DEF RestartRelay, Restart, SubscriberIsOpen, SubscriberHasAll
<1>7. CASE UNCHANGED vars
  BY <1>1, <1>7 DEF vars, relayVars, storeVars, socketVars, frameVars
<1> QED
  BY <1>2, <1>3, <1>4, <1>5, <1>6, <1>7, SendHasAll DEF Next

-----------------------------------------------------------------------------
LEMMA Inductive == Spec => [](IInv /\ KeepsTrying)
<1>1. Init => SubscriberIsOpen /\ SubscriberHasAll /\ KeepsTrying
  BY DEF Init, RelayInit, ClientInit, SubscriberIsOpen, SubscriberHasAll, KeepsTrying
<1>2. Init => IInv /\ KeepsTrying
  BY <1>1, InitType DEF IInv
<1>3. IInv /\ KeepsTrying /\ [Next]_vars => (IInv /\ KeepsTrying)'
  <2> SUFFICES ASSUME IInv, KeepsTrying, [Next]_vars
               PROVE  (IInv /\ KeepsTrying)'
    OBVIOUS
  <2>1. TypeOK'
    BY NextType DEF IInv
  <2>2. KeepsTrying'
    BY NextTries DEF IInv
  <2> QED
    BY <2>1, <2>2, NextHasAll DEF IInv
<1> QED
  BY <1>2, <1>3, PTL DEF Spec

(* The variables of the relay, the clients and the network keep their      *)
(* types: reconnectAttempts never exceeds its maximum.                     *)
THEOREM TypeCorrect == Spec => []TypeOK
<1>1. IInv => TypeOK
  BY DEF IInv
<1> QED
  BY <1>1, Inductive, PTL

(* The subscriber that the relay has for an address has been pushed all    *)
(* that is pending for it, in order, if its connection is up.              *)
THEOREM SubscriberHasAllHolds == Spec => []SubscriberHasAll
<1>1. IInv => SubscriberHasAll
  BY DEF IInv
<1> QED
  BY <1>1, Inductive, PTL

(* No end of a connection leaves a client with neither a connection nor    *)
(* a timer before it has used up its attempts.                             *)
THEOREM KeepsTryingHolds == Spec => []KeepsTrying
BY Inductive, PTL
=============================================================================
