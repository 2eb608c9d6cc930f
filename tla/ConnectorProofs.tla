--------------------------- MODULE ConnectorProofs ---------------------------
(***************************************************************************)
(* The connector replies exactly once to each request, and the registry    *)
(* holds no client that nobody knows, for any number of peers, sockets and *)
(* clients.                                                                *)
(***************************************************************************)
EXTENDS Connector, TLAPS

\* The state of the socket follows the thread: it has to send while a request is
\* handled, and may receive when it polls.
Phases ==
  /\ pc = "poll" => socketState = "WAITING_RECV"
  /\ pc \in {"handle", "call"} => socketState = "WAITING_SEND"
  /\ pc = "ended" => socketState = "WAITING_RECV"

\* What is on its way belongs to a socket the peer has opened by now, and a reply
\* to the one it uses.
SocketsExist ==
  /\ \A r \in inbox \cup current : r.socket[2] <= attempt[r.socket[1]]
  /\ \A m \in wire : m.socket = SocketOf(m.socket[1])
  /\ \A c \in ClientId : made[c] # NoSocket => made[c][2] <= attempt[made[c][1]]

\* A socket has at most one request or reply on its way or being served.
OneExchange ==
  /\ \A r, s \in inbox : r.socket = s.socket => r = s
  /\ \A m, n \in wire : m.socket = n.socket => m = n
  /\ \A r \in inbox, m \in wire : r.socket # m.socket
  /\ socketState = "WAITING_SEND" =>
       \A r \in current : \A x \in inbox \cup wire : x.socket # r.socket

\* A peer that does not wait has nothing on its way.
OnlyWaiting ==
  \A p \in Peer \ waiting :
    /\ \A x \in inbox \cup wire : x.socket # SocketOf(p)
    /\ socketState = "WAITING_SEND" => \A r \in current : r.socket # SocketOf(p)

ConnectorInv ==
  /\ ConnectorTypeOK
  /\ Phases
  /\ SocketsExist
  /\ OneExchange
  /\ OnlyWaiting

LEMMA InitInv == ConnectorInit => ConnectorInv
<1>1. ASSUME ConnectorInit PROVE ConnectorTypeOK
  <2>1. attempt \in [Peer -> 1..MaxAttempts]
    BY <1>1, ConnectorAssumption DEF ConnectorInit
  <2>2. made \in [ClientId -> Socket \cup {NoSocket}] /\ knows \in [Peer -> SUBSET ClientId]
    BY <1>1 DEF ConnectorInit
  <2>. QED
    BY <1>1, <2>1, <2>2 DEF ConnectorInit, ConnectorTypeOK
<1>2. ASSUME ConnectorInit PROVE Phases /\ SocketsExist /\ OneExchange /\ OnlyWaiting
  BY <1>2 DEF ConnectorInit, Phases, SocketsExist, OneExchange, OnlyWaiting
<1>. QED
  BY <1>1, <1>2 DEF ConnectorInv

LEMMA OwnReplyType ==
  ASSUME NEW i PROVE OwnReply(i) \in Text /\ OwnReply(i) # "connected"
BY DEF OwnReply, Text

\* One reply is sent, to the socket of the request in hand.
LEMMA SendKeepsInv ==
  ASSUME ConnectorInv, NEW r \in current, socketState = "WAITING_SEND",
         NEW text \in Text, NEW id \in ClientId \cup {NoClient},
         text = "connected" <=> id # NoClient,
         SendMessage(r, text, id),
         UNCHANGED <<inbox, peerVars>>,
         current' \in {{}, current}
  PROVE  /\ socketState' = "WAITING_RECV"
         /\ wire' \subseteq ReplyMessage
         /\ \A m \in wire' : m.socket = SocketOf(m.socket[1])'
         /\ OneExchange'
         /\ OnlyWaiting'
<1>1. r \in Request /\ r.socket \in Socket
  BY DEF ConnectorInv, ConnectorTypeOK, Request
<1>2. \A p \in Peer : SocketOf(p)' = SocketOf(p)
  BY DEF SocketOf, peerVars
<1>. DEFINE m0 == [socket |-> r.socket, text |-> text, id |-> id]
<1>3. m0 \in ReplyMessage /\ m0.socket = r.socket
  BY <1>1 DEF ReplyMessage
<1>4. wire' = wire \/ (wire' = wire \cup {m0} /\ r.socket = SocketOf(r.socket[1]))
  BY DEF SendMessage
<1>. HIDE DEF m0
<1>5. socketState' = "WAITING_RECV"
  BY DEF SendMessage
<1>6. wire' \subseteq ReplyMessage
  BY <1>3, <1>4 DEF ConnectorInv, ConnectorTypeOK
<1>7. \A m \in wire' : m.socket[1] \in Peer
  BY <1>6 DEF ReplyMessage, Socket
<1>8. \A m \in wire' : m.socket = SocketOf(m.socket[1])'
  BY <1>2, <1>3, <1>4, <1>7 DEF ConnectorInv, SocketsExist
<1>9. OneExchange'
  BY <1>3, <1>4, <1>5 DEF ConnectorInv, OneExchange
<1>10. OnlyWaiting'
  <2>1. \A p \in Peer \ waiting : r.socket # SocketOf(p)
    BY DEF ConnectorInv, OnlyWaiting
  <2>2. waiting' = waiting /\ inbox' = inbox
    BY DEF peerVars
  <2>3. \A p \in Peer \ waiting : \A x \in inbox' \cup wire' : x.socket # SocketOf(p)
    BY <1>3, <1>4, <2>1, <2>2 DEF ConnectorInv, OnlyWaiting
  <2>. QED
    BY <1>2, <1>5, <2>2, <2>3 DEF OnlyWaiting
<1>. QED
  BY <1>5, <1>6, <1>8, <1>9, <1>10

\* The other variables, in a step that sends a reply.
LEMMA SendStep ==
  ASSUME ConnectorInv, NEW r \in current, socketState = "WAITING_SEND",
         NEW text \in Text, NEW id \in ClientId \cup {NoClient},
         text = "connected" <=> id # NoClient,
         SendMessage(r, text, id),
         UNCHANGED <<inbox, peerVars, hooks, bus>>,
         \/ current' = current /\ pc' = "end"
         \/ current' = {} /\ pc' = "poll",
         registered' \subseteq ClientId,
         made' \in [ClientId -> Socket \cup {NoSocket}],
         \A c \in ClientId : made'[c] \in {made[c], r.socket}
  PROVE  ConnectorInv'
<1>1. /\ socketState' = "WAITING_RECV"
      /\ wire' \subseteq ReplyMessage
      /\ \A m \in wire' : m.socket = SocketOf(m.socket[1])'
      /\ OneExchange'
      /\ OnlyWaiting'
  BY SendKeepsInv
<1>2. ConnectorTypeOK'
  BY <1>1 DEF ConnectorInv, ConnectorTypeOK, peerVars
<1>3. Phases'
  BY <1>1 DEF Phases
<1>4. SocketsExist'
  BY <1>1 DEF ConnectorInv, SocketsExist, peerVars
<1>. QED
  BY <1>1, <1>2, <1>3, <1>4 DEF ConnectorInv

LEMMA ReceiveStep ==
  ASSUME ConnectorInv, NEW r \in inbox, Receive(r)
  PROVE  ConnectorInv'
<1>1. \A p : SocketOf(p)' = SocketOf(p)
  BY DEF Receive, SocketOf, peerVars
<1>2. ConnectorTypeOK'
  BY DEF Receive, peerVars, registryVars, ConnectorInv, ConnectorTypeOK
<1>3. Phases' /\ SocketsExist'
  BY <1>1 DEF Receive, peerVars, registryVars, ConnectorInv, Phases, SocketsExist
<1>4. OneExchange' /\ OnlyWaiting'
  BY <1>1 DEF Receive, peerVars, ConnectorInv, OneExchange, OnlyWaiting
<1>. QED
  BY <1>2, <1>3, <1>4 DEF ConnectorInv

LEMMA ServingStep ==
  ASSUME ConnectorInv, Serving
  PROVE  ConnectorInv'
<1>. USE DEF registryVars, Text
<1>0. ConnectorTypeOK /\ Phases
  BY DEF ConnectorInv
<1>1. ASSUME NEW r \in current, Answer(r) PROVE ConnectorInv'
  BY <1>0, <1>1, OwnReplyType, SendStep DEF Answer, Phases, ConnectorTypeOK
<1>2. ASSUME NEW r \in current, LeaveUnanswered(r) \/ Throw(r) PROVE ConnectorInv'
  <2>1. \A p : SocketOf(p)' = SocketOf(p)
    BY <1>2 DEF LeaveUnanswered, Throw, SocketOf, peerVars
  <2>2. ConnectorTypeOK' /\ Phases'
    BY <1>0, <1>2 DEF LeaveUnanswered, Throw, peerVars, Phases, ConnectorTypeOK
  <2>3. SocketsExist' /\ OneExchange' /\ OnlyWaiting'
    BY <1>2, <2>1 DEF LeaveUnanswered, Throw, peerVars, ConnectorInv, SocketsExist,
                      OneExchange, OnlyWaiting
  <2>. QED
    BY <2>2, <2>3 DEF ConnectorInv
<1>3. ASSUME NEW r \in current, TestFunction(r) PROVE ConnectorInv'
  <2>1. CASE pc' = "end"
    <3>1. SendMessage(r, "error", NoClient)
      BY <1>3, <2>1 DEF TestFunction
    <3>. QED
      BY <1>0, <1>3, <2>1, <3>1, SendStep DEF TestFunction, Phases, ConnectorTypeOK
  <2>2. CASE pc' = "call" /\ UNCHANGED <<socketState, wire>>
    <3>1. \A p : SocketOf(p)' = SocketOf(p)
      BY <1>3 DEF TestFunction, SocketOf, peerVars
    <3>2. ConnectorTypeOK' /\ Phases'
      BY <1>0, <1>3, <2>2 DEF TestFunction, peerVars, Phases, ConnectorTypeOK
    <3>3. SocketsExist' /\ OneExchange' /\ OnlyWaiting'
      BY <1>3, <2>2, <3>1 DEF TestFunction, peerVars, ConnectorInv, SocketsExist,
                              OneExchange, OnlyWaiting
    <3>. QED
      BY <3>2, <3>3 DEF ConnectorInv
  <2>. QED
    BY <1>3, <2>1, <2>2 DEF TestFunction
<1>4. ASSUME NEW r \in current, Connect(r) PROVE ConnectorInv'
  <2>1. r.socket \in Socket
    BY <1>0 DEF ConnectorTypeOK, Request
  <2>2. ASSUME NEW c \in Fresh, registered' = registered \cup {c},
               made' = [made EXCEPT ![c] = r.socket], SendMessage(r, "connected", c)
        PROVE  ConnectorInv'
    BY <1>0, <1>4, <2>1, <2>2, ConnectorAssumption, SendStep DEF Connect, Fresh, Phases, ConnectorTypeOK
  <2>3. ASSUME UNCHANGED registryVars, SendMessage(r, "error", NoClient)
        PROVE  ConnectorInv'
    BY <1>0, <1>4, <2>3, SendStep DEF Connect, Phases, ConnectorTypeOK
  <2>. QED
    BY <1>4, <2>2, <2>3 DEF Connect
<1>5. ASSUME NEW r \in current, Disconnect(r) PROVE ConnectorInv'
  BY <1>0, <1>5, SendStep DEF Disconnect, Phases, ConnectorTypeOK
<1>6. ASSUME EndTurn PROVE ConnectorInv'
  <2>1. ASSUME socketState = "WAITING_SEND", NEW r \in current, SendMessage(r, "", NoClient)
        PROVE  ConnectorInv'
    BY <1>0, <1>6, <2>1, SendStep DEF EndTurn, ConnectorTypeOK
  <2>2. CASE socketState = "WAITING_RECV" /\ UNCHANGED <<socketState, wire>>
    <3>1. \A p : SocketOf(p)' = SocketOf(p)
      BY <1>6 DEF EndTurn, SocketOf, peerVars
    <3>2. ConnectorTypeOK' /\ Phases'
      BY <1>0, <1>6, <2>2 DEF EndTurn, peerVars, Phases, ConnectorTypeOK
    <3>3. SocketsExist' /\ OneExchange' /\ OnlyWaiting'
      BY <1>6, <2>2, <3>1 DEF EndTurn, peerVars, ConnectorInv, SocketsExist, OneExchange,
                              OnlyWaiting
    <3>. QED
      BY <3>2, <3>3 DEF ConnectorInv
  <2>. QED
    BY <1>6, <2>1, <2>2 DEF EndTurn
<1>7. ASSUME Shutdown PROVE ConnectorInv'
  <2>1. \A p : SocketOf(p)' = SocketOf(p)
    BY <1>7 DEF Shutdown, SocketOf, peerVars
  <2>2. ConnectorTypeOK' /\ Phases'
    BY <1>0, <1>7 DEF Shutdown, peerVars, Phases, ConnectorTypeOK
  <2>3. SocketsExist' /\ OneExchange' /\ OnlyWaiting'
    BY <1>7, <2>1 DEF Shutdown, peerVars, ConnectorInv, SocketsExist, OneExchange, OnlyWaiting
  <2>. QED
    BY <2>2, <2>3 DEF ConnectorInv
<1>. QED
  BY <1>1, <1>2, <1>3, <1>4, <1>5, <1>6, <1>7 DEF Serving

LEMMA PeerStep ==
  ASSUME ConnectorInv, NEW p \in Peer,
         (\E i \in Asked[p] : Send(p, i)) \/ TakeReply(p) \/ GiveUp(p)
  PROVE  ConnectorInv'
<1>. USE DEF registryVars, threadVars
<1>0. ConnectorTypeOK /\ SocketsExist /\ OneExchange /\ OnlyWaiting
  BY DEF ConnectorInv
<1>1. ASSUME NEW i \in Asked[p], Send(p, i) PROVE ConnectorInv'
  <2>. DEFINE r0 == [socket |-> SocketOf(p), instruction |-> i]
  <2>1. SocketOf(p) \in Socket /\ SocketOf(p)[1] = p /\ SocketOf(p)[2] = attempt[p]
    BY <1>0 DEF ConnectorTypeOK, SocketOf, Socket
  <2>2. r0 \in Request /\ r0.socket = SocketOf(p)
    BY <2>1, ConnectorAssumption DEF Request
  <2>3. inbox' = inbox \cup {r0}
    BY <1>1 DEF Send
  <2>. HIDE DEF r0
  <2>4. \A q : SocketOf(q)' = SocketOf(q)
    BY <1>1 DEF Send, SocketOf
  <2>5. ConnectorTypeOK' /\ Phases'
    BY <1>0, <1>1, <2>2, <2>3 DEF Send, ConnectorInv, ConnectorTypeOK, Phases
  <2>6. SocketsExist'
    <3>1. attempt[p] \in Nat
      BY <1>0, ConnectorAssumption DEF ConnectorTypeOK
    <3>. QED
      BY <1>0, <1>1, <2>1, <2>2, <2>3, <2>4, <3>1 DEF Send, SocketsExist
  <2>7. OneExchange'
    BY <1>0, <1>1, <2>2, <2>3 DEF Send, OneExchange, OnlyWaiting
  <2>8. OnlyWaiting'
    <3>1. \A q \in Peer : q # p => SocketOf(q) # SocketOf(p)
      BY DEF SocketOf
    <3>. QED
      BY <1>0, <1>1, <2>2, <2>3, <2>4, <3>1 DEF Send, OnlyWaiting
  <2>. QED
    BY <2>5, <2>6, <2>7, <2>8 DEF ConnectorInv
<1>2. ASSUME TakeReply(p) PROVE ConnectorInv'
  <2>1. PICK m \in wire : /\ m.socket = SocketOf(p)
                          /\ wire' = wire \ {m}
    BY <1>2 DEF TakeReply
  <2>2. \A q : SocketOf(q)' = SocketOf(q)
    BY <1>2 DEF TakeReply, SocketOf
  <2>3. knows' \in [Peer -> SUBSET ClientId]
    <3>1. \A n \in wire : n.text = "connected" => n.id \in ClientId
      BY <1>0 DEF ConnectorTypeOK, ReplyMessage
    <3>. QED
      BY <1>0, <1>2, <3>1 DEF TakeReply, ConnectorTypeOK
  <2>4. ConnectorTypeOK' /\ Phases' /\ SocketsExist'
    BY <1>0, <1>2, <2>1, <2>2, <2>3 DEF TakeReply, ConnectorInv, ConnectorTypeOK, Phases,
                                        SocketsExist
  <2>5. OneExchange' /\ OnlyWaiting'
    BY <1>0, <1>2, <2>1, <2>2 DEF TakeReply, OneExchange, OnlyWaiting
  <2>. QED
    BY <2>4, <2>5 DEF ConnectorInv
<1>3. ASSUME GiveUp(p) PROVE ConnectorInv'
  <2>0. attempt \in [Peer -> 1..MaxAttempts] /\ MaxAttempts \in Nat
    BY <1>0, ConnectorAssumption DEF ConnectorTypeOK
  <2>1. \A q \in Peer : attempt'[q] = IF q = p THEN attempt[q] + 1 ELSE attempt[q]
    BY <1>3, <2>0 DEF GiveUp
  <2>2. ConnectorTypeOK' /\ Phases'
    BY <1>0, <1>3, <2>0 DEF GiveUp, ConnectorInv, ConnectorTypeOK, Phases
  <2>3. \A x \in inbox \cup current \cup wire : x.socket \in Socket
    BY <1>0 DEF ConnectorTypeOK, Request, ReplyMessage
  <2>4. SocketsExist'
    <3>1. \A m \in wire' : m.socket[1] \in Peer /\ m.socket[1] # p
      BY <1>0, <1>3, <2>3 DEF GiveUp, SocketsExist, Socket
    <3>2. \A q \in Peer : q # p => SocketOf(q)' = SocketOf(q)
      BY <2>1 DEF SocketOf
    <3>3. \A m \in wire' : m.socket = SocketOf(m.socket[1])'
      BY <1>0, <1>3, <3>1, <3>2 DEF GiveUp, SocketsExist
    <3>4. \A s \in Socket : s[2] <= attempt[s[1]] => s[2] <= attempt'[s[1]]
      BY <2>0, <2>1 DEF Socket
    <3>5. \A r \in inbox' \cup current' : r.socket[2] <= attempt'[r.socket[1]]
      BY <1>0, <1>3, <2>3, <3>4 DEF GiveUp, SocketsExist
    <3>6. \A c \in ClientId : made'[c] # NoSocket => made'[c][2] <= attempt'[made'[c][1]]
      BY <1>0, <1>3, <3>4 DEF GiveUp, SocketsExist, ConnectorTypeOK
    <3>. QED
      BY <3>3, <3>5, <3>6 DEF SocketsExist
  <2>5. OneExchange'
    BY <1>0, <1>3 DEF GiveUp, OneExchange
  <2>6. OnlyWaiting'
    <3>1. \A x \in inbox \cup current \cup wire : x.socket # SocketOf(p)'
      <4>1. SocketOf(p)'[1] = p /\ SocketOf(p)'[2] = attempt[p] + 1
        BY <2>1 DEF SocketOf
      <4>2. \A x \in inbox \cup current : x.socket # SocketOf(p)'
        BY <1>0, <2>0, <2>3, <4>1 DEF SocketsExist, Socket
      <4>3. \A x \in wire : x.socket # SocketOf(p)'
        <5>1. \A x \in wire : x.socket[1] = p => x.socket[2] = attempt[p]
          BY <1>0 DEF SocketsExist, SocketOf
        <5>. QED
          BY <2>0, <4>1, <5>1
      <4>. QED
        BY <4>2, <4>3
    <3>2. \A q \in Peer : q # p => SocketOf(q)' = SocketOf(q)
      BY <2>1 DEF SocketOf
    <3>. QED
      BY <1>0, <1>3, <3>1, <3>2 DEF GiveUp, OnlyWaiting
  <2>. QED
    BY <2>2, <2>4, <2>5, <2>6 DEF ConnectorInv
<1>. QED
  BY <1>1, <1>2, <1>3

\* The controller's steps touch neither the thread nor what is on its way.
LEMMA ControllerStep ==
  ASSUME ConnectorInv, Drop \/ ClearFunctions \/ PublishShutdown
  PROVE  ConnectorInv'
<1>1. \A p : SocketOf(p)' = SocketOf(p)
  BY DEF Drop, ClearFunctions, PublishShutdown, SocketOf, peerVars
<1>2. ConnectorTypeOK' /\ Phases'
  BY DEF Drop, ClearFunctions, PublishShutdown, threadVars, peerVars, registryVars, ConnectorInv,
         ConnectorTypeOK, Phases
<1>3. SocketsExist' /\ OneExchange' /\ OnlyWaiting'
  BY <1>1 DEF Drop, ClearFunctions, PublishShutdown, threadVars, peerVars, registryVars,
              ConnectorInv, SocketsExist, OneExchange, OnlyWaiting
<1>. QED
  BY <1>2, <1>3 DEF ConnectorInv

LEMMA StutterStep ==
  ASSUME ConnectorInv, UNCHANGED connectorVars
  PROVE  ConnectorInv'
<1>. USE DEF connectorVars, threadVars, peerVars, registryVars
<1>1. \A p : SocketOf(p)' = SocketOf(p)
  BY DEF SocketOf
<1>2. ConnectorTypeOK' /\ Phases'
  BY DEF ConnectorInv, ConnectorTypeOK, Phases
<1>3. SocketsExist' /\ OneExchange' /\ OnlyWaiting'
  BY <1>1 DEF ConnectorInv, SocketsExist, OneExchange, OnlyWaiting
<1>. QED
  BY <1>2, <1>3 DEF ConnectorInv

LEMMA NextInv == ConnectorInv /\ [ConnectorNext]_connectorVars => ConnectorInv'
BY ReceiveStep, ServingStep, PeerStep, ControllerStep, StutterStep DEF ConnectorNext

\* The invariant of the connector holds in every state.
THEOREM ConnectorCorrect == ConnectorSpec => []ConnectorInv
BY InitInv, NextInv, PTL DEF ConnectorSpec

\* Every variable of the connector stays in its range, and a request is in hand
\* exactly while it is served.
THEOREM ConnectorTypes == ConnectorSpec => []ConnectorTypeOK
<1>1. ConnectorInv => ConnectorTypeOK
  BY DEF ConnectorInv
<1>. QED
  BY <1>1, ConnectorCorrect, PTL

-----------------------------------------------------------------------------
(* The refinement *)

Asking  == {r.socket : r \in inbox}
Served  == IF socketState = "WAITING_SEND" THEN {r.socket : r \in current} ELSE {}
Replied == {m.socket : m \in wire}

\* The reply to the request in hand, in the abstract exchange.
LEMMA SendIsReply ==
  ASSUME ConnectorInv, NEW r \in current, socketState = "WAITING_SEND",
         NEW text, NEW id, SendMessage(r, text, id), UNCHANGED inbox
  PROVE  Exchange!Reply(r.socket)
<1>1. Served = {r.socket}
  BY DEF Served, ConnectorInv, ConnectorTypeOK
<1>2. Served' = {}
  BY DEF SendMessage, Served
<1>3. Replied' \in {Replied, Replied \cup {r.socket}}
  BY DEF SendMessage, Replied
<1>4. Asking' = Asking
  BY DEF Asking
<1>. QED
  BY <1>1, <1>2, <1>3, <1>4 DEF Exchange!Reply, Served, Replied, Asking

LEMMA ExchangeStutter ==
  ASSUME UNCHANGED <<inbox, wire>>, Served' = Served
  PROVE  UNCHANGED Exchange!exchangeVars
BY DEF Exchange!exchangeVars, Served

LEMMA ExchangeStep ==
  ASSUME ConnectorInv, [ConnectorNext]_connectorVars
  PROVE  [Exchange!ExchangeNext]_(Exchange!exchangeVars)
<1>. USE DEF threadVars, peerVars, registryVars
<1>0. ConnectorTypeOK /\ Phases /\ OneExchange /\ OnlyWaiting
  BY DEF ConnectorInv
<1>s. \A x \in inbox \cup current \cup wire : x.socket \in Socket
  BY <1>0 DEF ConnectorTypeOK, Request, ReplyMessage
<1>r. ASSUME NEW r \in current, socketState = "WAITING_SEND", NEW text, NEW id,
             SendMessage(r, text, id), UNCHANGED inbox
      PROVE  Exchange!ExchangeNext
  BY <1>r, <1>s, SendIsReply DEF Exchange!ExchangeNext
<1>1. ASSUME NEW r \in inbox, Receive(r) PROVE Exchange!ExchangeNext
  <2>1. Served = {} /\ Served' = {r.socket}
    BY <1>0, <1>1 DEF Receive, Phases, Served
  <2>2. Asking' = Asking \ {r.socket} /\ r.socket \in Asking
    BY <1>0, <1>1 DEF Receive, Asking, OneExchange
  <2>3. Replied' = Replied
    BY <1>1 DEF Receive, Replied
  <2>4. Exchange!Serve(r.socket)
    BY <2>1, <2>2, <2>3 DEF Exchange!Serve, Served, Asking, Replied
  <2>. QED
    BY <1>s, <2>4 DEF Exchange!ExchangeNext
<1>2. ASSUME NEW r \in current, Answer(r) \/ Disconnect(r) PROVE Exchange!ExchangeNext
  BY <1>0, <1>2, <1>r DEF Answer, Disconnect, Phases
<1>3. ASSUME NEW r \in current, LeaveUnanswered(r) \/ Throw(r)
      PROVE  UNCHANGED Exchange!exchangeVars
  BY <1>3, ExchangeStutter DEF LeaveUnanswered, Throw, Served
<1>4. ASSUME NEW r \in current, TestFunction(r)
      PROVE  [Exchange!ExchangeNext]_(Exchange!exchangeVars)
  <2>1. CASE UNCHANGED <<socketState, wire>>
    BY <1>4, <2>1, ExchangeStutter DEF TestFunction, Served
  <2>2. CASE SendMessage(r, "error", NoClient)
    BY <1>0, <1>4, <2>2, <1>r DEF TestFunction, Phases
  <2>. QED
    BY <1>4, <2>1, <2>2 DEF TestFunction
<1>5. ASSUME NEW r \in current, Connect(r) PROVE Exchange!ExchangeNext
  <2>1. UNCHANGED inbox /\ socketState = "WAITING_SEND"
    BY <1>0, <1>5 DEF Connect, Phases
  <2>2. PICK text, id : SendMessage(r, text, id)
    BY <1>5 DEF Connect
  <2>. QED
    BY <1>r, <2>1, <2>2
<1>6. ASSUME EndTurn PROVE [Exchange!ExchangeNext]_(Exchange!exchangeVars)
  <2>1. CASE socketState = "WAITING_SEND"
    BY <1>6, <2>1, <1>r DEF EndTurn
  <2>2. CASE socketState = "WAITING_RECV" /\ UNCHANGED <<socketState, wire>>
    BY <1>6, <2>2, ExchangeStutter DEF EndTurn, Served
  <2>. QED
    BY <1>6, <2>1, <2>2 DEF EndTurn
<1>7. ASSUME Shutdown \/ Drop \/ ClearFunctions \/ PublishShutdown
      PROVE  UNCHANGED Exchange!exchangeVars
  BY <1>7, ExchangeStutter DEF Shutdown, Drop, ClearFunctions, PublishShutdown, Served
<1>8. ASSUME NEW p \in Peer, NEW i \in Asked[p], Send(p, i) PROVE Exchange!ExchangeNext
  <2>0. PICK r0 : r0.socket = SocketOf(p) /\ inbox' = inbox \cup {r0}
    BY <1>8 DEF Send
  <2>1. Asking' = Asking \cup {SocketOf(p)}
    BY <2>0 DEF Asking
  <2>2. SocketOf(p) \notin Asking \cup Served \cup Replied
    BY <1>0, <1>8 DEF Send, OnlyWaiting, Asking, Served, Replied
  <2>3. Served' = Served /\ Replied' = Replied
    BY <1>8 DEF Send, Served, Replied
  <2>4. PICK s \in Socket : s = SocketOf(p)
    BY <1>0 DEF ConnectorTypeOK, SocketOf, Socket
  <2>5. Exchange!Ask(s)
    BY <2>1, <2>2, <2>3, <2>4 DEF Exchange!Ask, Asking, Served, Replied
  <2>. QED
    BY <2>5 DEF Exchange!ExchangeNext
<1>9. ASSUME NEW p \in Peer, TakeReply(p) PROVE Exchange!ExchangeNext
  <2>1. PICK m \in wire : m.socket = SocketOf(p) /\ wire' = wire \ {m}
    BY <1>9 DEF TakeReply
  <2>2. Replied' = Replied \ {m.socket} /\ m.socket \in Replied
    BY <1>0, <2>1 DEF Replied, OneExchange
  <2>3. Served' = Served /\ Asking' = Asking
    BY <1>9 DEF TakeReply, Served, Asking
  <2>4. Exchange!TakeReply(m.socket)
    BY <2>2, <2>3 DEF Exchange!TakeReply, Asking, Served, Replied
  <2>. QED
    BY <1>s, <2>4 DEF Exchange!ExchangeNext
<1>10. ASSUME NEW p \in Peer, GiveUp(p)
       PROVE  [Exchange!ExchangeNext]_(Exchange!exchangeVars)
  <2>1. Replied' = Replied \ {SocketOf(p)}
    BY <1>10 DEF GiveUp, Replied
  <2>2. Served' = Served /\ Asking' = Asking
    BY <1>10 DEF GiveUp, Served, Asking
  <2>3. CASE SocketOf(p) \in Replied
    <3>1. PICK s \in Socket : s = SocketOf(p)
      BY <1>0 DEF ConnectorTypeOK, SocketOf, Socket
    <3>2. Exchange!TakeReply(s)
      BY <2>1, <2>2, <2>3, <3>1 DEF Exchange!TakeReply, Asking, Served, Replied
    <3>. QED
      BY <3>2 DEF Exchange!ExchangeNext
  <2>4. CASE SocketOf(p) \notin Replied
    BY <2>1, <2>2, <2>4 DEF Exchange!exchangeVars, Asking, Served, Replied
  <2>. QED
    BY <2>3, <2>4
<1>11. ASSUME UNCHANGED connectorVars PROVE UNCHANGED Exchange!exchangeVars
  BY <1>11 DEF connectorVars, Exchange!exchangeVars
<1>. QED
  BY <1>1, <1>2, <1>3, <1>4, <1>5, <1>6, <1>7, <1>8, <1>9, <1>10, <1>11
     DEF ConnectorNext, Serving

\* Each request is replied to exactly once, on the socket it came from and before
\* another is received, whichever branch of mainLoop handles it.
THEOREM ConnectorRefinesExchange == ConnectorSpec => ImplementsExchange
<1>1. ConnectorInit => Exchange!ExchangeInit
  BY DEF ConnectorInit, Exchange!ExchangeInit
<1>. QED
  BY <1>1, ExchangeStep, ConnectorCorrect, PTL
     DEF ConnectorSpec, ImplementsExchange, Exchange!ExchangeSpec

-----------------------------------------------------------------------------
(* The clients of the registry *)

\* A step that takes no reply and opens no socket leaves a known client known.
LEMMA StaysKnown ==
  ASSUME NEW c, Known(c), made'[c] = made[c], UNCHANGED peerVars, wire \subseteq wire'
  PROVE  Known(c)'
<1>1. \A p : SocketOf(p)' = SocketOf(p) /\ knows'[p] = knows[p]
  BY DEF SocketOf, peerVars
<1>. QED
  BY <1>1 DEF Known

LEMMA KnownStep ==
  ASSUME ConnectorInv, ClientsAreKnown, [ConnectorNext]_connectorVars
  PROVE  ClientsAreKnown'
<1>. SUFFICES ASSUME NEW c \in registered'
              PROVE  Known(c)'
  BY DEF ClientsAreKnown
<1>. USE DEF registryVars, threadVars
<1>0. ConnectorTypeOK /\ SocketsExist /\ OneExchange
  BY DEF ConnectorInv
<1>1. ASSUME NEW r \in current, NEW text, NEW id, SendMessage(r, text, id)
      PROVE  wire \subseteq wire'
  BY <1>1 DEF SendMessage
<1>2. CASE \/ \E r \in inbox : Receive(r)
           \/ Shutdown \/ Drop \/ ClearFunctions \/ PublishShutdown \/ EndTurn
           \/ \E p \in Peer : \E i \in Asked[p] : Send(p, i)
           \/ UNCHANGED connectorVars
  <2>1. wire \subseteq wire'
    BY <1>1, <1>2 DEF Receive, Shutdown, Drop, ClearFunctions, PublishShutdown, EndTurn, Send,
                      connectorVars
  <2>2. c \in registered /\ made' = made /\ UNCHANGED <<attempt, knows>>
    BY <1>2 DEF Receive, Shutdown, Drop, ClearFunctions, PublishShutdown, EndTurn, Send,
                connectorVars, peerVars
  <2>3. Known(c)
    BY <2>2 DEF ClientsAreKnown
  <2>4. \A p : SocketOf(p)' = SocketOf(p)
    BY <2>2 DEF SocketOf
  <2>. QED
    BY <2>1, <2>2, <2>3, <2>4 DEF Known
<1>3. ASSUME NEW r \in current,
             Answer(r) \/ LeaveUnanswered(r) \/ TestFunction(r) \/ Disconnect(r) \/ Throw(r)
      PROVE  Known(c)'
  <2>1. wire \subseteq wire'
    BY <1>1, <1>3 DEF Answer, LeaveUnanswered, TestFunction, Disconnect, Throw
  <2>2. c \in registered /\ made' = made /\ UNCHANGED peerVars
    BY <1>3 DEF Answer, LeaveUnanswered, TestFunction, Disconnect, Throw
  <2>. QED
    BY <2>1, <2>2, StaysKnown DEF ClientsAreKnown
<1>4. ASSUME NEW r \in current, Connect(r) PROVE Known(c)'
  <2>1. wire \subseteq wire' /\ UNCHANGED peerVars
    BY <1>1, <1>4 DEF Connect
  <2>2. CASE c \in registered /\ made'[c] = made[c]
    BY <2>1, <2>2, StaysKnown DEF ClientsAreKnown
  <2>3. ASSUME made' = [made EXCEPT ![c] = r.socket], SendMessage(r, "connected", c),
               c \in ClientId
        PROVE  Known(c)'
    <3>1. made'[c] = r.socket
      BY <1>0, <2>3 DEF ConnectorTypeOK
    <3>2. \A p : SocketOf(p)' = SocketOf(p)
      BY <2>1 DEF SocketOf, peerVars
    <3>3. CASE SocketOf(r.socket[1]) = r.socket
      <4>. DEFINE m0 == [socket |-> r.socket, text |-> "connected", id |-> c]
      <4>1. m0 \in wire'
        BY <2>3, <3>3 DEF SendMessage
      <4>2. m0.socket = made'[c] /\ m0.text = "connected" /\ m0.id = c
        BY <3>1
      <4>. HIDE DEF m0
      <4>. QED
        BY <4>1, <4>2 DEF Known
    <3>4. CASE SocketOf(r.socket[1]) # r.socket
      BY <3>1, <3>2, <3>4 DEF Known
    <3>. QED
      BY <3>3, <3>4
  <2>4. CASE UNCHANGED registryVars
    BY <2>2, <2>4
  <2>5. ASSUME NEW d \in Fresh, registered' = registered \cup {d},
               made' = [made EXCEPT ![d] = r.socket], SendMessage(r, "connected", d)
        PROVE  Known(c)'
    <3>1. d \in ClientId
      BY DEF Fresh
    <3>2. CASE c = d
      BY <2>3, <2>5, <3>1, <3>2
    <3>3. CASE c # d
      <4>1. c \in registered /\ c \in ClientId
        BY <1>0, <2>5, <3>3 DEF ConnectorTypeOK
      <4>2. made'[c] = made[c]
        BY <1>0, <2>5, <3>3, <4>1 DEF ConnectorTypeOK
      <4>. QED
        BY <2>2, <4>1, <4>2
    <3>. QED
      BY <3>2, <3>3
  <2>. QED
    BY <1>4, <2>4, <2>5 DEF Connect
<1>5. ASSUME NEW p \in Peer, TakeReply(p) PROVE Known(c)'
  <2>1. c \in registered /\ c \in ClientId /\ made' = made /\ attempt' = attempt
    BY <1>0, <1>5 DEF TakeReply, ConnectorTypeOK
  <2>2. Known(c)
    BY <2>1 DEF ClientsAreKnown
  <2>3. PICK m \in wire : /\ m.socket = SocketOf(p)
                          /\ wire' = wire \ {m}
                          /\ knows' = [knows EXCEPT ![p] =
                                         IF m.text = "connected" THEN @ \cup {m.id} ELSE @]
    BY <1>5 DEF TakeReply
  <2>4. \A q : SocketOf(q)' = SocketOf(q)
    BY <2>1 DEF SocketOf
  <2>5. \A q \in Peer : knows[q] \subseteq knows'[q]
    BY <1>0, <2>3 DEF ConnectorTypeOK
  <2>6. CASE c \in knows[made[c][1]]
    <3>1. CASE made[c] = NoSocket
      <4>1. \A q \in Peer : SocketOf(q) # NoSocket
        BY DEF SocketOf, NoSocket
      <4>. QED
        BY <2>1, <2>4, <3>1 DEF Known, SocketOf, NoSocket
    <3>2. CASE made[c] \in Socket
      BY <2>1, <2>5, <2>6, <3>2 DEF Known, Socket
    <3>. QED
      BY <1>0, <2>1, <3>1, <3>2 DEF ConnectorTypeOK
  <2>7. ASSUME NEW n \in wire, n.socket = made[c], n.text = "connected", n.id = c
        PROVE  Known(c)'
    <3>1. CASE n = m
      <4>1. made[c][1] = p
        BY <2>3, <2>7, <3>1 DEF SocketOf
      <4>2. c \in knows'[p]
        BY <1>0, <2>3, <2>7, <3>1 DEF ConnectorTypeOK
      <4>. QED
        BY <2>1, <4>1, <4>2 DEF Known
    <3>2. CASE n # m
      BY <2>1, <2>3, <2>7, <3>2 DEF Known
    <3>. QED
      BY <3>1, <3>2
  <2>8. CASE made[c] # SocketOf(made[c][1])
    BY <2>1, <2>4, <2>8 DEF Known
  <2>. QED
    BY <2>2, <2>6, <2>7, <2>8 DEF Known
<1>6. ASSUME NEW p \in Peer, GiveUp(p) PROVE Known(c)'
  <2>1. /\ c \in registered /\ c \in ClientId /\ made' = made /\ knows' = knows
        /\ wire' = {m \in wire : m.socket # SocketOf(p)}
    BY <1>0, <1>6 DEF GiveUp, ConnectorTypeOK
  <2>2. Known(c)
    BY <2>1 DEF ClientsAreKnown
  <2>3. attempt[p] \in Nat /\ attempt'[p] = attempt[p] + 1
    BY <1>0, <1>6, ConnectorAssumption DEF GiveUp, ConnectorTypeOK
  <2>4. \A q \in Peer : q # p => attempt'[q] = attempt[q]
    BY <1>0, <1>6 DEF GiveUp, ConnectorTypeOK
  <2>5. made[c] = NoSocket \/ made[c] \in Socket
    BY <1>0, <2>1 DEF ConnectorTypeOK
  <2>6. CASE made[c] = NoSocket
    BY <2>1, <2>6 DEF Known, SocketOf, NoSocket
  <2>7. CASE made[c] \in Socket
    <3>1. made[c][1] \in Peer /\ made[c] = <<made[c][1], made[c][2]>>
      BY <2>7 DEF Socket
    <3>2. CASE made[c][1] = p
      <4>1. made[c][2] <= attempt[p] /\ made[c][2] \in Nat
        BY <1>0, <2>1, <2>7, <3>2, ConnectorAssumption DEF SocketsExist, Socket, NoSocket
      <4>2. SocketOf(p)' # made[c]
        BY <2>3, <4>1, <3>1 DEF SocketOf
      <4>. QED
        BY <2>1, <3>2, <4>2 DEF Known
    <3>3. CASE made[c][1] # p
      <4>1. SocketOf(made[c][1])' = SocketOf(made[c][1])
        BY <2>1, <2>4, <3>1, <3>3 DEF SocketOf
      <4>2. made[c] # SocketOf(p)
        BY <3>1, <3>3 DEF SocketOf
      <4>. QED
        BY <2>1, <2>2, <4>1, <4>2 DEF Known
    <3>. QED
      BY <3>2, <3>3
  <2>. QED
    BY <2>5, <2>6, <2>7
<1>. QED
  BY <1>2, <1>3, <1>4, <1>5, <1>6 DEF ConnectorNext, Serving

\* The registry holds no client that nobody knows, unless the peer that asked for
\* it gave up: no reply to a connect is lost on the engine's side.
THEOREM NoClientUnknown == ConnectorSpec => []ClientsAreKnown
<1>1. ConnectorInit => ClientsAreKnown
  BY DEF ConnectorInit, ClientsAreKnown
<1>. QED
  BY <1>1, KnownStep, ConnectorCorrect, PTL DEF ConnectorSpec
=============================================================================
