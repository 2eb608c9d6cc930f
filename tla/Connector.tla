------------------------------ MODULE Connector ------------------------------
(***************************************************************************)
(* WebXClientConnector: a thread with a ZeroMQ REP socket that serves the  *)
(* commands comm, ping, connect and disconnect, one at a time, until the   *)
(* event bus brings "shutdown".                                            *)
(*                                                                         *)
(* A peer has a REQ socket; it may give up waiting, and then closes the    *)
(* socket and asks again with another.  Its request may still be served    *)
(* and the reply is lost: a connect leaves a client nobody knows in the    *)
(* registry.                                                               *)
(*                                                                         *)
(* The registry is here the set of its clients.  The functions of the      *)
(* gateway are tested and called without a lock while WebXController::stop *)
(* clears them; a call of one that was cleared in between is made all the  *)
(* same, or throws bad_function_call (or crashes the process, for which    *)
(* see Shutdown).                                                          *)
(***************************************************************************)
EXTENDS Naturals, FiniteSets

CONSTANTS
  Peer,        \* the processes that talk to the connector
  ClientId,    \* the ids that addClient may draw; none is drawn twice
  MaxClients,  \* number of bits of the index mask
  Impatient,   \* the peers that may give up waiting
  MaxAttempts, \* bound on the sockets of a peer
  NoClient,    \* stands for an id in a request or reply that has none
  Asked        \* Asked[p]: the instructions that p sends

VARIABLES
  pc,          \* where the connector thread is
  socketState, \* _socketState
  current,     \* the request being served, as a set of at most one
  inbox,       \* requests that were sent and not received
  wire,        \* replies that were sent and not taken
  attempt,     \* attempt[p]: number of the socket p uses
  waiting,     \* peers that wait for a reply
  hooks,       \* the functions of the gateway that are set
  registered,  \* ids of the clients in the registry
  bus,         \* whether "shutdown" was published on the event bus
  made,        \* history: made[c]: the socket whose request made client c
  knows        \* history: knows[p]: the clients p was told it is

threadVars   == <<pc, socketState, current>>
peerVars     == <<attempt, waiting, knows>>
registryVars == <<registered, made>>
connectorVars ==
  <<threadVars, peerVars, registryVars, inbox, wire, hooks, bus>>

Socket == Peer \X (1..MaxAttempts)
NoSocket == <<>>
SocketOf(p) == <<p, attempt[p]>>

\* What a peer may ask, told apart as far as the connector does.  "none" is a
\* command with too few elements; the version in a connect is never refused.
Session == {"none", "right", "wrong"}
Ports == [command |-> "comm", session |-> "none", id |-> NoClient]
Unknown == [command |-> "unknown", session |-> "none", id |-> NoClient]
Pings == [command : {"ping"}, session : Session, id : {NoClient}]
Connects == [command : {"connect"}, session : Session, id : {NoClient}]
\* A disconnect whose id is NoClient has one that is not a number.
Disconnects == [command : {"disconnect"}, session : Session, id : ClientId \cup {NoClient}]
Instruction == {Ports, Unknown} \cup Pings \cup Connects \cup Disconnects

ASSUME ConnectorAssumption ==
  /\ MaxClients \in Nat
  /\ MaxAttempts \in Nat \ {0}
  /\ NoClient \notin ClientId
  /\ Asked \in [Peer -> SUBSET Instruction]

Request == [socket : Socket, instruction : Instruction]
Text == {"ports", "pong", "pang", "invalid command", "session id error", "error",
         "connected", "success", ""}
ReplyMessage == {m \in [socket : Socket, text : Text, id : ClientId \cup {NoClient}] :
                   m.text = "connected" <=> m.id # NoClient}

ConnectorInit ==
  /\ pc = "poll"
  /\ socketState = "WAITING_RECV"
  /\ current = {}
  /\ inbox = {}
  /\ wire = {}
  /\ attempt = [p \in Peer |-> 1]
  /\ waiting = {}
  /\ hooks = {"connect", "disconnect"}
  /\ registered = {}
  /\ bus = FALSE
  /\ made = [c \in ClientId |-> NoSocket]
  /\ knows = [p \in Peer |-> {}]

-----------------------------------------------------------------------------
(* The connector thread *)

\* A REP socket replies to the socket it received from last; what is sent to one
\* that was closed is dropped.
SendMessage(r, text, id) ==
  /\ socketState' = "WAITING_RECV"
  /\ wire' = IF SocketOf(r.socket[1]) = r.socket
             THEN wire \cup {[socket |-> r.socket, text |-> text, id |-> id]}
             ELSE wire

\* With "shutdown" on the bus no further request is received.
Receive_NextOne(r) ==
  /\ pc = "poll" /\ r \in inbox
  /\ inbox' = inbox \ {r}
  /\ current' = {r}
  /\ pc' = "handle"
  /\ UNCHANGED <<socketState, peerVars, registryVars, wire, hooks, bus>>
Receive(r) ==
  /\ pc = "poll" /\ ~bus /\ r \in inbox
  /\ inbox' = inbox \ {r}
  /\ current' = {r}
  /\ socketState' = "WAITING_SEND"
  /\ pc' = "handle"
  /\ UNCHANGED <<peerVars, registryVars, wire, hooks, bus>>

Shutdown ==
  /\ pc = "poll" /\ bus
  /\ pc' = "ended"
  /\ UNCHANGED <<socketState, current, peerVars, registryVars, inbox, wire, hooks, bus>>

\* The commands that go to the registry.
NeedsGateway(i) ==
  /\ i.session = "right"
  /\ i.command = "connect" \/ (i.command = "disconnect" /\ i.id # NoClient)

\* What the connector answers by itself.
OwnReply(i) ==
  CASE i.command = "comm" -> "ports"
    [] i.command = "ping" -> IF i.session = "wrong" THEN "pang" ELSE "pong"
    [] i.session = "none" -> "invalid command"
    [] OTHER -> "session id error"

\* An unknown command gets no reply here, nor does an id that is not a number:
\* the message for the error HexUtils::toUint32 would return cannot be formatted,
\* and that throws.
NotAnswered(i) ==
  \/ i.command = "unknown"
  \/ i.command = "disconnect" /\ i.session = "right" /\ i.id = NoClient

Answer(r) ==
  /\ pc = "handle" /\ r \in current
  /\ ~NeedsGateway(r.instruction) /\ ~NotAnswered(r.instruction)
  /\ SendMessage(r, OwnReply(r.instruction), NoClient)
  /\ pc' = "end"
  /\ UNCHANGED <<current, peerVars, registryVars, inbox, hooks, bus>>

LeaveUnanswered(r) ==
  /\ pc = "handle" /\ r \in current
  /\ NotAnswered(r.instruction)
  /\ pc' = "end"
  /\ UNCHANGED <<socketState, current, peerVars, registryVars, inbox, wire, hooks, bus>>

\* onClientConnect and onClientDisconnect: is the function set?
TestFunction(r) ==
  /\ pc = "handle" /\ r \in current
  /\ NeedsGateway(r.instruction)
  /\ \/ /\ r.instruction.command \in hooks
        /\ pc' = "call"
        /\ UNCHANGED <<socketState, wire>>
     \/ /\ r.instruction.command \notin hooks
        /\ SendMessage(r, "error", NoClient)
        /\ pc' = "end"
  /\ UNCHANGED <<current, peerVars, registryVars, inbox, hooks, bus>>

\* WebXClientRegistry::addClient: a fresh id, or an error when no bit is free (or,
\* a bound of the model, no id).
Fresh == {c \in ClientId : made[c] = NoSocket}
Full == Cardinality(registered) >= MaxClients \/ Fresh = {}

Connect_ReplyLost(r) ==
  /\ pc = "call" /\ r \in current /\ r.instruction.command = "connect"
  /\ \E c \in Fresh :
       /\ registered' = registered \cup {c}
       /\ made' = [made EXCEPT ![c] = r.socket]
  /\ pc' = "end"
  /\ UNCHANGED <<socketState, wire, current, peerVars, inbox, hooks, bus>>
Connect(r) ==
  /\ pc = "call" /\ r \in current /\ r.instruction.command = "connect"
  /\ \/ \E c \in Fresh :
          /\ ~Full
          /\ registered' = registered \cup {c}
          /\ made' = [made EXCEPT ![c] = r.socket]
          /\ SendMessage(r, "connected", c)
     \/ /\ Full
        /\ SendMessage(r, "error", NoClient)
        /\ UNCHANGED registryVars
  /\ pc' = "end"
  /\ UNCHANGED <<current, peerVars, inbox, hooks, bus>>

\* Any peer that has the session id may name any client.
Disconnect(r) ==
  /\ pc = "call" /\ r \in current /\ r.instruction.command = "disconnect"
  /\ registered' = registered \ {r.instruction.id}
  /\ SendMessage(r, IF r.instruction.id \in registered THEN "success" ELSE "error",
                 NoClient)
  /\ pc' = "end"
  /\ UNCHANGED <<current, peerVars, made, inbox, hooks, bus>>

\* The function was cleared after it was tested.
Throw(r) ==
  /\ pc = "call" /\ r \in current
  /\ r.instruction.command \notin hooks
  /\ pc' = "end"
  /\ UNCHANGED <<socketState, current, peerVars, registryVars, inbox, wire, hooks, bus>>

\* At the end of the turn a request without a reply gets an empty one.
EndTurn_NoReply ==
  /\ pc = "end"
  /\ current' = IF socketState = "WAITING_SEND" THEN current ELSE {}
  /\ pc' = "poll"
  /\ UNCHANGED <<socketState, wire, peerVars, registryVars, inbox, hooks, bus>>
EndTurn ==
  /\ pc = "end"
  /\ \/ socketState = "WAITING_SEND" /\ \E r \in current : SendMessage(r, "", NoClient)
     \/ socketState = "WAITING_RECV" /\ UNCHANGED <<socketState, wire>>
  /\ current' = {}
  /\ pc' = "poll"
  /\ UNCHANGED <<peerVars, registryVars, inbox, hooks, bus>>

Serving ==
  \/ \E r \in current :
       Answer(r) \/ LeaveUnanswered(r) \/ TestFunction(r) \/ Connect(r) \/ Disconnect(r) \/ Throw(r)
  \/ EndTurn
  \/ Shutdown

-----------------------------------------------------------------------------
(* The peers *)

Send(p, i) ==
  /\ p \notin waiting
  /\ inbox' = inbox \cup {[socket |-> SocketOf(p), instruction |-> i]}
  /\ waiting' = waiting \cup {p}
  /\ UNCHANGED <<threadVars, attempt, knows, registryVars, wire, hooks, bus>>

TakeReply(p) ==
  /\ \E m \in wire :
       /\ m.socket = SocketOf(p)
       /\ wire' = wire \ {m}
       /\ knows' = [knows EXCEPT ![p] =
                      IF m.text = "connected" THEN @ \cup {m.id} ELSE @]
  /\ waiting' = waiting \ {p}
  /\ UNCHANGED <<threadVars, attempt, registryVars, inbox, hooks, bus>>

\* The peer closes its socket and opens another.  A request that was sent is still
\* served; the reply to it is lost.
GiveUp(p) ==
  /\ p \in waiting \cap Impatient
  /\ attempt[p] < MaxAttempts
  /\ attempt' = [attempt EXCEPT ![p] = @ + 1]
  /\ waiting' = waiting \ {p}
  /\ wire' = {m \in wire : m.socket # SocketOf(p)}
  /\ UNCHANGED <<threadVars, knows, registryVars, inbox, hooks, bus>>

-----------------------------------------------------------------------------
(* The controller, and the transport's stop *)

\* The registry drops a client that does not answer its pings, and all of them
\* when the controller stops (module ClientRegistry).
Drop ==
  /\ \E S \in {registered} \cup {{c} : c \in registered} : registered' = registered \ S
  /\ UNCHANGED <<threadVars, peerVars, made, inbox, wire, hooks, bus>>

ClearFunctions ==
  /\ hooks # {}
  /\ hooks' = {}
  /\ UNCHANGED <<threadVars, peerVars, registryVars, inbox, wire, bus>>

PublishShutdown ==
  /\ hooks = {} /\ ~bus
  /\ bus' = TRUE
  /\ UNCHANGED <<threadVars, peerVars, registryVars, inbox, wire, hooks>>

ConnectorNext ==
  \/ \E r \in inbox : Receive(r)
  \/ Serving
  \/ \E p \in Peer : \E i \in Asked[p] : Send(p, i)
  \/ \E p \in Peer : TakeReply(p) \/ GiveUp(p)
  \/ Drop
  \/ ClearFunctions
  \/ PublishShutdown

ConnectorSpec == ConnectorInit /\ [][ConnectorNext]_connectorVars

\* The thread goes on, a REP socket takes from its peers in turn, and a reply
\* arrives.  Nobody has to ask, to give up or to stop the engine.
FairConnectorSpec ==
  /\ ConnectorSpec
  /\ WF_connectorVars(Serving)
  /\ \A p \in Peer :
       /\ WF_connectorVars(TakeReply(p))
       /\ SF_connectorVars(\E r \in inbox : r.socket = SocketOf(p) /\ Receive(r))

-----------------------------------------------------------------------------
(* Properties *)

\* Every variable stays in its range; a request is in hand while it is served.
ConnectorTypeOK ==
  /\ pc \in {"poll", "handle", "call", "end", "ended"}
  /\ socketState \in {"WAITING_RECV", "WAITING_SEND"}
  /\ current \subseteq Request
  /\ pc \in {"poll", "ended"} <=> current = {}
  /\ \A r, s \in current : r = s
  /\ inbox \subseteq Request
  /\ wire \subseteq ReplyMessage
  /\ attempt \in [Peer -> 1..MaxAttempts]
  /\ waiting \subseteq Peer
  /\ hooks \subseteq {"connect", "disconnect"}
  /\ registered \subseteq ClientId
  /\ bus \in BOOLEAN
  /\ made \in [ClientId -> Socket \cup {NoSocket}]
  /\ knows \in [Peer -> SUBSET ClientId]

\* Each request gets one reply, from whatever branch of the handler, an empty one
\* after an unknown command or an exception, and only then is another received:
\* the connector never finds its socket in the wrong state, and never exits
\* (WebXClientConnector::mainLoop).
Exchange == INSTANCE RequestReply WITH
  asked   <- {r.socket : r \in inbox},
  served  <- IF socketState = "WAITING_SEND" THEN {r.socket : r \in current} ELSE {},
  replied <- {m.socket : m \in wire}
ImplementsExchange == Exchange!ExchangeSpec

\* The peer that asked for client c was told its id, is about to be, or gave up.
Known(c) ==
  \/ c \in knows[made[c][1]]
  \/ \E m \in wire : m.socket = made[c] /\ m.text = "connected" /\ m.id = c
  \/ made[c] # SocketOf(made[c][1])
\* The registry holds no client that nobody knows, unless the peer that asked for
\* it gave up waiting (connectClient and its reply).
ClientsAreKnown == \A c \in registered : Known(c)

\* A peer that waits gets a reply, gives up, or the engine is stopped.
PeerIsAnswered == \A p \in Peer : p \in waiting ~> p \notin waiting \/ bus
=============================================================================
