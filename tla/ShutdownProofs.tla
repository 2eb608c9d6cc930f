--------------------------- MODULE ShutdownProofs ---------------------------
(***************************************************************************)
(* Proofs about Shutdown, for any number of clients and signals.           *)
(***************************************************************************)
EXTENDS Shutdown, TLAPS

\* The main thread has left the controller's loop.
Leaving == {"unhook", "broadcast", "join connector", "stop publisher", "join publisher",
            "join collector", "exited"}

\* The publisher runs until it is told to stop, and no message is given to it by
\* then.
PublisherPhase ==
  /\ pc \in {"hook", "run", "loop", "turn", "registry", "put", "unhook", "broadcast",
             "join connector", "stop publisher"} => thread["publisher"] = "running"
  /\ pc \in Leaving \ {"unhook"} => "publish" \notin hooks

\* A thread that was joined has ended, and a call is on a connector that runs.
JoinedHaveEnded ==
  /\ pc = "start" => thread["connector"] = "off"
  /\ pc \in {"stop publisher", "join publisher", "join collector", "exited"} =>
       thread["connector"] = "ended"
  /\ pc \in {"join collector", "exited"} => thread["publisher"] = "ended"
  /\ pc = "exited" => thread["collector"] = "ended"
  /\ call # {} => thread["connector"] = "ready"

\* The loop is left after a stop only, and the process does not end while the
\* handler disconnects the clients.
LeftByStop ==
  /\ pc \in Leaving => signals > 0
  /\ handler # "idle" => signals > 0
  /\ state = "Stopped" /\ pc \in {"loop", "turn", "registry", "put"} => signals > 0
  /\ pc = "exited" => handler = "idle"

\* Every client that was told it is connected is accounted for, and after
\* disconnectAll the registry holds none but late ones.
ClientsAccountedFor ==
  /\ joined \subseteq left \cup told \cup late \cup dropped \cup queue \cup registered
  /\ Disconnected => registered \subseteq late
  /\ thread["publisher"] = "ended" => queue = {}

ShutdownInv ==
  ShutdownTypeOK /\ PublisherPhase /\ JoinedHaveEnded /\ LeftByStop /\ ClientsAccountedFor

-----------------------------------------------------------------------------

LEMMA InitialState == ShutdownInit => ShutdownInv
  BY ShutdownAssumption
  DEF ShutdownInit, ShutdownInv, ShutdownTypeOK, PublisherPhase, JoinedHaveEnded, LeftByStop,
      ClientsAccountedFor, Leaving, Thread, Subscriber, Disconnected

\* A signal below the bound can be counted.
LEMMA OneMore ==
  ASSUME NEW n \in 0 .. MaxSignals, n < MaxSignals
  PROVE  n + 1 \in 0 .. MaxSignals /\ n + 1 > 0
  BY ShutdownAssumption

\* What the connector is in is a call.
LEMMA OneCall ==
  ASSUME NEW h \in {"connect", "disconnect"}, NEW c \in Client
  PROVE  {[hook |-> h, client |-> c]} \subseteq [hook : {"connect", "disconnect"}, client : Client]
  OBVIOUS

\* The steps of the main thread keep the invariant.
LEMMA MainKeeps ==
  ASSUME ShutdownInv, MainThread
  PROVE  ShutdownInv'
<1> USE ShutdownAssumption
<1> USE DEF ShutdownInv, ShutdownTypeOK, PublisherPhase, JoinedHaveEnded, LeftByStop,
            ClientsAccountedFor, Leaving, Thread, Subscriber, Disconnected, Main,
            mainVars, threadVars, clientVars
<1>1. CASE StartThreads
  BY <1>1 DEF StartThreads
<1>2. CASE SetPublisherFunc
  BY <1>2 DEF SetPublisherFunc
<1>3. CASE EnterLoop
  BY <1>3 DEF EnterLoop
<1>4. CASE Loop
  <2>1. ShutdownTypeOK'
    BY <1>4 DEF Loop, BeginTurn, Visit, EndTurn, LeaveLoop, Place
  <2>2. PublisherPhase'
    BY <1>4 DEF Loop, BeginTurn, Visit, EndTurn, LeaveLoop, Place
  <2>3. JoinedHaveEnded'
    BY <1>4 DEF Loop, BeginTurn, Visit, EndTurn, LeaveLoop, Place
  <2>4. LeftByStop'
    BY <1>4 DEF Loop, BeginTurn, Visit, EndTurn, LeaveLoop, Place
  <2>5. ClientsAccountedFor'
    BY <1>4 DEF Loop, BeginTurn, Visit, EndTurn, LeaveLoop, Place
  <2> QED
    BY <2>1, <2>2, <2>3, <2>4, <2>5
<1>5. CASE ClearPublisherFunc
  BY <1>5 DEF ClearPublisherFunc
<1>6. CASE Broadcast
  BY <1>6 DEF Broadcast
<1>7. CASE JoinConnector
  BY <1>7 DEF JoinConnector
<1>8. CASE StopPublisher
  BY <1>8 DEF StopPublisher
<1>9. CASE JoinPublisher
  BY <1>9 DEF JoinPublisher
<1>10. CASE JoinCollector
  BY <1>10 DEF JoinCollector
<1> QED
  BY <1>1, <1>2, <1>3, <1>4, <1>5, <1>6, <1>7, <1>8, <1>9, <1>10, MainThread DEF MainThread

\* So do a signal and the steps of its handler.
LEMMA HandlerKeeps ==
  ASSUME ShutdownInv, Signal \/ Handler
  PROVE  ShutdownInv'
<1> USE ShutdownAssumption
<1> USE DEF ShutdownInv, ShutdownTypeOK, PublisherPhase, JoinedHaveEnded, LeftByStop,
            ClientsAccountedFor, Leaving, Thread, Subscriber, Disconnected, Alive,
            mainVars, threadVars, clientVars
<1>1. CASE Signal
  <2>1. signals' \in 0 .. MaxSignals /\ signals' > 0
    BY <1>1, OneMore DEF Signal
  <2>2. ShutdownTypeOK'
    BY <1>1, <2>1 DEF Signal
  <2>3. PublisherPhase'
    BY <1>1 DEF Signal
  <2>4. JoinedHaveEnded'
    BY <1>1 DEF Signal
  <2>5. LeftByStop'
    BY <1>1, <2>1 DEF Signal
  <2>6. ClientsAccountedFor'
    BY <1>1 DEF Signal
  <2> QED
    BY <2>2, <2>3, <2>4, <2>5, <2>6
<1>2. CASE DisconnectAll
  <2>1. ShutdownTypeOK'
    BY <1>2 DEF DisconnectAll, SendDisconnects
  <2>2. PublisherPhase'
    BY <1>2 DEF DisconnectAll, SendDisconnects
  <2>3. JoinedHaveEnded'
    BY <1>2 DEF DisconnectAll, SendDisconnects
  <2>4. LeftByStop'
    BY <1>2 DEF DisconnectAll, SendDisconnects
  <2>5. ClientsAccountedFor'
    BY <1>2 DEF DisconnectAll, SendDisconnects
  <2> QED
    BY <2>1, <2>2, <2>3, <2>4, <2>5
<1>3. CASE SelfDeadlock
  BY <1>3 DEF SelfDeadlock
<1>4. CASE RemoveUnderIteration
  BY <1>4 DEF RemoveUnderIteration, Crash
<1>5. CASE ClearFunc("connect", "clear connect", "clear disconnect")
  BY <1>5 DEF ClearFunc
<1>6. CASE ClearFunc("disconnect", "clear disconnect", "idle")
  BY <1>6 DEF ClearFunc
<1> QED
  BY <1>1, <1>2, <1>3, <1>4, <1>5, <1>6 DEF Handler

\* And so do the threads of the transport.
LEMMA ThreadsKeep ==
  ASSUME ShutdownInv,
         \/ \E t \in Subscriber : Subscribe(t) \/ Hear(t)
         \/ \E c \in Client, hook \in {"connect", "disconnect"} : Receive(hook, c)
         \/ MakeCall \/ TornCall \/ Publish \/ EndPublisher
  PROVE  ShutdownInv'
<1> USE ShutdownAssumption
<1> USE DEF ShutdownInv, ShutdownTypeOK, PublisherPhase, JoinedHaveEnded, LeftByStop,
            ClientsAccountedFor, Leaving, Thread, Subscriber, Disconnected, Alive,
            mainVars, threadVars, clientVars
<1>1. CASE \E t \in Subscriber : Subscribe(t)
  <2>1. ShutdownTypeOK'
    BY <1>1 DEF Subscribe
  <2>2. PublisherPhase'
    BY <1>1 DEF Subscribe
  <2>3. JoinedHaveEnded'
    BY <1>1 DEF Subscribe
  <2>4. LeftByStop'
    BY <1>1 DEF Subscribe
  <2>5. ClientsAccountedFor'
    BY <1>1 DEF Subscribe
  <2> QED
    BY <2>1, <2>2, <2>3, <2>4, <2>5
<1>2. CASE \E t \in Subscriber : Hear(t)
  <2>1. ShutdownTypeOK'
    BY <1>2 DEF Hear
  <2>2. PublisherPhase'
    BY <1>2 DEF Hear
  <2>3. JoinedHaveEnded'
    BY <1>2 DEF Hear
  <2>4. LeftByStop'
    BY <1>2 DEF Hear
  <2>5. ClientsAccountedFor'
    BY <1>2 DEF Hear
  <2> QED
    BY <2>1, <2>2, <2>3, <2>4, <2>5
<1>3. CASE \E c \in Client, hook \in {"connect", "disconnect"} : Receive(hook, c)
  <2>1. PICK c \in Client, h \in {"connect", "disconnect"} : call' = {[hook |-> h, client |-> c]}
    BY <1>3 DEF Receive
  <2>2. call' \subseteq [hook : {"connect", "disconnect"}, client : Client]
    BY <2>1, OneCall
  <2>3. ShutdownTypeOK'
    BY <1>3, <2>2 DEF Receive
  <2>4. PublisherPhase'
    BY <1>3 DEF Receive
  <2>5. JoinedHaveEnded'
    BY <1>3 DEF Receive
  <2>6. LeftByStop'
    BY <1>3 DEF Receive
  <2>7. ClientsAccountedFor'
    BY <1>3 DEF Receive
  <2> QED
    BY <2>3, <2>4, <2>5, <2>6, <2>7
<1>4. CASE MakeCall
  <2>1. registered' \subseteq Client /\ joined' \subseteq Client /\ left' \subseteq Client
          /\ late' \subseteq Client
    BY <1>4 DEF MakeCall, Added, Removed
  <2>2. ShutdownTypeOK'
    BY <1>4, <2>1 DEF MakeCall
  <2>3. PublisherPhase'
    BY <1>4 DEF MakeCall, Added, Removed
  <2>4. JoinedHaveEnded'
    BY <1>4 DEF MakeCall, Added, Removed
  <2>5. LeftByStop'
    BY <1>4 DEF MakeCall, Added, Removed
  <2>6. ClientsAccountedFor'
    BY <1>4 DEF MakeCall, Added, Removed
  <2> QED
    BY <2>2, <2>3, <2>4, <2>5, <2>6
<1>5. CASE TornCall
  BY <1>5 DEF TornCall, Crash
<1>6. CASE Publish
  <2>1. ShutdownTypeOK'
    BY <1>6 DEF Publish
  <2>2. PublisherPhase'
    BY <1>6 DEF Publish
  <2>3. JoinedHaveEnded'
    BY <1>6 DEF Publish
  <2>4. LeftByStop'
    BY <1>6 DEF Publish
  <2>5. ClientsAccountedFor'
    BY <1>6 DEF Publish
  <2> QED
    BY <2>1, <2>2, <2>3, <2>4, <2>5
<1>7. CASE EndPublisher
  BY <1>7 DEF EndPublisher
<1> QED
  BY <1>1, <1>2, <1>3, <1>4, <1>5, <1>6, <1>7

\* The invariant holds throughout the life of the process.
THEOREM ShutdownInvariant == ShutdownSpec => []ShutdownInv
<1>1. ShutdownInv /\ [ShutdownNext]_shutdownVars => ShutdownInv'
  <2> SUFFICES ASSUME ShutdownInv, [ShutdownNext]_shutdownVars
               PROVE  ShutdownInv'
    OBVIOUS
  <2>1. CASE UNCHANGED shutdownVars
    <3> USE DEF shutdownVars, mainVars, threadVars, clientVars, ShutdownInv
    <3>1. ShutdownTypeOK'
      BY <2>1 DEF ShutdownTypeOK
    <3>2. PublisherPhase'
      BY <2>1 DEF PublisherPhase
    <3>3. JoinedHaveEnded'
      BY <2>1 DEF JoinedHaveEnded
    <3>4. LeftByStop'
      BY <2>1 DEF LeftByStop
    <3>5. ClientsAccountedFor'
      BY <2>1 DEF ClientsAccountedFor, Disconnected
    <3> QED
      BY <3>1, <3>2, <3>3, <3>4, <3>5
  <2>2. CASE ShutdownNext
    BY <2>2, MainKeeps, HandlerKeeps, ThreadsKeep DEF ShutdownNext
  <2> QED
    BY <2>1, <2>2
<1> QED
  BY <1>1, InitialState, PTL DEF ShutdownSpec

\* Every variable stays in its range, and messages are given to a publisher only
\* while it runs, whenever stop is called (WebXTransport::stop).
THEOREM ShutdownTypes == ShutdownSpec => []ShutdownTypeOK
  BY ShutdownInvariant, PTL DEF ShutdownInv

\* When main returns, no thread of the transport is left to use its sockets.
THEOREM ThreadsAreJoined == ShutdownSpec => []NoThreadLeft
<1>1. ShutdownInv => NoThreadLeft
  BY DEF ShutdownInv, JoinedHaveEnded, NoThreadLeft, Thread, Subscriber
<1> QED
  BY <1>1, ShutdownInvariant, PTL

\* A client that main leaves without a Disconnect was registered after the others
\* were disconnected, or its Disconnect was in the queue when that was stopped.
THEOREM FewAreForgotten == ShutdownSpec => []ForgottenFewClients
<1>1. ShutdownInv => ForgottenFewClients
  BY DEF ShutdownInv, JoinedHaveEnded, LeftByStop, ClientsAccountedFor, ForgottenFewClients,
         Disconnected, Leaving
<1> QED
  BY <1>1, ShutdownInvariant, PTL
=============================================================================
