------------------------------ MODULE Shutdown ------------------------------
(***************************************************************************)
(* The life of the process from the construction of the controller to the  *)
(* end of main: the transport starts its threads, the controller runs, and *)
(* SIGINT makes it stop.                                                   *)
(*                                                                         *)
(* The signal handler calls WebXController::stop on the main thread, which *)
(* is wherever the signal finds it: in the middle of a method of the       *)
(* registry (whose recursive mutex lets the handler in), or in             *)
(* WebXQueue::put (whose mutex does not).  While the handler runs the main *)
(* thread makes no other step; the other threads do.  SIGINT is held back  *)
(* while it is handled; a later one calls stop again.                      *)
(*                                                                         *)
(* The functions of WebXGateway are set and called without a lock.  A call *)
(* on the connector thread tests its function and makes the call some time *)
(* later; if the function was cleared in between, the call may be made all *)
(* the same, throw bad_function_call, or crash.                            *)
(*                                                                         *)
(* Of the messages only Disconnect is here, and of the registry only who   *)
(* is in it: pings and what else the loop does are the matter of Engine,   *)
(* the order of the queue is that of MessageQueue.                         *)
(***************************************************************************)
EXTENDS Naturals

CONSTANTS
  Client,       \* the clients that may connect, once each
  MaxSignals    \* bound on the signals

ASSUME ShutdownAssumption == MaxSignals \in Nat

VARIABLES
  pc,         \* where the main thread is
  handler,    \* where the signal handler is
  signals,    \* number of signals
  state,      \* WebXController::_state
  hooks,      \* the functions of the gateway that are set
  registered, \* the clients in the registry
  queue,      \* the clients whose Disconnect waits for the publisher
  thread,     \* where each thread of the transport is
  call,       \* the connector's call through the gateway, if it is in one
  heard,      \* the threads to which the event bus brought "shutdown"
  joined,     \* history: the clients that were told they are connected
  left,       \* history: those of them that disconnected
  told,       \* history: the clients to which Disconnect was published
  dropped,    \* history: clients whose Disconnect was not published
  late,       \* history: clients registered after the others were disconnected
  faults      \* history: why the engine cannot stop as it should

mainVars     == <<pc, handler, signals, state>>
threadVars   == <<thread, heard, call>>
clientVars   == <<registered, queue, joined, left, told, dropped, late>>
shutdownVars == <<mainVars, threadVars, hooks, clientVars, faults>>

Subscriber == {"connector", "collector"}
Thread == Subscriber \cup {"publisher"}

ShutdownInit ==
  /\ pc = "start"
  /\ handler = "idle"
  /\ signals = 0
  /\ state = "Stopped"
  /\ hooks = {"connect", "disconnect"}
  /\ registered = {}
  /\ queue = {}
  /\ thread = [t \in Thread |-> "off"]
  /\ call = {}
  /\ heard = {}
  /\ joined = {} /\ left = {} /\ told = {} /\ dropped = {} /\ late = {}
  /\ faults = {}

\* The process is there.
Alive == pc \notin {"exited", "crashed"}

-----------------------------------------------------------------------------
(* The main thread *)

\* It goes from one place to another when no signal keeps it.
Main(from, to) ==
  /\ handler = "idle"
  /\ pc = from
  /\ pc' = to
  /\ UNCHANGED <<handler, signals>>

\* WebXTransport::start: the threads, then the message publisher function.
StartThreads ==
  /\ Main("start", "hook")
  /\ thread' = [t \in Thread |-> IF t \in Subscriber THEN "starting" ELSE "running"]
  /\ UNCHANGED <<state, heard, call, hooks, clientVars, faults>>

SetPublisherFunc ==
  /\ Main("hook", "run")
  /\ hooks' = hooks \cup {"publish"}
  /\ UNCHANGED <<state, threadVars, clientVars, faults>>

\* run: the state becomes Running whatever stop has made of it.
EnterLoop ==
  /\ Main("run", "loop")
  /\ state' = "Running"
  /\ faults' = faults \cup {f \in {"stop undone"} : signals > 0}
  /\ UNCHANGED <<threadVars, hooks, clientVars>>

\* A turn of the loop is here a number of visits to the registry, each with its
\* mutex held, and of messages put in the queue, with the queue's.
Place == {"registry", "put"}
BeginTurn == state = "Running" /\ Main("loop", "turn")
Visit == \E place \in Place : Main("turn", place) \/ Main(place, "turn")
EndTurn == Main("turn", "loop")
LeaveLoop == state = "Stopped" /\ Main("loop", "unhook")
Loop ==
  /\ BeginTurn \/ Visit \/ EndTurn \/ LeaveLoop
  /\ UNCHANGED <<state, threadVars, hooks, clientVars, faults>>

\* WebXTransport::stop.
ClearPublisherFunc ==
  /\ Main("unhook", "broadcast")
  /\ hooks' = hooks \ {"publish"}
  /\ UNCHANGED <<state, threadVars, clientVars, faults>>

\* "shutdown" reaches the threads that have subscribed to the event bus by now.
Broadcast_ConnectorOnly ==
  /\ Main("broadcast", "join connector")
  /\ heard' = {t \in Subscriber \ {"collector"} : thread[t] = "ready"}
  /\ faults' = faults \cup {f \in {"shutdown not heard"} : heard' # {"connector"}}
  /\ UNCHANGED <<state, thread, call, hooks, clientVars>>
Broadcast ==
  /\ Main("broadcast", "join connector")
  /\ heard' = {t \in Subscriber : thread[t] = "ready"}
  /\ faults' = faults \cup {f \in {"shutdown not heard"} : heard' # Subscriber}
  /\ UNCHANGED <<state, thread, call, hooks, clientVars>>

JoinConnector ==
  /\ Main("join connector", "stop publisher")
  /\ thread["connector"] = "ended"
  /\ UNCHANGED <<state, threadVars, hooks, clientVars, faults>>

StopPublisher ==
  /\ Main("stop publisher", "join publisher")
  /\ thread' = [thread EXCEPT !["publisher"] = "stopping"]
  /\ UNCHANGED <<state, heard, call, hooks, clientVars, faults>>

JoinPublisher ==
  /\ Main("join publisher", "join collector")
  /\ thread["publisher"] = "ended"
  /\ UNCHANGED <<state, threadVars, hooks, clientVars, faults>>

JoinCollector_Detached ==
  /\ Main("join collector", "exited")
  /\ UNCHANGED <<state, threadVars, hooks, clientVars, faults>>
JoinCollector ==
  /\ Main("join collector", "exited")
  /\ thread["collector"] = "ended"
  /\ UNCHANGED <<state, threadVars, hooks, clientVars, faults>>

MainThread ==
  \/ StartThreads \/ SetPublisherFunc \/ EnterLoop \/ Loop \/ ClearPublisherFunc \/ Broadcast
  \/ JoinConnector \/ StopPublisher \/ JoinPublisher \/ JoinCollector

-----------------------------------------------------------------------------
(* The signal handler: WebXController::stop *)

Signal ==
  /\ Alive /\ handler = "idle"
  /\ signals < MaxSignals
  /\ signals' = signals + 1
  /\ state' = "Stopped"
  /\ handler' = "disconnect all"
  /\ UNCHANGED <<pc, threadVars, hooks, clientVars, faults>>

\* disconnectAll: a Disconnect for each client, in any order, then all are gone.
\* Without the publisher's function a message goes nowhere.
SendDisconnects_Cleared(S) == UNCHANGED <<queue, dropped>>
SendDisconnects(S) ==
  IF "publish" \in hooks
  THEN queue' = queue \cup S /\ UNCHANGED dropped
  ELSE dropped' = dropped \cup S /\ UNCHANGED queue

DisconnectAll ==
  /\ Alive /\ handler = "disconnect all"
  /\ ~(pc = "put" /\ registered # {})
  /\ SendDisconnects(registered)
  /\ registered' = {}
  /\ handler' = "clear connect"
  /\ UNCHANGED <<pc, signals, state, threadVars, hooks, joined, left, told, late, faults>>

\* The signal came while the main thread held the mutex of the queue, and put
\* locks it again.  The registry's mutex stays locked too.
SelfDeadlock ==
  /\ Alive /\ handler = "disconnect all"
  /\ pc = "put" /\ registered # {}
  /\ handler' = "stuck"
  /\ faults' = faults \cup {"self-deadlock"}
  /\ UNCHANGED <<pc, signals, state, threadVars, hooks, clientVars>>

\* The signal came while the main thread went through the clients that
\* disconnectAll removes: it may come to no harm, or crash.
Crash ==
  /\ pc' = "crashed"
  /\ faults' = faults \cup {"crash"}
  /\ UNCHANGED <<handler, signals, state, threadVars, hooks, clientVars>>
RemoveUnderIteration ==
  /\ handler = "disconnect all"
  /\ pc = "registry" /\ registered # {}
  /\ Crash

ClearFunc(hook, from, to) ==
  /\ Alive /\ handler = from
  /\ hooks' = hooks \ {hook}
  /\ handler' = to
  /\ UNCHANGED <<pc, signals, state, threadVars, clientVars, faults>>

Handler ==
  \/ DisconnectAll \/ SelfDeadlock \/ RemoveUnderIteration
  \/ ClearFunc("connect", "clear connect", "clear disconnect")
  \/ ClearFunc("disconnect", "clear disconnect", "idle")

-----------------------------------------------------------------------------
(* The threads of the transport *)

\* The thread creates its sockets and subscribes to the event bus.
Subscribe(t) ==
  /\ Alive /\ thread[t] = "starting"
  /\ thread' = [thread EXCEPT ![t] = "ready"]
  /\ UNCHANGED <<mainVars, heard, call, hooks, clientVars, faults>>

\* "shutdown" is looked at before any request.
Hear(t) ==
  /\ Alive /\ t \in heard /\ thread[t] = "ready"
  /\ t = "connector" => call = {}
  /\ thread' = [thread EXCEPT ![t] = "ended"]
  /\ UNCHANGED <<mainVars, heard, call, hooks, clientVars, faults>>

\* The connector takes a request and finds the gateway's function set.
Receive(hook, c) ==
  /\ Alive /\ thread["connector"] = "ready" /\ "connector" \notin heard
  /\ call = {}
  /\ hook \in hooks
  /\ IF hook = "connect" THEN c \notin joined ELSE c \in joined \ left
  /\ call' = {[hook |-> hook, client |-> c]}
  /\ UNCHANGED <<mainVars, thread, heard, hooks, clientVars, faults>>

\* addClient or removeClient, when the registry's mutex is free.
Disconnected == signals > 0 /\ handler \notin {"disconnect all", "stuck"}
Added(c) ==
  /\ registered' = registered \cup {c}
  /\ joined' = joined \cup {c}
  /\ late' = late \cup {d \in {c} : Disconnected}
  /\ UNCHANGED left
Removed(c) ==
  /\ registered' = registered \ {c}
  /\ left' = left \cup {c}
  /\ UNCHANGED <<joined, late>>
MakeCall ==
  /\ Alive /\ pc # "registry" /\ handler # "stuck"
  /\ \E r \in call :
       \/ r.hook = "connect" /\ Added(r.client)
       \/ r.hook = "disconnect" /\ Removed(r.client)
  /\ call' = {}
  /\ UNCHANGED <<mainVars, thread, heard, hooks, queue, told, dropped, faults>>

\* The function was cleared after it was tested: the call throws and the client
\* gets an empty reply, or the process dies.
TornCall ==
  /\ Alive
  /\ \E r \in call : r.hook \notin hooks
  /\ \/ /\ call' = {}
        /\ UNCHANGED <<mainVars, thread, heard, hooks, clientVars, faults>>
     \/ Crash

Publish ==
  /\ Alive /\ thread["publisher"] = "running" /\ pc # "put"
  /\ \E c \in queue : queue' = queue \ {c} /\ told' = told \cup {c}
  /\ UNCHANGED <<mainVars, threadVars, hooks, registered, joined, left, dropped, late, faults>>

\* get returns NULL from a stopped queue whatever it holds.
EndPublisher ==
  /\ Alive /\ thread["publisher"] = "stopping"
  /\ thread' = [thread EXCEPT !["publisher"] = "ended"]
  /\ queue' = {}
  /\ dropped' = dropped \cup queue
  /\ UNCHANGED <<mainVars, heard, call, hooks, registered, joined, left, told, late, faults>>

ShutdownNext ==
  \/ MainThread \/ Signal \/ Handler
  \/ \E t \in Subscriber : Subscribe(t) \/ Hear(t)
  \/ \E c \in Client, hook \in {"connect", "disconnect"} : Receive(hook, c)
  \/ MakeCall \/ TornCall \/ Publish \/ EndPublisher

ShutdownSpec == ShutdownInit /\ [][ShutdownNext]_shutdownVars

\* Every thread goes on, and a turn of the loop comes to its end; signals and
\* requests come or do not come.
FairShutdownSpec ==
  /\ ShutdownSpec
  /\ WF_shutdownVars(MainThread)
  /\ SF_shutdownVars(EndTurn /\ UNCHANGED <<state, threadVars, hooks, clientVars, faults>>)
  /\ WF_shutdownVars(Handler)
  /\ \A t \in Subscriber : WF_shutdownVars(Subscribe(t)) /\ WF_shutdownVars(Hear(t))
  /\ WF_shutdownVars(MakeCall)
  /\ WF_shutdownVars(EndPublisher)

-----------------------------------------------------------------------------
(* Properties *)

\* Every variable stays in its range, and messages are given to a publisher only
\* while it runs (setMessagePublisherFunc).
ShutdownTypeOK ==
  /\ pc \in {"start", "hook", "run", "loop", "turn", "registry", "put", "unhook", "broadcast",
             "join connector", "stop publisher", "join publisher", "join collector",
             "exited", "crashed"}
  /\ handler \in {"idle", "disconnect all", "clear connect", "clear disconnect", "stuck"}
  /\ signals \in 0 .. MaxSignals
  /\ state \in {"Stopped", "Running"}
  /\ hooks \subseteq {"connect", "disconnect", "publish"}
  /\ thread \in [Thread -> {"off", "starting", "ready", "running", "stopping", "ended"}]
  /\ heard \subseteq Subscriber
  /\ "publish" \in hooks => thread["publisher"] = "running"
  /\ call \subseteq [hook : {"connect", "disconnect"}, client : Client]
  /\ queue \subseteq Client /\ registered \subseteq Client /\ joined \subseteq Client
  /\ left \subseteq Client /\ told \subseteq Client
  /\ dropped \subseteq Client /\ late \subseteq Client
  /\ faults \subseteq {"stop undone", "self-deadlock", "crash", "shutdown not heard"}

\* When main returns, which destroys the transport's sockets and the gateway, no
\* thread of the transport is left to use them.
NoThreadLeft ==
  pc = "exited" => call = {} /\ \A t \in Thread : thread[t] = "ended"

\* A client that was told it is connected, and did not leave, is sent a Disconnect
\* before main returns; or it was registered after the others were disconnected,
\* or the queue was stopped before its Disconnect was published.
ForgottenFewClients ==
  pc = "exited" => joined \subseteq left \cup told \cup late \cup dropped

\* Once stop has been called the process ends, or it is one of four faults: run
\* made the controller run again, the handler locked the queue it interrupted,
\* a crash, or a thread that had not yet subscribed to the event bus.
StopsOrFaults == signals > 0 ~> pc = "exited" \/ faults # {}

=============================================================================
