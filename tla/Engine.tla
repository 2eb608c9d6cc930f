------------------------------- MODULE Engine -------------------------------
(***************************************************************************)
(* The engine around the registry: the controller loop of the main thread, *)
(* the connector, collector and publisher threads, and the remote clients. *)
(*                                                                         *)
(* The controller handles an instruction in two steps, because the client  *)
(* it looked up (getClientById, under the registry's lock) may be removed  *)
(* by the connector thread before the instruction is acted upon: the       *)
(* shared_ptr keeps the object, and its index, alive.  While the           *)
(* instructions are handled their mutex is held and the collector waits.   *)
(*                                                                         *)
(* A remote client is the process behind one client id.  It knows the bit  *)
(* it was given when it connected, takes every published message whose     *)
(* mask has that bit, and may vanish without a word.                       *)
(***************************************************************************)
EXTENDS ClientRegistry, SequencesExt

CONSTANTS
  QualityIndex,     \* indices the clients put in quality instructions
  MaxInstructions,  \* bound on the instructions waiting for the controller
  MaxMessages       \* bound on the messages waiting for the publisher

ASSUME EngineAssumption ==
  /\ QualityIndex \subseteq Nat
  /\ MaxInstructions \in Nat \ {0}
  /\ MaxMessages \in Nat \ {0}

VARIABLES
  pc,            \* where the controller loop is
  current,       \* the instruction being handled, and the index looked up
  heard,         \* history: clients whose pong was handled in this turn, until its pings
  instructions,  \* _instructions
  messages,      \* the publisher's queue
  remote,        \* remote[c]: the process behind id c
  address,       \* address[c]: the bit it was given, while it is up
  owesPong,      \* remotes that took a ping and have not answered it
  awaits,        \* remotes that wait for a response
  strays         \* history: <<c, type>> when c took what was made for another

mainVars   == <<pc, current, heard>>
remoteVars == <<remote, address, owesPong, awaits, strays>>
engineVars == <<registryVars, mainVars, instructions, messages, remoteVars>>

Idle == [type |-> "none", from |-> NoIndex, index |-> NoIndex, quality |-> 0]

\* A queued message: its type, the mask it is published with and, as history,
\* the ids of the clients it was made for.
ToClient(type, i, c) == [type |-> type, mask |-> {i}, for |-> {c}]
ToGroup(q) == [type |-> "Image", mask |-> groupMask[q], for |-> groupClients[q]]
ToAll == [type |-> "Notice", mask |-> Index, for |-> clients]

\* What the registry handed to the message handler in this step, by the clients
\* that held the bits before it.  Messages to different bits are not ordered.
SentByRegistry ==
  SetToSeq({ToClient(m.type, m.index, CHOOSE c \in clients : index[c] = m.index) :
              m \in sent'})

EngineInit ==
  /\ RegistryInit
  /\ pc = "sleep"
  /\ current = Idle
  /\ heard = {}
  /\ instructions = <<>>
  /\ messages = <<>>
  /\ remote = [c \in ClientId |-> "new"]
  /\ address = [c \in ClientId |-> NoIndex]
  /\ owesPong = {}
  /\ awaits = {}
  /\ strays = {}

-----------------------------------------------------------------------------
(* The controller loop *)

\* The turn starts by locking the instructions.
BeginTurn ==
  /\ pc = "sleep"
  /\ pc' = "instructions"
  /\ UNCHANGED <<registryVars, current, heard, instructions, messages, remoteVars>>

\* The next instruction, if its client is known.  The index is that of the
\* client object found here, whatever happens to it afterwards.
LookUpClient ==
  /\ pc = "instructions"
  /\ instructions # <<>>
  /\ instructions' = Tail(instructions)
  /\ LET i == Head(instructions) IN
       IF i.from \in clients
       THEN /\ current' = [type |-> i.type, from |-> i.from, index |-> index[i.from],
                             quality |-> i.quality]
            /\ pc' = "handle"
       ELSE UNCHANGED <<pc, current>>
  /\ UNCHANGED <<registryVars, heard, messages, remoteVars>>

Handled == pc' = "instructions" /\ current' = Idle

\* A change of the layout, the cursor or the clipboard, or a movement of the
\* mouse, may be told to every client.
Notify ==
  \/ UNCHANGED messages
  \/ Len(messages) < MaxMessages /\ messages' = Append(messages, ToAll)

\* Screen, Windows, Image, Shape and Cursor instructions: one response.
HandleRequest ==
  /\ pc = "handle" /\ current.type = "Request"
  /\ Len(messages) < MaxMessages
  /\ messages' = Append(messages, ToClient("Response", current.index, current.from))
  /\ Handled
  /\ UNCHANGED <<registryVars, heard, instructions, remoteVars>>

\* Mouse, keyboard, clipboard, resize and layout instructions.  A mouse movement
\* is told to the other clients, and the cursor to the one that moved.
HandleInput ==
  /\ pc = "handle" /\ current.type = "Input"
  /\ \/ Notify
     \/ /\ Len(messages) + 2 <= MaxMessages
        /\ messages' = messages \o
             <<[ToAll EXCEPT !.mask = @ \ {current.index}, !.for = @ \ {current.from}],
               ToClient("Notice", current.index, current.from)>>
  /\ Handled
  /\ UNCHANGED <<registryVars, heard, instructions, remoteVars>>

\* onPongReceived looks the client up again and may no longer find it.
HandlePong_Ignored ==
  /\ pc = "handle" /\ current.type = "Pong"
  /\ heard' = heard \cup {current.from}
  /\ Handled
  /\ UNCHANGED <<registryVars, instructions, messages, remoteVars>>
HandlePong ==
  /\ pc = "handle" /\ current.type = "Pong"
  /\ \/ OnPongReceived(current.from)
     \/ current.from \notin clients /\ UNCHANGED registryVars
  /\ heard' = heard \cup {current.from}
  /\ Handled
  /\ UNCHANGED <<instructions, messages, remoteVars>>

\* A client may ask for an index that is out of range.
QualityForIndex(i) == IF i \in Quality THEN i ELSE IF i = 0 THEN 1 ELSE MaxQuality

\* setClientMaxQuality looks the client up again too.
HandleQuality ==
  /\ pc = "handle" /\ current.type = "Quality"
  /\ \/ /\ SetClientMaxQuality(current.from, QualityForIndex(current.quality))
        /\ Len(messages) + Cardinality(sent') <= MaxMessages
        /\ messages' = messages \o SentByRegistry
     \/ current.from \notin clients /\ UNCHANGED <<registryVars, messages>>
  /\ Handled
  /\ UNCHANGED <<heard, instructions, remoteVars>>

\* All instructions are handled: the mutex is released.
EndInstructions_Early ==
  /\ pc = "instructions"
  /\ instructions' = <<>>
  /\ pc' = "events"
  /\ UNCHANGED <<registryVars, current, heard, messages, remoteVars>>
EndInstructions ==
  /\ pc = "instructions"
  /\ instructions = <<>>
  /\ pc' = "events"
  /\ UNCHANGED <<registryVars, current, heard, instructions, messages, remoteVars>>

Events ==
  /\ pc = "events"
  /\ Notify
  /\ pc' = "pings"
  /\ UNCHANGED <<registryVars, current, heard, instructions, remoteVars>>

Pings ==
  /\ pc = "pings"
  /\ HandleClientPings
  /\ Len(messages) + Cardinality(sent') <= MaxMessages
  /\ messages' = messages \o SentByRegistry
  /\ pc' = "update"
  /\ heard' = {}
  /\ UNCHANGED <<current, instructions, remoteVars>>

\* updateClientWindows: first some of the groups get an image.
UpdateWindows ==
  /\ pc = "update"
  /\ \E S \in SUBSET groups :
       /\ Len(messages) + Cardinality(S) <= MaxMessages
       /\ messages' = messages \o SetToSeq({ToGroup(q) : q \in S})
  /\ pc' = "verify"
  /\ UNCHANGED <<registryVars, current, heard, instructions, remoteVars>>

\* Then the clients whose bitrate was measured may change group.
VerifyQuality ==
  /\ pc = "verify"
  /\ \E measured \in SUBSET clients : \E delta \in [measured -> {-1, 0, 1}] :
       PerformQualityVerification(delta)
  /\ Len(messages) + Cardinality(sent') <= MaxMessages
  /\ messages' = messages \o SentByRegistry
  /\ pc' = "mouse"
  /\ UNCHANGED <<current, heard, instructions, remoteVars>>

RefreshMouse ==
  /\ pc = "mouse"
  /\ Notify
  /\ pc' = "sleep"
  /\ UNCHANGED <<registryVars, current, heard, instructions, remoteVars>>

Controller ==
  \/ BeginTurn \/ LookUpClient \/ HandleRequest \/ HandleInput \/ HandlePong
  \/ HandleQuality \/ EndInstructions \/ Events \/ Pings \/ UpdateWindows \/ VerifyQuality
  \/ RefreshMouse

-----------------------------------------------------------------------------
(* The connector and collector threads, driven by the remote clients *)

Connect(c) ==
  /\ remote[c] = "new"
  /\ AddClient(c)
  /\ remote' = [remote EXCEPT ![c] = "up"]
  /\ address' = [address EXCEPT ![c] = index'[c]]
  /\ UNCHANGED <<mainVars, instructions, messages, owesPong, awaits, strays>>

\* The remote is gone: it takes no message any more.
Down(S) ==
  /\ remote' = [c \in ClientId |-> IF c \in S THEN "down" ELSE remote[c]]
  /\ address' = [c \in ClientId |-> IF c \in S THEN NoIndex ELSE address[c]]
  /\ owesPong' = owesPong \ S
  /\ awaits' = awaits \ S

\* The disconnect command of the connector; the client may be unknown by now.
RequestDisconnect_Partial(c) ==
  /\ remote[c] = "up"
  /\ clients' = clients \ {c}
  /\ UNCHANGED <<index, clientIndexMask, maxQuality, pingVars, groupVars, sent, told, closed>>
  /\ Down({c})
  /\ UNCHANGED <<mainVars, instructions, messages, strays>>
RequestDisconnect(c) ==
  /\ remote[c] = "up"
  /\ RemoveClient(c) \/ (c \notin clients /\ UNCHANGED registryVars)
  /\ Down({c})
  /\ UNCHANGED <<mainVars, instructions, messages, strays>>

Crash(c) ==
  /\ remote[c] = "up"
  /\ Down({c})
  /\ UNCHANGED <<registryVars, mainVars, instructions, messages, strays>>

\* The collector appends under the instructions' mutex, which the controller
\* holds while it handles them.
Collect(c, type, q) ==
  /\ pc \notin {"instructions", "handle"}
  /\ Len(instructions) < MaxInstructions
  /\ instructions' = Append(instructions, [type |-> type, from |-> c, quality |-> q])

SendRequest(c) ==
  /\ remote[c] = "up" /\ c \notin awaits
  /\ Collect(c, "Request", 0)
  /\ awaits' = awaits \cup {c}
  /\ UNCHANGED <<registryVars, mainVars, messages, remote, address, owesPong, strays>>

SendInput(c) ==
  /\ remote[c] = "up"
  /\ Collect(c, "Input", 0)
  /\ UNCHANGED <<registryVars, mainVars, messages, remoteVars>>

SendQuality(c, q) ==
  /\ remote[c] = "up"
  /\ Collect(c, "Quality", q)
  /\ UNCHANGED <<registryVars, mainVars, messages, remoteVars>>

\* A remote may answer a ping late or never.
SendPong(c) ==
  /\ c \in owesPong
  /\ Collect(c, "Pong", 0)
  /\ owesPong' = owesPong \ {c}
  /\ UNCHANGED <<registryVars, mainVars, messages, remote, address, awaits, strays>>

-----------------------------------------------------------------------------
(* The publisher thread *)

\* The remotes that take a message published with a mask.
Receivers(mask) == {c \in ClientId : remote[c] = "up" /\ address[c] \in mask}

Publish ==
  /\ messages # <<>>
  /\ messages' = Tail(messages)
  /\ LET m == Head(messages)
         taken == Receivers(m.mask)
     IN  /\ \/ /\ m.type = "Disconnect"
               /\ Down(taken)
            \/ /\ m.type = "Ping"
               /\ owesPong' = owesPong \cup taken
               /\ UNCHANGED <<remote, address, awaits>>
            \/ /\ m.type = "Response"
               /\ awaits' = awaits \ taken
               /\ UNCHANGED <<remote, address, owesPong>>
            \/ /\ m.type \in {"Image", "Notice", "Quality"}
               /\ UNCHANGED <<remote, address, awaits, owesPong>>
         /\ strays' = strays \cup ((taken \ m.for) \X ({m.type} \cap {"Ping", "Response"}))
  /\ UNCHANGED <<registryVars, mainVars, instructions>>

ClockTick == Tick /\ UNCHANGED <<mainVars, instructions, messages, remoteVars>>

EngineNext ==
  \/ Controller
  \/ Publish
  \/ ClockTick
  \/ \E c \in ClientId : Connect(c) \/ RequestDisconnect(c) \/ Crash(c)
  \/ \E c \in ClientId : SendRequest(c) \/ SendInput(c) \/ SendPong(c)
  \/ \E c \in ClientId, q \in QualityIndex : SendQuality(c, q)

EngineSpec == EngineInit /\ [][EngineNext]_engineVars

\* The loop never stops, the publisher drains its queue, time passes.  Nothing
\* is assumed of the remotes.
FairEngineSpec ==
  /\ EngineSpec
  /\ WF_engineVars(Controller)
  /\ WF_engineVars(Publish)
  /\ WF_engineVars(ClockTick)

-----------------------------------------------------------------------------
(* Properties *)

\* Pings in the queue, unanswered at the remote and pongs on their way back.
PingsInFlight(c) ==
  Cardinality({n \in DOMAIN messages : messages[n].type = "Ping" /\ messages[n].for = {c}})
  + Cardinality({c} \cap owesPong)
  + Cardinality({n \in DOMAIN instructions :
                   instructions[n].type = "Pong" /\ instructions[n].from = c})
  + Cardinality({d \in {c} : current.type = "Pong" /\ current.from = d})

\* A client has at most one ping unanswered, wherever it is on its way, and none
\* while the registry waits to send the next one (updatePingStatus, onPingSent).
OnePingInFlight ==
  \A c \in clients :
    <<c, "Ping">> \notin strays =>
      PingsInFlight(c) <= IF pingStatus[c] = "WaitingForPong" THEN 1 ELSE 0

\* Nothing made for a client is queued behind its Disconnect: the ping timeout
\* comes after the instructions of the turn and before its images.
NothingAfterDisconnect ==
  \A i, j \in DOMAIN messages :
    i < j /\ messages[i].type = "Disconnect" => messages[i].for \cap messages[j].for = {}

\* A client whose pong was handled in this turn does not time out in it: the loop
\* handles instructions before pings.
PongSavesClient ==
  [][pc = "pings" /\ pc' # pc => heard \cap (clients \ clients') = {}]_engineVars

\* What the threads do to the registry together is what the registry's own
\* specification allows: its invariants hold in the engine.
ImplementsRegistry == RegistrySpec

\* A request is answered, unless its client is told to disconnect.
RequestAnswered == \A c \in ClientId : c \in awaits ~> c \notin awaits

\* A client whose process is gone without a disconnect leaves the registry.
CrashedClientRemoved ==
  \A c \in ClientId : remote[c] = "down" /\ c \in clients ~> c \notin clients

\* The clients that will be misled by m: they hold a bit of it, and it was not made
\* for them.
Misled(m) == {c \in clients \ m.for : index[c] \in m.mask}
\* A message on its way misleads a client only by a bit of one it was made for and
\* that has left since; with no such bit free it reaches whom it was made for and
\* nobody else ("Send message to specific client", WebXController.cpp:181).  A
\* notice to all is for whoever is there.
OnlyFreedBitsMislead ==
  \A n \in DOMAIN messages :
    LET m == messages[n] IN
      m.type # "Notice" => Cardinality(Misled(m)) <= Cardinality(m.for \ clients)
=============================================================================
