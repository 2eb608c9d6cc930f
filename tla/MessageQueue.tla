---------------------------- MODULE MessageQueue ----------------------------
(***************************************************************************)
(* WebXClientMessagePublisher and the WebXQueue between it and the         *)
(* controller.  put, get and stop of the queue each hold its mutex from    *)
(* beginning to end, except that get releases it while it waits on the     *)
(* condition variable; so a critical section is one action, and waiting is *)
(* a state of the publisher thread that a notification, or nothing at all  *)
(* (a spurious wakeup), ends.                                              *)
(*                                                                         *)
(* All messages have the default priority, as every caller in the engine   *)
(* gives them.  _running is written by stop and read by the publisher with *)
(* no lock; each read is a step of its own.                                *)
(***************************************************************************)
EXTENDS Naturals, Sequences

CONSTANTS
  Message,    \* what the controller publishes
  MaxPut      \* bound on the messages handed over

ASSUME QueueAssumption == MaxPut \in Nat

VARIABLES
  queue,         \* _queue
  unavailable,   \* _unavailable
  running,       \* _running
  pc,            \* where the publisher thread is
  inHand,        \* the message get returned, as a sequence of at most one
  stopper,       \* where the thread that calls stop is
  calling,       \* the message of a call of onMessage that will put it
  calls,         \* number of these calls
  accepted,      \* history: the messages that entered the queue
  published      \* history: the messages sent on the socket

threadVars == <<pc, inHand, stopper>>
callVars   == <<calling, calls>>
historyVars == <<accepted, published>>
queueVars  == <<queue, unavailable, running, threadVars, callVars, historyVars>>

QueueInit ==
  /\ queue = <<>>
  /\ unavailable = FALSE
  /\ running = TRUE
  /\ pc = "loop"
  /\ inHand = <<>>
  /\ stopper = "idle"
  /\ calling = <<>>
  /\ calls = 0
  /\ accepted = <<>>
  /\ published = <<>>

-----------------------------------------------------------------------------
(* Any thread *)

\* notify_one and notify_all: at most one thread waits, the publisher.
Notify_Nobody == UNCHANGED pc
Notify == pc' = IF pc = "waiting" THEN "get" ELSE pc

\* WebXQueue::put does nothing once the queue is stopped.
Enqueue(m) ==
  \/ /\ ~unavailable
     /\ queue' = Append(queue, m)
     /\ accepted' = Append(accepted, m)
     /\ Notify
  \/ unavailable /\ UNCHANGED <<queue, accepted, pc>>

\* onMessage tests _running, and puts the message some time later; put makes the
\* test of unavailable that matters.
OnMessage(m) ==
  /\ calling = <<>>
  /\ calls < MaxPut
  /\ running
  /\ calling' = <<m>>
  /\ calls' = calls + 1
  /\ UNCHANGED <<queue, unavailable, running, threadVars, historyVars>>

Put ==
  /\ calling # <<>>
  /\ calling' = <<>>
  /\ Enqueue(Head(calling))
  /\ UNCHANGED <<unavailable, running, inHand, stopper, calls, published>>

-----------------------------------------------------------------------------
(* WebXClientMessagePublisher::mainLoop, on the publisher thread *)

CheckRunning ==
  /\ pc = "loop"
  /\ pc' = IF running THEN "get" ELSE "done"
  /\ UNCHANGED <<queue, unavailable, running, inHand, stopper, callVars, historyVars>>

\* get finds nothing to take and waits.
Wait_EvenStopped ==
  /\ pc = "get"
  /\ queue = <<>>
  /\ pc' = "waiting"
  /\ UNCHANGED <<queue, unavailable, running, inHand, stopper, callVars, historyVars>>
Wait ==
  /\ pc = "get"
  /\ queue = <<>> /\ ~unavailable
  /\ pc' = "waiting"
  /\ UNCHANGED <<queue, unavailable, running, inHand, stopper, callVars, historyVars>>

SpuriousWakeup ==
  /\ pc = "waiting"
  /\ pc' = "get"
  /\ UNCHANGED <<queue, unavailable, running, inHand, stopper, callVars, historyVars>>

\* get returns NULL from a stopped queue, even if it holds messages.
GetNull ==
  /\ pc = "get"
  /\ unavailable
  /\ pc' = "loop"
  /\ UNCHANGED <<queue, unavailable, running, inHand, stopper, callVars, historyVars>>

Get_Newest ==
  /\ pc = "get"
  /\ ~unavailable /\ queue # <<>>
  /\ inHand' = <<queue[Len(queue)]>>
  /\ queue' = SubSeq(queue, 1, Len(queue) - 1)
  /\ pc' = "check"
  /\ UNCHANGED <<unavailable, running, stopper, callVars, historyVars>>
Get ==
  /\ pc = "get"
  /\ ~unavailable /\ queue # <<>>
  /\ inHand' = <<Head(queue)>>
  /\ queue' = Tail(queue)
  /\ pc' = "check"
  /\ UNCHANGED <<unavailable, running, stopper, callVars, historyVars>>

\* A message taken from the queue is dropped if stop was called meanwhile.
CheckAgain ==
  /\ pc = "check"
  /\ \/ running /\ pc' = "send" /\ UNCHANGED inHand
     \/ ~running /\ pc' = "loop" /\ inHand' = <<>>
  /\ UNCHANGED <<queue, unavailable, running, stopper, callVars, historyVars>>

Send ==
  /\ pc = "send"
  /\ published' = Append(published, Head(inHand))
  /\ inHand' = <<>>
  /\ pc' = "loop"
  /\ UNCHANGED <<queue, unavailable, running, stopper, callVars, accepted>>

Publisher ==
  CheckRunning \/ Wait \/ GetNull \/ Get \/ CheckAgain \/ Send

-----------------------------------------------------------------------------
(* WebXClientMessagePublisher::stop: clear _running, stop the queue, join *)

StopRunning ==
  /\ stopper = "idle"
  /\ running' = FALSE
  /\ stopper' = "stopping"
  /\ UNCHANGED <<queue, unavailable, pc, inHand, callVars, historyVars>>

StopQueue_Silently ==
  /\ stopper = "stopping"
  /\ unavailable' = TRUE
  /\ stopper' = "joining"
  /\ UNCHANGED <<queue, running, pc, inHand, callVars, historyVars>>
StopQueue ==
  /\ stopper = "stopping"
  /\ unavailable' = TRUE
  /\ Notify
  /\ stopper' = "joining"
  /\ UNCHANGED <<queue, running, inHand, callVars, historyVars>>

Join ==
  /\ stopper = "joining"
  /\ pc = "done"
  /\ stopper' = "joined"
  /\ UNCHANGED <<queue, unavailable, running, pc, inHand, callVars, historyVars>>

Stop == StopRunning \/ StopQueue \/ Join

QueueNext ==
  \/ \E m \in Message : OnMessage(m)
  \/ Put
  \/ Publisher
  \/ SpuriousWakeup
  \/ Stop

QueueSpec == QueueInit /\ [][QueueNext]_queueVars

\* The publisher thread runs, and a call of stop is carried through; whether
\* stop is ever called is open.
FairQueueSpec ==
  /\ QueueSpec
  /\ WF_queueVars(Publisher)
  /\ WF_queueVars(StopQueue)
  /\ WF_queueVars(Join)

-----------------------------------------------------------------------------
(* Properties *)

FlagsOK == unavailable \in BOOLEAN /\ running \in BOOLEAN

\* Every variable stays in its range; a message is in hand between get and send.
QueueTypeOK ==
  /\ queue \in Seq(Message)
  /\ FlagsOK
  /\ pc \in {"loop", "get", "waiting", "check", "send", "done"}
  /\ inHand \in Seq(Message)
  /\ Len(inHand) = IF pc \in {"check", "send"} THEN 1 ELSE 0
  /\ stopper \in {"idle", "stopping", "joining", "joined"}
  /\ calling \in Seq(Message) /\ Len(calling) <= 1
  /\ calls \in 0..MaxPut
  /\ accepted \in Seq(Message)
  /\ published \in Seq(Message)

\* No lost wakeup: the publisher never sleeps while there is something to
\* publish, nor after the queue was stopped (WebXQueue::get, put and stop).
NeverAsleepAtWork == pc = "waiting" => queue = <<>> /\ ~unavailable

\* The queue and its thread are the channel the controller was promised.
Channel == INSTANCE MessageChannel
ImplementsChannel == Channel!ChannelSpec

\* An accepted message is published, unless stop is called.
AcceptedIsPublished ==
  \A n \in 1..MaxPut : Len(accepted) >= n ~> Len(published) >= n \/ ~running

\* A call of stop returns: the publisher thread ends, wherever stop found it.
StopReturns == stopper = "stopping" ~> stopper = "joined"
=============================================================================
