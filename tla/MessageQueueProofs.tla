------------------------- MODULE MessageQueueProofs -------------------------
(***************************************************************************)
(* The publisher's queue loses no wakeup and implements the channel, for   *)
(* any set of messages and any number of them.                             *)
(*                                                                         *)
(* The refinement needs to know where every accepted message is: the       *)
(* published ones come first, then the one in hand, then the queue.  That  *)
(* fails once stop has made the publisher drop the message in its hand;    *)
(* but then the thread only runs to its end.                               *)
(***************************************************************************)
EXTENDS MessageQueue, SequenceTheorems, TLAPS

LEMMA SingleElement ==
  ASSUME NEW S, NEW s \in Seq(S), Len(s) = 1
  PROVE  Head(s) \in S /\ s = <<Head(s)>>
<1>1. s # <<>>
  <2>1. Len(<<>>) = 0
    OBVIOUS
  <2>. QED
    BY <2>1
<1>2. Head(s) \in S /\ Head(s) = s[1]
  BY <1>1
<1>3. Len(<<Head(s)>>) = 1 /\ <<Head(s)>>[1] = Head(s)
  OBVIOUS
<1>. QED
  BY <1>2, <1>3, SeqEqual

\* No accepted message is missing, or nothing will be published any more.
Accounted ==
  \/ Len(published) + Len(inHand) + Len(queue) = Len(accepted)
  \/ pc \in {"loop", "done"} /\ ~running

\* The queue holds the last of the accepted messages, in their order.
QueueIsSuffix ==
  /\ Len(queue) <= Len(accepted)
  /\ \A i \in 1..Len(queue) : queue[i] = accepted[Len(accepted) - Len(queue) + i]

\* The message in hand is the first that is not published.
HandIsNext ==
  pc \in {"check", "send"} => inHand[1] = accepted[Len(published) + 1]

QueueInv ==
  /\ QueueTypeOK
  /\ NeverAsleepAtWork
  /\ Accounted
  /\ QueueIsSuffix
  /\ HandIsNext

LEMMA InitQueueInv == QueueInit => QueueInv
<1>1. QueueInit => FlagsOK
  BY Zenon DEF QueueInit, FlagsOK
<1>. QED
  BY <1>1, QueueAssumption
     DEF QueueInit, QueueInv, QueueTypeOK, NeverAsleepAtWork, Accounted, QueueIsSuffix,
         HandIsNext

\* The two flags are only ever set to a constant.
LEMMA NextFlagsOK ==
  ASSUME FlagsOK, [QueueNext]_queueVars
  PROVE  FlagsOK'
<1>. USE DEF FlagsOK
<1>1. CASE \E m \in Message : OnMessage(m)
  BY <1>1, Zenon DEF OnMessage
<1>2. CASE Put
  BY <1>2, Zenon DEF Put
<1>3. CASE Publisher
  BY <1>3, Zenon DEF Publisher, CheckRunning, Wait, GetNull, Get, CheckAgain, Send
<1>4. CASE SpuriousWakeup
  BY <1>4, Zenon DEF SpuriousWakeup
<1>5. CASE Stop
  BY <1>5, Zenon DEF Stop, StopRunning, StopQueue, Join
<1>6. CASE UNCHANGED queueVars
  BY <1>6, Zenon DEF queueVars
<1>. QED
  BY <1>1, <1>2, <1>3, <1>4, <1>5, <1>6 DEF QueueNext

\* A call of put, the only step that adds to the queue.
LEMMA PutKeepsInv ==
  ASSUME QueueInv, Put, FlagsOK'
  PROVE  QueueInv'
<1>. USE DEF QueueInv, QueueTypeOK, Put, threadVars, historyVars, callVars
<1>1. Head(calling) \in Message
  OBVIOUS
<1>2. CASE unavailable
  BY <1>2 DEF Enqueue, NeverAsleepAtWork, Accounted, QueueIsSuffix, HandIsNext
<1>3. CASE ~unavailable
  <2>. DEFINE m == Head(calling)
  <2>1. /\ queue' = Append(queue, m)
        /\ accepted' = Append(accepted, m)
        /\ Notify
    BY <1>3 DEF Enqueue
  <2>2. /\ Len(queue') = Len(queue) + 1
        /\ Len(accepted') = Len(accepted) + 1
        /\ \A i \in 1..Len(queue) : queue'[i] = queue[i]
        /\ \A i \in 1..Len(accepted) : accepted'[i] = accepted[i]
        /\ queue'[Len(queue) + 1] = m
        /\ accepted'[Len(accepted) + 1] = m
    BY <1>1, <2>1
  <2>3. QueueTypeOK'
    BY <1>1, <2>1 DEF Notify
  <2>4. NeverAsleepAtWork'
    BY <2>1, <2>2 DEF Notify, NeverAsleepAtWork
  <2>7. Accounted'
    <3>1. running' <=> running
      BY Zenon
    <3>2. CASE Len(published) + Len(inHand) + Len(queue) = Len(accepted)
      <4>1. Len(published') + Len(inHand') + Len(queue') = Len(accepted')
        <5>1. published' = published /\ inHand' = inHand
          OBVIOUS
        <5>2. \A s \in {published, inHand, queue, accepted} : Len(s) \in Nat
          OBVIOUS
        <5>. QED
          BY ONLY <2>2, <3>2, <5>1, <5>2
      <4>. QED
        BY <4>1, Zenon DEF Accounted
    <3>3. CASE pc \in {"loop", "done"} /\ ~running
      BY <2>1, <3>1, <3>3 DEF Accounted, Notify
    <3>. QED
      BY <3>2, <3>3 DEF Accounted
  <2>5. QueueIsSuffix'
    <3>1. Len(queue') <= Len(accepted')
      BY <2>2 DEF QueueIsSuffix
    <3>2. ASSUME NEW i \in 1..Len(queue')
          PROVE  queue'[i] = accepted'[Len(accepted') - Len(queue') + i]
      <4>1. CASE i = Len(queue) + 1
        BY <2>2, <4>1
      <4>2. CASE i \in 1..Len(queue)
        <5>1. queue[i] = accepted[Len(accepted) - Len(queue) + i]
          BY <4>2 DEF QueueIsSuffix
        <5>2. Len(accepted) - Len(queue) + i \in 1..Len(accepted)
          BY <4>2 DEF QueueIsSuffix
        <5>3. Len(accepted') - Len(queue') + i = Len(accepted) - Len(queue) + i
          BY <2>2, <4>2
        <5>. QED
          BY <2>2, <4>2, <5>1, <5>2, <5>3
      <4>. QED
        BY <2>2, <4>1, <4>2
    <3>. QED
      BY <3>1, <3>2 DEF QueueIsSuffix
  <2>6. HandIsNext'
    <3>. SUFFICES ASSUME pc' \in {"check", "send"}
                  PROVE  inHand'[1] = accepted'[Len(published') + 1]
      BY DEF HandIsNext
    <3>1. pc = pc' /\ inHand' = inHand /\ published' = published
      BY <2>1 DEF Notify
    <3>2. Len(published) + 1 \in 1..Len(accepted)
      BY <3>1 DEF Accounted
    <3>. QED
      BY <2>2, <3>1, <3>2 DEF HandIsNext
  <2>. QED
    BY <2>3, <2>4, <2>5, <2>6, <2>7
<1>. QED
  BY <1>2, <1>3

\* The publisher takes the oldest message.
LEMMA GetKeepsInv ==
  ASSUME QueueInv, Get, FlagsOK'
  PROVE  QueueInv'
<1>. USE DEF QueueInv, QueueTypeOK, Get, callVars, historyVars
<1>1. /\ Len(queue) >= 1
      /\ Len(queue') = Len(queue) - 1
      /\ \A i \in 1..Len(queue') : queue'[i] = queue[i + 1]
      /\ inHand'[1] = queue[1] /\ Len(inHand') = 1 /\ Len(inHand) = 0
  OBVIOUS
<1>2. QueueTypeOK'
  BY <1>1
<1>3. NeverAsleepAtWork' /\ Accounted'
  BY <1>1 DEF NeverAsleepAtWork, Accounted
<1>4. QueueIsSuffix'
  BY <1>1 DEF QueueIsSuffix
<1>5. HandIsNext'
  <2>1. Len(published) = Len(accepted) - Len(queue)
    BY <1>1 DEF Accounted
  <2>. QED
    BY <1>1, <2>1 DEF HandIsNext, QueueIsSuffix
<1>. QED
  BY <1>2, <1>3, <1>4, <1>5

\* Every other step leaves the queue and the accepted messages alone.
LEMMA NextQueueInv ==
  ASSUME QueueInv, [QueueNext]_queueVars
  PROVE  QueueInv'
<1>. USE DEF QueueInv, QueueTypeOK, NeverAsleepAtWork, Accounted, QueueIsSuffix, HandIsNext,
             threadVars, callVars, historyVars
<1>0. FlagsOK'
  BY NextFlagsOK
<1>1. ASSUME NEW m \in Message, OnMessage(m) PROVE QueueInv'
  <2>1. running' <=> running
    BY <1>1, Zenon DEF OnMessage
  <2>2. unavailable' <=> unavailable
    BY <1>1, Zenon DEF OnMessage
  <2>3. calling' \in Seq(Message) /\ Len(calling') = 1
    BY <1>1 DEF OnMessage
  <2>4. calls' \in 0..MaxPut
    BY <1>1, QueueAssumption DEF OnMessage
  <2>5. UNCHANGED <<queue, pc, inHand, stopper, accepted, published>>
    BY <1>1 DEF OnMessage
  <2>. QED
    <3>1. QueueTypeOK'
      BY <1>0, <2>3, <2>4, <2>5
    <3>2. NeverAsleepAtWork' /\ Accounted'
      BY <2>1, <2>2, <2>5
    <3>3. QueueIsSuffix' /\ HandIsNext'
      BY <2>5
    <3>. QED
      BY <3>1, <3>2, <3>3
<1>2. CASE Put
  BY <1>0, <1>2, PutKeepsInv
<1>3. CASE CheckRunning
  BY <1>0, <1>3 DEF CheckRunning
<1>4. CASE Wait
  BY <1>0, <1>4 DEF Wait
<1>5. CASE SpuriousWakeup
  BY <1>0, <1>5 DEF SpuriousWakeup
<1>6. CASE GetNull
  BY <1>0, <1>6 DEF GetNull
<1>7. CASE Get
  BY <1>0, <1>7, GetKeepsInv
<1>8. CASE CheckAgain
  <2>1. CASE running
    BY <1>0, <1>8, <2>1 DEF CheckAgain
  <2>2. CASE ~running
    <3>1. ~running'
      BY <1>8, <2>2, Zenon DEF CheckAgain
    <3>2. pc' = "loop" /\ inHand' = <<>>
      BY <1>8, <2>2 DEF CheckAgain
    <3>3. unavailable' <=> unavailable
      BY <1>8, Zenon DEF CheckAgain
    <3>4. UNCHANGED <<queue, stopper, calling, calls, accepted, published>>
      BY <1>8 DEF CheckAgain
    <3>. QED
      BY <1>0, <3>1, <3>2, <3>3, <3>4
  <2>. QED
    BY <2>1, <2>2
<1>9. CASE Send
  <2>1. /\ published' \in Seq(Message) /\ Len(published') = Len(published) + 1
        /\ inHand' = <<>>
    <3>1. /\ published' = Append(published, Head(inHand))
          /\ inHand' = <<>>
          /\ Len(inHand) = 1
      BY <1>9 DEF Send
    <3>2. inHand \in Seq(Message)
      OBVIOUS
    <3>3. Head(inHand) \in Message
      BY <3>1, <3>2, SingleElement
    <3>. QED
      BY <3>1, <3>3
  <2>. QED
    BY <1>0, <1>9, <2>1 DEF Send
<1>10. CASE StopRunning
  BY <1>0, <1>10 DEF StopRunning
<1>11. CASE StopQueue
  BY <1>0, <1>11 DEF StopQueue, Notify
<1>12. CASE Join
  BY <1>0, <1>12 DEF Join
<1>13. CASE UNCHANGED queueVars
  BY <1>0, <1>13 DEF queueVars
<1>. QED
  BY <1>1, <1>2, <1>3, <1>4, <1>5, <1>6, <1>7, <1>8, <1>9, <1>10, <1>11, <1>12, <1>13
     DEF QueueNext, Publisher, Stop

LEMMA QueueInvariant == QueueSpec => []QueueInv
  BY InitQueueInv, NextQueueInv, PTL DEF QueueSpec

\* No wakeup is lost: the publisher never sleeps while a message waits or the
\* queue is stopped (WebXQueue::get, put, stop).
THEOREM NoLostWakeup == QueueSpec => [](QueueTypeOK /\ NeverAsleepAtWork)
  BY QueueInvariant, PTL DEF QueueInv

\* A step of the queue is a step of the channel, or invisible to it.
LEMMA QueueStepIsChannelStep ==
  ASSUME QueueInv, [QueueNext]_queueVars
  PROVE  [Channel!Accept \/ Channel!Deliver]_(Channel!channelVars)
<1>. USE DEF Channel!channelVars, threadVars, callVars, historyVars
<1>1. CASE Put
  <2>1. Head(calling) \in Message
    BY <1>1 DEF Put, QueueInv, QueueTypeOK
  <2>. QED
    BY <1>1, <2>1 DEF Put, Enqueue, Channel!Accept
<1>2. CASE Send
  <2>1. inHand = <<accepted[Len(published) + 1]>>
    BY <1>2 DEF Send, QueueInv, QueueTypeOK, HandIsNext
  <2>2. Len(published) < Len(accepted)
    BY <1>2 DEF Send, QueueInv, QueueTypeOK, Accounted
  <2>3. published' = Append(published, accepted[Len(published) + 1])
    BY <1>2, <2>1 DEF Send, QueueInv, QueueTypeOK
  <2>. QED
    BY <1>2, <2>2, <2>3 DEF Send, Channel!Deliver
<1>3. CASE \/ \E m \in Message : OnMessage(m)
           \/ CheckRunning \/ Wait \/ SpuriousWakeup \/ GetNull \/ Get \/ CheckAgain
           \/ StopRunning \/ StopQueue \/ Join
  BY <1>3 DEF OnMessage, CheckRunning, Wait, SpuriousWakeup, GetNull, Get, CheckAgain,
              StopRunning, StopQueue, Join
<1>4. CASE UNCHANGED queueVars
  BY <1>4 DEF queueVars
<1>. QED
  BY <1>1, <1>2, <1>3, <1>4 DEF QueueNext, Publisher, Stop

\* What the socket sends is the messages the queue accepted, in that order, with
\* none left out before a later one, whenever stop is called.
THEOREM QueueRefinesChannel == QueueSpec => ImplementsChannel
<1>1. QueueInit => Channel!ChannelInit
  BY DEF QueueInit, Channel!ChannelInit
<1>. QED
  BY <1>1, QueueStepIsChannelStep, QueueInvariant, PTL
     DEF QueueSpec, ImplementsChannel, Channel!ChannelSpec
=============================================================================
