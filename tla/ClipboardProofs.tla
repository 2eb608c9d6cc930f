-------------------------- MODULE ClipboardProofs --------------------------
(***************************************************************************)
(* Proofs about Clipboard, for any applications, contents and bounds.      *)
(*                                                                         *)
(* While no two questions have waited at one time there is at most one     *)
(* question, and it is in one place: with an application, being answered,  *)
(* or its answer is in the engine's queue.  So nobody deletes the answer   *)
(* before the engine reads it.  And while the engine owns the selection it *)
(* asks nothing, so that nothing can be under way that was not when a      *)
(* client set the content.                                                 *)
(***************************************************************************)
EXTENDS Clipboard, TLAPS

\* While the engine owns the selection, what is under way was so when it took it.
Quiet == owner = Engine /\ ~overtaken => ~Pending /\ content = last

\* Who is asked has copied something.
OwnerHolds == \A a \in App : owner = a \/ asked[a] > 0 => held[a] # Null

\* The places of a single question.
OneAsked ==
  /\ \A a \in App : asked[a] \in {0, 1}
  /\ \A a, b \in App : asked[a] > 0 /\ asked[b] > 0 => a = b
OneWriting == \A a, b \in writing : a = b
OneAnswer == \A i, j \in Answers : i = j
OnePlace ==
  /\ (\E a \in App : asked[a] > 0) => writing = {} /\ Answers = {}
  /\ writing # {} => Answers = {}

\* Its answer is in the property until the engine has read it.
AnswerIsThere ==
  writing # {} \/ (\E i \in DOMAIN events : events[i].type = "notify") => property # Null

Single == ~doubled => OneAsked /\ OneWriting /\ OneAnswer /\ OnePlace /\ AnswerIsThere

\* The clients are told the empty content only when it is read, and the engine's
\* content is empty from the start.
ClipboardInv == ClipboardTypeOK /\ OwnerHolds /\ Quiet /\ Single /\ NeverEmptied

-----------------------------------------------------------------------------
(* The queue of events *)

AnswersOf(s) == {i \in DOMAIN s : s[i].type # "request"}
HasNotify(s) == \E i \in DOMAIN s : s[i].type = "notify"
OneOf(S) == \A i, j \in S : i = j

LEMMA AppendEvent ==
  ASSUME NEW s \in Seq(Event), NEW e \in Event
  PROVE  /\ Append(s, e) \in Seq(Event)
         /\ AnswersOf(s) = {} => OneOf(AnswersOf(Append(s, e)))
         /\ e.type = "request" => AnswersOf(Append(s, e)) = AnswersOf(s)
         /\ HasNotify(Append(s, e)) => HasNotify(s) \/ e.type = "notify"
<1>1. /\ Append(s, e) \in Seq(Event)
      /\ DOMAIN Append(s, e) = DOMAIN s \cup {Len(s) + 1}
      /\ Append(s, e)[Len(s) + 1] = e
      /\ \A i \in DOMAIN s : Append(s, e)[i] = s[i]
      /\ Len(s) + 1 \notin DOMAIN s
  OBVIOUS
<1>2. AnswersOf(s) = {} => OneOf(AnswersOf(Append(s, e)))
  BY <1>1 DEF AnswersOf, OneOf
<1>3. e.type = "request" => AnswersOf(Append(s, e)) = AnswersOf(s)
  BY <1>1 DEF AnswersOf
<1>4. HasNotify(Append(s, e)) => HasNotify(s) \/ e.type = "notify"
  BY <1>1 DEF HasNotify
<1> QED BY <1>1, <1>2, <1>3, <1>4

LEMMA TakeEvent ==
  ASSUME NEW s \in Seq(Event), s # <<>>
  PROVE  /\ Tail(s) \in Seq(Event)
         /\ Head(s) \in Event
         /\ OneOf(AnswersOf(s)) => OneOf(AnswersOf(Tail(s)))
         /\ OneOf(AnswersOf(s)) /\ Head(s).type # "request" => AnswersOf(Tail(s)) = {}
         /\ AnswersOf(s) = {} => AnswersOf(Tail(s)) = {}
         /\ HasNotify(Tail(s)) => HasNotify(s)
         /\ Head(s).type # "request" => AnswersOf(s) # {}
         /\ Head(s).type = "notify" => HasNotify(s)
<1>1. /\ Tail(s) \in Seq(Event)
      /\ Head(s) = s[1] /\ 1 \in DOMAIN s
      /\ Head(s) \in Event
      /\ \A i \in DOMAIN Tail(s) : i \in Nat /\ i + 1 \in DOMAIN s /\ Tail(s)[i] = s[i + 1] /\ i + 1 # 1
  OBVIOUS
<1>2. OneOf(AnswersOf(s)) => OneOf(AnswersOf(Tail(s)))
  <2>1. \A i \in AnswersOf(Tail(s)) : i \in Nat /\ i + 1 \in AnswersOf(s)
    BY <1>1 DEF AnswersOf
  <2> QED BY <2>1 DEF OneOf
<1>3. OneOf(AnswersOf(s)) /\ Head(s).type # "request" => AnswersOf(Tail(s)) = {}
  BY <1>1 DEF AnswersOf, OneOf
<1>4. AnswersOf(s) = {} => AnswersOf(Tail(s)) = {}
  BY <1>1 DEF AnswersOf
<1>5. HasNotify(Tail(s)) => HasNotify(s)
  BY <1>1 DEF HasNotify
<1>6. /\ Head(s).type # "request" => AnswersOf(s) # {}
      /\ Head(s).type = "notify" => HasNotify(s)
  BY <1>1 DEF HasNotify, AnswersOf
<1> QED BY <1>1, <1>2, <1>3, <1>4, <1>5, <1>6

LEMMA EventDefs ==
  /\ Answers = AnswersOf(events)
  /\ Answers' = AnswersOf(events')
  /\ AnswerIsThere = (writing # {} \/ HasNotify(events) => property # Null)
  /\ AnswerIsThere' = (writing' # {} \/ HasNotify(events') => property' # Null)
  /\ OneAnswer = OneOf(Answers)
  /\ OneAnswer' = OneOf(Answers')
BY DEF Answers, AnswersOf, AnswerIsThere, HasNotify, OneAnswer, OneOf

-----------------------------------------------------------------------------
(* The steps *)

LEMMA ClipboardInit_Inv == ClipboardInit => ClipboardInv
<1> SUFFICES ASSUME ClipboardInit PROVE ClipboardInv
  OBVIOUS
<1> USE ClipboardAssumption DEF ClipboardInit
<1>1. ClipboardTypeOK
  <2>1. <<>> \in Seq(Event)
    OBVIOUS
  <2>2. held \in [App -> Content \cup {Null}] /\ asked \in [App -> Nat]
    OBVIOUS
  <2>3. owner \in App \cup {Engine, Null} /\ property \in Content \cup {Null}
    OBVIOUS
  <2>4. writing \subseteq App /\ copies \in 0..MaxCopies
    OBVIOUS
  <2> QED BY <2>1, <2>2, <2>3, <2>4 DEF ClipboardTypeOK
<1>2. events = <<>> /\ DOMAIN events = {} /\ Answers = {}
  BY DEF Answers
<1>3. Quiet /\ NeverEmptied /\ OwnerHolds
  BY DEF Quiet, NeverEmptied, OwnerHolds
<1>4. Single
  BY <1>2 DEF Single, OneAsked, OneWriting, OneAnswer, OnePlace, AnswerIsThere
<1> QED BY <1>1, <1>3, <1>4 DEF ClipboardInv

LEMMA TypeStep ==
  ASSUME ClipboardInv, [ClipboardNext]_clipboardVars
  PROVE  ClipboardTypeOK'
<1> USE ClipboardAssumption DEF ClipboardInv, ClipboardTypeOK
<1>1. CASE UpdateClipboard
  BY <1>1 DEF UpdateClipboard, engineVars, Pending
<1>2. CASE OnRefused
  BY <1>2, TakeEvent DEF OnRefused, IsNext, xVars, engineVars, historyVars
<1>3. CASE OnClipboardDataNotify
  BY <1>3, TakeEvent DEF OnClipboardDataNotify, IsNext, engineVars, historyVars
<1>4. CASE OnClipboardContentRequest
  BY <1>4, TakeEvent DEF OnClipboardContentRequest, IsNext, xVars, engineVars, historyVars
<1>5. CASE \E c \in Content : SetClipboardContent(c)
  BY <1>5 DEF SetClipboardContent, Pending
<1>6. CASE \E a \in App, c \in Content : Copy(a, c)
  BY <1>6 DEF Copy, engineVars
<1>7. CASE \E a \in App : Write(a)
  BY <1>7 DEF Write, engineVars, historyVars
<1>8. CASE \E a \in App : Notify(a)
  BY <1>8, AppendEvent DEF Notify, engineVars, historyVars, Event
<1>9. CASE \E a \in App : Refuse(a)
  BY <1>9, AppendEvent DEF Refuse, engineVars, historyVars, Event
<1>10. CASE \E a \in App : Quit(a)
  BY <1>10 DEF Quit, engineVars
<1>11. CASE \E a \in App : Paste(a)
  BY <1>11, AppendEvent DEF Paste, xVars, engineVars, historyVars, Event
<1>12. CASE UNCHANGED clipboardVars
  BY <1>12 DEF clipboardVars, xVars, engineVars, historyVars
<1> QED BY <1>1, <1>2, <1>3, <1>4, <1>5, <1>6, <1>7, <1>8, <1>9, <1>10, <1>11, <1>12
        DEF ClipboardNext, EngineStep

LEMMA QuietStep ==
  ASSUME ClipboardInv, [ClipboardNext]_clipboardVars
  PROVE  Quiet'
<1> USE ClipboardAssumption DEF ClipboardInv, ClipboardTypeOK, Quiet, Pending
<1>1. CASE UpdateClipboard
  BY <1>1 DEF UpdateClipboard, engineVars
<1>2. CASE OnRefused
  BY <1>2, TakeEvent, EventDefs DEF OnRefused, IsNext, xVars, engineVars, historyVars
<1>3. CASE OnClipboardDataNotify
  BY <1>3, TakeEvent, EventDefs DEF OnClipboardDataNotify, IsNext, engineVars, historyVars
<1>4. CASE OnClipboardContentRequest
  BY <1>4, TakeEvent, EventDefs
  DEF OnClipboardContentRequest, IsNext, xVars, engineVars, historyVars
<1>5. CASE \E c \in Content : SetClipboardContent(c)
  BY <1>5, EventDefs DEF SetClipboardContent
<1>6. CASE \E a \in App, c \in Content : Copy(a, c)
  BY <1>6 DEF Copy, engineVars
<1>7. CASE \E a \in App : Write(a)
  BY <1>7, EventDefs DEF Write, engineVars, historyVars
<1>8. CASE \E a \in App : Notify(a)
  BY <1>8, EventDefs DEF Notify, engineVars, historyVars
<1>9. CASE \E a \in App : Refuse(a)
  BY <1>9, EventDefs DEF Refuse, engineVars, historyVars
<1>10. CASE \E a \in App : Quit(a)
  BY <1>10 DEF Quit, engineVars
<1>11. CASE \E a \in App : Paste(a)
  <2>1. PICK a \in App : Paste(a)
    BY <1>11
  <2>2. [type |-> "request", app |-> a] \in Event
    BY DEF Event
  <2>3. Answers' = Answers
    BY <2>1, <2>2, AppendEvent, EventDefs DEF Paste
  <2> QED BY <2>1, <2>3 DEF Paste, xVars, engineVars, historyVars
<1>12. CASE UNCHANGED clipboardVars
  BY <1>12, EventDefs DEF clipboardVars, xVars, engineVars, historyVars
<1> QED BY <1>1, <1>2, <1>3, <1>4, <1>5, <1>6, <1>7, <1>8, <1>9, <1>10, <1>11, <1>12
        DEF ClipboardNext, EngineStep

LEMMA HoldsStep ==
  ASSUME ClipboardInv, [ClipboardNext]_clipboardVars
  PROVE  OwnerHolds'
<1> USE ClipboardAssumption DEF ClipboardInv, ClipboardTypeOK, OwnerHolds
<1>1. CASE UpdateClipboard
  BY <1>1 DEF UpdateClipboard
<1>2. CASE OnRefused \/ OnClipboardDataNotify \/ OnClipboardContentRequest
  BY <1>2 DEF OnRefused, OnClipboardDataNotify, OnClipboardContentRequest, xVars
<1>3. CASE \E c \in Content : SetClipboardContent(c)
  BY <1>3 DEF SetClipboardContent
<1>4. CASE \E a \in App, c \in Content : Copy(a, c)
  BY <1>4 DEF Copy
<1>5. CASE \E a \in App : Write(a) \/ Notify(a) \/ Refuse(a) \/ Paste(a)
  BY <1>5 DEF Write, Notify, Refuse, Paste, xVars
<1>6. CASE \E a \in App : Quit(a)
  BY <1>6 DEF Quit
<1>7. CASE UNCHANGED clipboardVars
  BY <1>7 DEF clipboardVars, xVars
<1> QED BY <1>1, <1>2, <1>3, <1>4, <1>5, <1>6, <1>7 DEF ClipboardNext, EngineStep

LEMMA EmptiedStep ==
  ASSUME ClipboardInv, [ClipboardNext]_clipboardVars
  PROVE  NeverEmptied'
<1> USE ClipboardAssumption DEF ClipboardInv, ClipboardTypeOK, NeverEmptied
<1>1. CASE UpdateClipboard
  BY <1>1 DEF UpdateClipboard, engineVars
<1>2. CASE OnClipboardDataNotify
  <2>1. ~doubled => property # Null
    BY <1>2, TakeEvent, EventDefs DEF OnClipboardDataNotify, IsNext, Single
  <2> QED BY <1>2, <2>1 DEF OnClipboardDataNotify, engineVars, historyVars
<1>3. CASE OnRefused \/ OnClipboardContentRequest
  BY <1>3 DEF OnRefused, OnClipboardContentRequest, xVars, engineVars, historyVars
<1>4. CASE \E c \in Content : SetClipboardContent(c)
  BY <1>4 DEF SetClipboardContent
<1>5. CASE \E a \in App, c \in Content : Copy(a, c)
  BY <1>5 DEF Copy, engineVars
<1>6. CASE \E a \in App : Write(a) \/ Notify(a) \/ Refuse(a) \/ Quit(a) \/ Paste(a)
  BY <1>6 DEF Write, Notify, Refuse, Quit, Paste, xVars, engineVars, historyVars
<1>7. CASE UNCHANGED clipboardVars
  BY <1>7 DEF clipboardVars, xVars, engineVars, historyVars
<1> QED BY <1>1, <1>2, <1>3, <1>4, <1>5, <1>6, <1>7 DEF ClipboardNext, EngineStep

LEMMA SingleStep ==
  ASSUME ClipboardInv, [ClipboardNext]_clipboardVars
  PROVE  Single'
<1> USE ClipboardAssumption
    DEF ClipboardInv, ClipboardTypeOK, Single, OneAsked, OneWriting, OnePlace
<1>1. CASE UpdateClipboard
  <2>1. ~doubled' => ~Pending
    BY <1>1 DEF UpdateClipboard
  <2> QED BY <1>1, <2>1, EventDefs DEF UpdateClipboard, engineVars, Pending, OneOf
<1>2. CASE OnRefused
  BY <1>2, TakeEvent, EventDefs DEF OnRefused, IsNext, xVars, engineVars, historyVars, OneOf
<1>3. CASE OnClipboardDataNotify
  <2>1. ~doubled => AnswersOf(events') = {} /\ writing = {} /\ ~\E a \in App : asked[a] > 0
    BY <1>3, TakeEvent, EventDefs DEF OnClipboardDataNotify, IsNext
  <2>2. AnswersOf(events') = {} => ~HasNotify(events')
    BY DEF AnswersOf, HasNotify
  <2> QED BY <1>3, <2>1, <2>2, EventDefs
          DEF OnClipboardDataNotify, engineVars, historyVars, OneOf
<1>4. CASE OnClipboardContentRequest
  BY <1>4, TakeEvent, EventDefs
  DEF OnClipboardContentRequest, IsNext, xVars, engineVars, historyVars, OneOf
<1>5. CASE \E c \in Content : SetClipboardContent(c)
  BY <1>5, EventDefs DEF SetClipboardContent
<1>6. CASE \E a \in App, c \in Content : Copy(a, c)
  BY <1>6, EventDefs DEF Copy, engineVars
<1>7. CASE \E a \in App : Write(a)
  BY <1>7, EventDefs DEF Write, engineVars, historyVars, OwnerHolds
<1>8. CASE \E a \in App : Notify(a)
  <2>1. PICK a \in App : Notify(a)
    BY <1>8
  <2>2. [type |-> "notify", app |-> a] \in Event
    BY DEF Event
  <2> QED BY <2>1, <2>2, AppendEvent, EventDefs DEF Notify, engineVars, historyVars
<1>9. CASE \E a \in App : Refuse(a)
  <2>1. PICK a \in App : Refuse(a)
    BY <1>9
  <2>2. [type |-> "none", app |-> a] \in Event
    BY DEF Event
  <2> QED BY <2>1, <2>2, AppendEvent, EventDefs DEF Refuse, engineVars, historyVars
<1>10. CASE \E a \in App : Quit(a)
  BY <1>10, EventDefs DEF Quit, engineVars
<1>11. CASE \E a \in App : Paste(a)
  <2>1. PICK a \in App : Paste(a)
    BY <1>11
  <2>2. [type |-> "request", app |-> a] \in Event
    BY DEF Event
  <2> QED BY <2>1, <2>2, AppendEvent, EventDefs DEF Paste, xVars, engineVars, historyVars
<1>12. CASE UNCHANGED clipboardVars
  BY <1>12, EventDefs DEF clipboardVars, xVars, engineVars, historyVars
<1> QED BY <1>1, <1>2, <1>3, <1>4, <1>5, <1>6, <1>7, <1>8, <1>9, <1>10, <1>11, <1>12
        DEF ClipboardNext, EngineStep

-----------------------------------------------------------------------------
(* The theorems *)

\* At every step at most one question is under way, and none that the engine does not
\* know of, until two waited at one time.
THEOREM ClipboardInvariant == ClipboardSpec => []ClipboardInv
<1>1. ClipboardInv /\ [ClipboardNext]_clipboardVars => ClipboardInv'
  BY TypeStep, HoldsStep, QuietStep, EmptiedStep, SingleStep DEF ClipboardInv
<1> QED BY ClipboardInit_Inv, <1>1, PTL DEF ClipboardSpec

\* Every variable stays in its range.
THEOREM ClipboardTypes == ClipboardSpec => []ClipboardTypeOK
<1>1. ClipboardInv => ClipboardTypeOK
  BY DEF ClipboardInv
<1> QED BY ClipboardInvariant, <1>1, PTL

\* What a client set stays the engine's content while the engine owns the selection, if
\* no answer was under way when it was set (setClipboardContent, onClipboardDataNotify).
THEOREM LastSetIsContent == ClipboardSpec => []LastSetWins
<1>1. ClipboardInv => LastSetWins
  BY DEF ClipboardInv, Quiet, LastSetWins
<1> QED BY ClipboardInvariant, <1>1, PTL

\* The clients are sent an empty content only when two questions waited at one time
\* (updateClipboard, onClipboardDataNotify).
THEOREM EmptiedOnlyByTwo == ClipboardSpec => []NeverEmptied
<1>1. ClipboardInv => NeverEmptied
  BY DEF ClipboardInv
<1> QED BY ClipboardInvariant, <1>1, PTL
=============================================================================
