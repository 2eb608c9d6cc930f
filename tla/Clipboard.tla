------------------------------ MODULE Clipboard ------------------------------
(***************************************************************************)
(* WebXClipboard: the engine takes part in the X selection CLIPBOARD with  *)
(* a window of its own.                                                    *)
(*                                                                         *)
(* Twice a second it asks the owner of the selection, if that is an        *)
(* application, for the content: the owner writes it to a property of the  *)
(* engine's window and sends SelectionNotify.  A content that differs from *)
(* the last is sent to all clients.  When a client sets the content the    *)
(* engine takes the selection, and answers the applications that ask.      *)
(*                                                                         *)
(* An application answers when it gets to it, or refuses; it may have been *)
(* asked again by then, or may not be the owner any more.  There is one    *)
(* property for all the answers.                                           *)
(***************************************************************************)
EXTENDS Naturals, Sequences, FiniteSets, Folds, Functions

CONSTANTS
  App,         \* the applications that copy and paste
  Content,     \* what is copied
  Large,       \* contents that are sent in portions (INCR)
  Empty,       \* the empty string
  Engine,      \* the engine's window
  Null,        \* no owner; no property
  MaxAsked,    \* bound on the questions that wait
  MaxCopies    \* bound on the changes of the selection

ASSUME ClipboardAssumption ==
  /\ Large \subseteq Content
  /\ Empty \notin Content /\ Null \notin Content \cup {Empty}
  /\ Engine \notin App /\ Null \notin App \cup {Engine}
  /\ MaxAsked \in Nat \ {0} /\ MaxCopies \in Nat

VARIABLES
  owner,       \* the owner of the selection
  held,        \* held[a]: the content a copied last
  asked,       \* asked[a]: questions of the engine that a has not answered
  writing,     \* applications that have written the property and not yet sent the event
  property,    \* WEBX_CLIPBOARD of the engine's window
  events,      \* the engine's event queue: selection events
  content,     \* _clipboardContent
  told,        \* the content that the clients were sent last
  pasted,      \* what an application got when it last pasted from the engine
  copies,      \* number of changes so far
  last,        \* history: the content that was copied last
  doubled,     \* history: two questions have waited at one time
  overtaken    \* history: when a client last set the content a question waited

xVars == <<owner, held, asked, writing, property>>
engineVars == <<content, told>>
historyVars == <<copies, last, doubled, overtaken>>
clipboardVars == <<xVars, events, engineVars, pasted, historyVars>>

\* SelectionNotify, with the property or with None, and SelectionRequest.
Event == [type : {"notify", "none", "request"}, app : App]

Answers == {i \in DOMAIN events : events[i].type # "request"}

\* A question of the engine waits: an application has it, or its answer is on the way.
Pending == (\E a \in App : asked[a] > 0) \/ writing # {} \/ Answers # {}
Waiting == FoldFunction(+, 0, asked) + Cardinality(writing) + Cardinality(Answers)

ClipboardInit ==
  /\ owner = Null
  /\ held = [a \in App |-> Null]
  /\ asked = [a \in App |-> 0]
  /\ writing = {}
  /\ property = Null
  /\ events = <<>>
  /\ content = Empty
  /\ told = Null
  /\ pasted = Null
  /\ copies = 0
  /\ last = Empty
  /\ doubled = FALSE
  /\ overtaken = FALSE

-----------------------------------------------------------------------------
(* The engine *)

UpdateClipboard_Once ==
  /\ owner \in App /\ content = Empty
  /\ Waiting < MaxAsked
  /\ asked' = [asked EXCEPT ![owner] = @ + 1]
  /\ doubled' = (doubled \/ Pending)
  /\ UNCHANGED <<owner, held, writing, property, events, engineVars, pasted, copies, last,
                 overtaken>>

\* updateClipboard, when 500 ms have passed.
UpdateClipboard ==
  /\ owner \in App
  /\ Waiting < MaxAsked
  /\ asked' = [asked EXCEPT ![owner] = @ + 1]
  /\ doubled' = (doubled \/ Pending)
  /\ UNCHANGED <<owner, held, writing, property, events, engineVars, pasted, copies, last,
                 overtaken>>

IsNext(type) ==
  /\ events # <<>>
  /\ Head(events).type = type
  /\ events' = Tail(events)

OnRefused_ReadsAnyway ==
  /\ IsNext("none")
  /\ property' = Null
  /\ content' = IF property = Null THEN Empty ELSE property
  /\ told' = IF content' # content THEN content' ELSE told
  /\ UNCHANGED <<owner, held, asked, writing, pasted, historyVars>>

\* An application refused.
OnRefused ==
  /\ IsNext("none")
  /\ UNCHANGED <<xVars, engineVars, pasted, historyVars>>

\* onClipboardDataNotify reads the property and deletes it.  A property that does not
\* exist reads as the empty string; one in portions is left.
OnClipboardDataNotify ==
  /\ IsNext("notify")
  /\ IF property \in Large
     THEN UNCHANGED <<property, engineVars>>
     ELSE /\ property' = Null
          /\ content' = IF property = Null THEN Empty ELSE property
          /\ told' = IF content' # content THEN content' ELSE told
  /\ UNCHANGED <<owner, held, asked, writing, pasted, historyVars>>

\* onClipboardContentRequest, for text: the content as it is by now.
OnClipboardContentRequest ==
  /\ IsNext("request")
  /\ pasted' = content
  /\ UNCHANGED <<xVars, engineVars, historyVars>>

SetClipboardContent_IfNotOwner(c) ==
  /\ copies < MaxCopies
  /\ content' = IF owner = Engine THEN content ELSE c
  /\ owner' = Engine
  /\ copies' = copies + 1
  /\ last' = c
  /\ overtaken' = Pending
  /\ UNCHANGED <<held, asked, writing, property, events, told, pasted, doubled>>

\* A clipboard instruction of a client; the other clients are not told.
SetClipboardContent(c) ==
  /\ copies < MaxCopies
  /\ content' = c
  /\ owner' = Engine
  /\ copies' = copies + 1
  /\ last' = c
  /\ overtaken' = Pending
  /\ UNCHANGED <<held, asked, writing, property, events, told, pasted, doubled>>

EngineStep ==
  UpdateClipboard \/ OnRefused \/ OnClipboardDataNotify \/ OnClipboardContentRequest

-----------------------------------------------------------------------------
(* The applications *)

Copy(a, c) ==
  /\ copies < MaxCopies
  /\ owner' = a
  /\ held' = [held EXCEPT ![a] = c]
  /\ copies' = copies + 1
  /\ last' = c
  /\ UNCHANGED <<asked, writing, property, events, engineVars, pasted, doubled, overtaken>>

\* The owner answers with what it copied last, in two requests to the X server.
Write(a) ==
  /\ asked[a] > 0 /\ a \notin writing
  /\ asked' = [asked EXCEPT ![a] = @ - 1]
  /\ property' = held[a]
  /\ writing' = writing \cup {a}
  /\ UNCHANGED <<owner, held, events, engineVars, pasted, historyVars>>

Notify(a) ==
  /\ a \in writing
  /\ writing' = writing \ {a}
  /\ events' = Append(events, [type |-> "notify", app |-> a])
  /\ UNCHANGED <<owner, held, asked, property, engineVars, pasted, historyVars>>

Refuse(a) ==
  /\ asked[a] > 0 /\ a \notin writing
  /\ asked' = [asked EXCEPT ![a] = @ - 1]
  /\ events' = Append(events, [type |-> "none", app |-> a])
  /\ UNCHANGED <<owner, held, writing, property, engineVars, pasted, historyVars>>

\* The owner quits: nobody answers its questions.
Quit(a) ==
  /\ owner = a /\ copies < MaxCopies
  /\ owner' = Null
  /\ asked' = [asked EXCEPT ![a] = 0]
  /\ writing' = writing \ {a}
  /\ copies' = copies + 1
  /\ UNCHANGED <<held, property, events, engineVars, pasted, last, doubled, overtaken>>

Paste(a) ==
  /\ owner = Engine
  /\ Answers = DOMAIN events
  /\ events' = Append(events, [type |-> "request", app |-> a])
  /\ UNCHANGED <<xVars, engineVars, pasted, historyVars>>

ClipboardNext ==
  \/ EngineStep
  \/ \E c \in Content : SetClipboardContent(c)
  \/ \E a \in App, c \in Content : Copy(a, c)
  \/ \E a \in App : Write(a) \/ Notify(a) \/ Refuse(a) \/ Quit(a) \/ Paste(a)

ClipboardSpec == ClipboardInit /\ [][ClipboardNext]_clipboardVars

\* The engine polls, and handles its events in their order; an application that is
\* asked again and again answers with the content some time.
FairClipboardSpec ==
  /\ ClipboardSpec
  /\ WF_clipboardVars(UpdateClipboard)
  /\ WF_clipboardVars(OnRefused \/ OnClipboardDataNotify \/ OnClipboardContentRequest)
  /\ \A a \in App : SF_clipboardVars(Write(a)) /\ WF_clipboardVars(Notify(a))

-----------------------------------------------------------------------------
(* Properties *)

\* Every variable stays in its range.
ClipboardTypeOK ==
  /\ owner \in App \cup {Engine, Null}
  /\ held \in [App -> Content \cup {Null}]
  /\ asked \in [App -> Nat]
  /\ writing \subseteq App
  /\ property \in Content \cup {Null}
  /\ events \in Seq(Event)
  /\ content \in Content \cup {Empty}
  /\ told \in Content \cup {Empty, Null}
  /\ pasted \in Content \cup {Empty, Null}
  /\ copies \in 0..MaxCopies
  /\ last \in Content \cup {Empty}
  /\ doubled \in BOOLEAN /\ overtaken \in BOOLEAN

\* What a client set is what the applications paste, until an application copies; but
\* for an answer that was on the way when the client set it, which replaces it.
LastSetWins == owner = Engine /\ ~overtaken => content = last

\* The clients are sent an empty content only when two questions waited at one time:
\* reading the first answer deletes the second.
NeverEmptied == told = Empty => doubled

\* What the owner of the selection copied becomes the engine's content, unless it is
\* large, or something else is copied.
ContentFollowsOwner ==
  \A a \in App, c \in Content \ Large :
    (owner = a /\ held[a] = c) ~> (content = c \/ owner # a \/ held[a] # c)
=============================================================================
