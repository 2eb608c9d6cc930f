----------------------------- MODULE EventFilter -----------------------------
(***************************************************************************)
(* The damage events that WebXEventListener drops.                         *)
(*                                                                         *)
(* When a window is configured the X server may redraw it, and the damage  *)
(* events of that follow the ConfigureNotify at once, with its serial (the *)
(* number of the last request of the engine that the server has handled);  *)
(* all but the last of them have the flag `more`.  The listener wants to   *)
(* drop these: a filter for the window and the serial is added with the    *)
(* configure event and is taken away with the last damage event, or when   *)
(* it is older than a second.                                              *)
(*                                                                         *)
(* Applications draw as they like, and as long as the engine makes no      *)
(* request their damage events have the same serial.  The history variable *)
(* open says which filters would be in force if each event were handled    *)
(* when it is made; owed, what of the windows' content has changed without *)
(* the registry being told.                                                *)
(*                                                                         *)
(* All the windows are in the list of visible windows (DisplayTree).       *)
(***************************************************************************)
EXTENDS Naturals, Sequences

CONSTANTS
  Window,
  MaxChanges,   \* bound on what the X server and the applications do
  MaxSerial,    \* bound on the requests of the engine
  MaxBoxes      \* bound on the damage events of one drawing

ASSUME FilterAssumption ==
  /\ MaxChanges \in Nat
  /\ MaxSerial \in Nat
  /\ MaxBoxes \in Nat \ {0}

VARIABLES
  filtering,    \* settings.event.filterDamageAfterConfigureNotify
  serial,       \* the last request of the engine that the server has handled
  change,       \* number of changes so far
  log,          \* the events that the server has sent, with what is known of them
  handled,      \* how many of them the engine has taken from the queue
  limit,        \* the last one that the present flush takes (qLength)
  flushing,     \* inside flushQueuedEvents
  filters,      \* _damageFilters, each with the number of its configure event
  open,         \* history: see above; numbers of configure events for each window
  owed,         \* history: see above; <<change, box>> for each window
  expired,      \* history: the filters that were dropped for their age
  dropped       \* history: the damage events that were dropped, by their place in log

serverVars == <<serial, change, log, open>>
filterVars ==
  <<filtering, serverVars, handled, limit, flushing, filters, owed, expired, dropped>>

Change == 1..MaxChanges

\* An event, its place among the changes, and as history the filters that would be
\* in force for its window.
Event == [type : {"configure", "damage"}, window : Window, serial : 0..MaxSerial,
          change : Change, box : 1..MaxBoxes, more : BOOLEAN, open : SUBSET Change]

First(S) == CHOOSE n \in S : \A k \in S : n <= k

-----------------------------------------------------------------------------
(* The X server, the applications, and the engine's own requests *)

FilterInit ==
  /\ filtering \in BOOLEAN
  /\ serial = 0
  /\ change = 0
  /\ log = <<>>
  /\ handled = 0 /\ limit = 0
  /\ flushing = FALSE
  /\ filters = {}
  /\ open = [w \in Window |-> {}]
  /\ owed = [w \in Window |-> {}]
  /\ expired = {}
  /\ dropped = {}

\* Damage events for n boxes of window w, when the filters S would be in force.
Boxes(w, n, S) ==
  [b \in 1..n |-> [type |-> "damage", window |-> w, serial |-> serial,
                   change |-> change', box |-> b, more |-> b < n, open |-> S]]

\* The last event of a batch takes the first filter away.
Closed(S) == IF S = {} THEN {} ELSE S \ {First(S)}

XDraw(w, n) ==
  /\ change < MaxChanges
  /\ change' = change + 1
  /\ log' = log \o Boxes(w, n, open[w])
  /\ open' = [open EXCEPT ![w] = Closed(@)]
  /\ owed' = [owed EXCEPT ![w] = @ \cup ({change'} \X (1..n))]
  /\ UNCHANGED <<filtering, serial, handled, limit, flushing, filters, expired, dropped>>

Configured(w) ==
  [type |-> "configure", window |-> w, serial |-> serial,
   change |-> change', box |-> 1, more |-> FALSE, open |-> open[w]]

\* A window that only moves is not redrawn.
XMove(w) ==
  /\ change < MaxChanges
  /\ change' = change + 1
  /\ log' = Append(log, Configured(w))
  /\ open' = [open EXCEPT ![w] = @ \cup {change'}]
  /\ UNCHANGED <<filtering, serial, handled, limit, flushing, filters, owed, expired,
                 dropped>>

XResize(w, n) ==
  /\ change < MaxChanges
  /\ change' = change + 1
  /\ log' = log \o <<Configured(w)>> \o Boxes(w, n, open[w] \cup {change'})
  /\ open' = [open EXCEPT ![w] = Closed(@ \cup {change'})]
  /\ owed' = [owed EXCEPT ![w] = @ \cup ({change'} \X (1..n))]
  /\ UNCHANGED <<filtering, serial, handled, limit, flushing, filters, expired, dropped>>

\* Any request of the engine: polling the clipboard, reading the pointer, grabbing an
\* image, looking at the tree.  No event that is sent from now on has the old serial.
Request ==
  /\ serial < MaxSerial
  /\ serial' = serial + 1
  /\ open' = [w \in Window |-> {}]
  /\ UNCHANGED <<filtering, change, log, handled, limit, flushing, filters, owed,
                 expired, dropped>>

-----------------------------------------------------------------------------
(* flushQueuedEvents *)

\* The events that have been read from the connection so far are handled.
BeginFlush(n) ==
  /\ ~flushing
  /\ flushing' = TRUE
  /\ limit' = n
  /\ UNCHANGED <<filtering, serverVars, handled, filters, owed, expired, dropped>>

NextEvent == log[handled + 1]
Takes(type) ==
  /\ flushing /\ handled < limit
  /\ NextEvent.type = type
  /\ handled' = handled + 1

Matching_AnyWindow(e) == {f \in filters : f.serial = e.serial}
Matching(e) == {f \in filters : f.window = e.window /\ f.serial = e.serial}
FirstOf(S) == CHOOSE f \in S : \A g \in S : f.change <= g.change

\* A configure event adds a filter.  Its handler sets the window's rectangle, and would
\* damage the whole window if the event's size were another than that of the
\* rectangle: it compares them too late, and never does.
OnConfigure ==
  /\ Takes("configure")
  /\ filters' = IF filtering
                THEN filters \cup {[window |-> NextEvent.window, serial |-> NextEvent.serial,
                                    change |-> NextEvent.change, old |-> FALSE]}
                ELSE filters
  /\ UNCHANGED <<filtering, serverVars, limit, flushing, owed, expired, dropped>>

DropDamage_LeavesFilter ==
  /\ Takes("damage")
  /\ Matching(NextEvent) # {}
  /\ dropped' = dropped \cup {handled'}
  /\ UNCHANGED <<filtering, serverVars, limit, flushing, filters, owed, expired>>

DropDamage ==
  /\ Takes("damage")
  /\ Matching(NextEvent) # {}
  /\ filters' = IF NextEvent.more THEN filters ELSE filters \ {FirstOf(Matching(NextEvent))}
  /\ dropped' = dropped \cup {handled'}
  /\ UNCHANGED <<filtering, serverVars, limit, flushing, owed, expired>>

\* sendDamageEvent: the registry is told.
SendDamage ==
  /\ Takes("damage")
  /\ Matching(NextEvent) = {}
  /\ owed' = [owed EXCEPT ![NextEvent.window] = @ \ {<<NextEvent.change, NextEvent.box>>}]
  /\ UNCHANGED <<filtering, serverVars, limit, flushing, filters, expired, dropped>>

EndFlush_KeepsOld ==
  /\ flushing /\ handled = limit
  /\ flushing' = FALSE
  /\ filters' = {f \in filters : f.old}
  /\ expired' = expired \cup {f.change : f \in filters \ filters'}
  /\ UNCHANGED <<filtering, serverVars, handled, limit, owed, dropped>>

\* Filters older than a second go.
EndFlush ==
  /\ flushing /\ handled = limit
  /\ flushing' = FALSE
  /\ filters' = {f \in filters : ~f.old}
  /\ expired' = expired \cup {f.change : f \in filters \ filters'}
  /\ UNCHANGED <<filtering, serverVars, handled, limit, owed, dropped>>

SecondPasses ==
  /\ filters' = {[f EXCEPT !.old = TRUE] : f \in filters}
  /\ UNCHANGED <<filtering, serverVars, handled, limit, flushing, owed, expired, dropped>>

Flush ==
  \/ \E n \in handled..Len(log) : BeginFlush(n)
  \/ OnConfigure \/ DropDamage \/ SendDamage \/ EndFlush

FilterNext ==
  \/ \E w \in Window, n \in 1..MaxBoxes : XDraw(w, n) \/ XResize(w, n)
  \/ \E w \in Window : XMove(w)
  \/ Request
  \/ Flush
  \/ SecondPasses

FilterSpec == FilterInit /\ [][FilterNext]_filterVars

\* The controller flushes the queue in every turn, and time passes.
FairFilterSpec ==
  /\ FilterSpec
  /\ WF_filterVars(Flush)
  /\ WF_filterVars(SecondPasses)

-----------------------------------------------------------------------------
(* Properties *)

\* Damage is dropped if and only if a filter would have been in force for it when it
\* was made: however late, and in whatever portions, the events are handled.  The one
\* exception is that a filter for that window and serial was too old by then.
FilterIsExact ==
  \A i \in 1..handled :
    log[i].type = "damage" =>
      /\ i \in dropped => filtering /\ log[i].open # {}
      /\ i \notin dropped /\ filtering /\ log[i].open # {} =>
           \E k \in 1..i : /\ log[k].type = "configure" /\ log[k].change \in expired
                           /\ log[k].window = log[i].window /\ log[k].serial = log[i].serial

\* Content that has changed without the registry being told has its damage event in
\* the queue, or the event was dropped because a configure event of the window came
\* before it with the same serial, and no other damage between them.
OwedIsAccountedFor ==
  \A w \in Window : \A o \in owed[w] :
    \E i \in 1..Len(log) :
      /\ log[i].type = "damage" /\ log[i].window = w /\ <<log[i].change, log[i].box>> = o
      /\ i > handled \/ (filtering /\ log[i].open # {})

\* No filter stays for ever ("To avoid potential leaks").
FiltersGo ==
  \A n \in Change : (\E f \in filters : f.change = n) ~> ~\E f \in filters : f.change = n
=============================================================================
