----------------------------- MODULE DisplayTree -----------------------------
(***************************************************************************)
(* The engine's copy of the X window tree (WebXDisplay, WebXWindow) and    *)
(* the list of visible windows that the clients are shown.                 *)
(*                                                                         *)
(* The X server changes the tree on its own; the engine learns of it by    *)
(* the events of the root window's children, in their order but late, and  *)
(* every handler queries the tree as it is by then.  A handler's queries   *)
(* are taken to see one state of the server.                               *)
(*                                                                         *)
(* The engine's tree is made of pointers.  Deleting a window to which a    *)
(* pointer remains, or removing one that has no parent, leaves the defined *)
(* behaviour of the program: fault records the first time that it happens, *)
(* and the model ends there.                                               *)
(*                                                                         *)
(* A window's place and size count only in so far as it is on the screen   *)
(* or off it.  The history variable missed holds the windows that changed  *)
(* at a moment at which the engine does not take notice, until the list is *)
(* right about them again.                                                 *)
(***************************************************************************)
EXTENDS Naturals, Sequences

CONSTANTS
  Window,
  Root,
  Null,          \* no window
  MaxChanges,    \* bound on the changes that the X server makes
  MaxEarly,      \* how many of them before the engine selects events
  MaxMoves       \* how many of them are moves over the edge of the screen

ASSUME TreeAssumption ==
  /\ Root \notin Window /\ Null \notin Window /\ Root # Null
  /\ MaxChanges \in Nat /\ MaxEarly \in Nat /\ MaxMoves \in Nat

VARIABLES
  xParent,       \* the parent of each window, Null when it is destroyed
  xMapped,       \* the mapped windows
  xOff,          \* the windows that are beyond the edge of the screen
  xReports,      \* xReports[w]: Damage objects that report on w
  changes,       \* changes so far
  moves,         \* moves so far
  events,        \* the engine's event queue
  selected,      \* the event listener has selected the root's events
  known,         \* _allWindows, but for the root
  parent,        \* _parent
  children,      \* _children
  viewable,      \* isViewable
  watched,       \* windows whose _damage is not 0
  visible,       \* _visibleWindows
  dirty,         \* _displayRequiresUpdate
  fault,         \* "none", or what went wrong
  missed         \* history

xVars == <<xParent, xMapped, xOff, changes, moves>>
treeVars == <<known, parent, children>>
engineVars == <<treeVars, viewable, watched, visible, dirty, fault>>
displayVars == <<xVars, xReports, events, selected, engineVars, missed>>

Event == [type : {"map", "unmap", "reparent", "configure"}, window : Window,
          parent : Window \cup {Root, Null}]

-----------------------------------------------------------------------------
(* The tree of the X server *)

Exists(w) == xParent[w] # Null
TopLevel == {w \in Window : xParent[w] = Root}

\* The windows that one comes to from S, going from a window v to those of step[v]: those
\* of every set that holds S and that no step leaves.
IsClosed(step, T) == \A v \in T : step[v] \subseteq T
Reach(S, step) ==
  {w \in Window : \A T \in SUBSET Window : S \subseteq T /\ IsClosed(step, T) => w \in T}

XChildren == [v \in Window |-> {w \in Window : xParent[w] = v}]
XParents == [v \in Window |-> {xParent[v]} \cap Window]
Above(w) == Reach({w}, XParents)

Viewable(w) == Exists(w) /\ Above(w) \subseteq xMapped

\* A window that the clients should be shown.
Displayable(w) == w \in TopLevel /\ w \in xMapped /\ w \notin xOff

-----------------------------------------------------------------------------
(* Changes of the X server *)

Ev(t, w, p) == [type |-> t, window |-> w, parent |-> p]

\* The events of a change reach the queue once they are selected.
Report(es) == events' = IF selected THEN events \o es ELSE events

\* What the engine does not notice: a change before the events are selected.
Unnoticed(S) == missed' = IF selected THEN missed ELSE missed \cup S

Change ==
  /\ changes < MaxChanges
  /\ selected \/ changes < MaxEarly
  /\ changes' = changes + 1

XMap(w) ==
  /\ Change
  /\ Exists(w) /\ w \notin xMapped
  /\ xMapped' = xMapped \cup {w}
  /\ UNCHANGED <<xParent, xOff, moves>>
  /\ Report(IF w \in TopLevel THEN <<Ev("map", w, Null)>> ELSE <<>>)
  /\ Unnoticed({w})
  /\ UNCHANGED <<xReports, selected, engineVars>>

XUnmap(w) ==
  /\ Change
  /\ w \in xMapped
  /\ xMapped' = xMapped \ {w}
  /\ UNCHANGED <<xParent, xOff, moves>>
  /\ Report(IF w \in TopLevel THEN <<Ev("unmap", w, Null)>> ELSE <<>>)
  /\ Unnoticed({w})
  /\ UNCHANGED <<xReports, selected, engineVars>>

\* A mapped window is unmapped, given its new parent, and mapped again.
XReparent(w, p) ==
  /\ Change
  /\ Exists(w) /\ p # xParent[w]
  /\ p \in Window => Exists(p) /\ w \notin Above(p)
  /\ xParent' = [xParent EXCEPT ![w] = p]
  /\ UNCHANGED <<xMapped, xOff, moves>>
  /\ Report((IF w \in TopLevel \cap xMapped THEN <<Ev("unmap", w, Null)>> ELSE <<>>)
            \o (IF Root \in {xParent[w], p} THEN <<Ev("reparent", w, p)>> ELSE <<>>)
            \o (IF p = Root /\ w \in xMapped THEN <<Ev("map", w, Null)>> ELSE <<>>))
  /\ Unnoticed({w})
  /\ UNCHANGED <<xReports, selected, engineVars>>

\* Its descendants and the Damage objects go with a window.
XDestroy(w) ==
  /\ Change
  /\ Exists(w)
  /\ LET gone == Reach({w}, XChildren) IN
       /\ xParent' = [v \in Window |-> IF v \in gone THEN Null ELSE xParent[v]]
       /\ xMapped' = xMapped \ gone
       /\ xReports' = [v \in Window |-> IF v \in gone THEN 0 ELSE xReports[v]]
       /\ Unnoticed(gone)
  /\ UNCHANGED <<xOff, moves>>
  /\ Report(IF w \in TopLevel \cap xMapped THEN <<Ev("unmap", w, Null)>> ELSE <<>>)
  /\ UNCHANGED <<selected, engineVars>>

\* A move of a window that the engine does not list is not noticed either.
XMove(w) ==
  /\ Change
  /\ moves < MaxMoves
  /\ moves' = moves + 1
  /\ w \in TopLevel
  /\ xOff' = IF w \in xOff THEN xOff \ {w} ELSE xOff \cup {w}
  /\ UNCHANGED <<xParent, xMapped>>
  /\ Report(<<Ev("configure", w, Null)>>)
  /\ IF w \in visible THEN Unnoticed({w}) ELSE missed' = missed \cup {w}
  /\ UNCHANGED <<xReports, selected, engineVars>>

XChange ==
  \E w \in Window :
    \/ XMap(w) \/ XUnmap(w) \/ XDestroy(w) \/ XMove(w)
    \/ \E p \in Window \cup {Root} : XReparent(w, p)

-----------------------------------------------------------------------------
(* The engine's tree *)

\* What createTree visits below t: createWindow returns a window it knows, or makes
\* one if it is viewable.
Visited(t) ==
  LET visits == [v \in Window |-> {w \in XChildren[v] : w \in known \/ Viewable(w)}]
  IN  Reach({t}, visits)

\* The window from which createWindowInTree(w) creates the tree, climbing to the
\* parent as long as that is viewable and not known.
TopOf(w) ==
  LET climbs == [v \in Window |-> {p \in XParents[v] : p \notin known /\ Viewable(p)}]
  IN  CHOOSE v \in Reach({w}, climbs) : climbs[v] = {}

\* The windows of S become children of their parents, where those are known by
\* then; a child is listed once, by each parent it has had (addChild).
Adopt(S, owners) ==
  LET new == {w \in S : xParent[w] \in owners /\ w \notin children[xParent[w]]} IN
    /\ children' = [p \in Window \cup {Root} |->
                      children[p] \cup {w \in new : xParent[w] = p}]
    /\ parent' = [w \in Window |-> IF w \in new THEN xParent[w] ELSE parent[w]]

\* A map event: createWindowInTree.  XGetWindowAttributes does not fill its
\* result in for a window that no longer exists, and its status is compared with
\* BadWindow, which it never is: the window may be created from what was there.
CreateWindowInTree(w) ==
  \/ /\ Exists(w) /\ (w \in known \/ Viewable(w))
     /\ LET S == Visited(TopOf(w)) IN
          /\ Adopt(S, known \cup S \cup {Root})
          /\ known' = known \cup S
          /\ viewable' = viewable \cup (S \ known)
  \/ /\ Exists(w) /\ w \notin known /\ ~Viewable(w)
     /\ UNCHANGED <<treeVars, viewable>>
  \/ /\ ~Exists(w) /\ w \notin known
     /\ known' = known \cup {w}
     /\ viewable' = viewable \cup {w}
     /\ UNCHANGED <<parent, children>>
  \/ /\ ~Exists(w)
     /\ UNCHANGED <<treeVars, viewable>>

\* The destructor of a window withdraws its Damage object if the window is viewable.
Withdraw(S) ==
  xReports' = [v \in Window |->
                 IF v \in S \cap watched \cap viewable /\ Exists(v)
                 THEN xReports[v] - 1 ELSE xReports[v]]

\* The descendants of w in the engine's tree.
Below(w) == Reach(children[w], children)

\* What is undefined about removing w with its descendants S.
FaultOfRemoval(w, S) ==
  CASE w \in S -> "cycle"
    [] parent[w] = Null -> "no_parent"
    [] \E p \in Window \cup {Root} : (children[p] \cap (S \cup {w})) \ {v \in Window : parent[v] = p} # {}
         -> "listed_twice"
    [] visible \cap S # {} -> "visible_deleted"
    [] OTHER -> "none"

\* An unmap event: removeWindowFromTree.  w itself is set not viewable, so that its
\* Damage object stays.
RemoveWindowFromTree(w) ==
  LET S == Below(w) IN
    /\ fault' = FaultOfRemoval(w, S)
    /\ IF fault' # "none"
       THEN UNCHANGED <<treeVars, viewable, watched, visible, xReports>>
       ELSE /\ known' = known \ (S \cup {w})
            /\ visible' = visible \ {w}
            /\ viewable' = viewable \ (S \cup {w})
            /\ parent' = [v \in Window |-> IF v \in S \cup {w} THEN Null ELSE parent[v]]
            /\ children' = [p \in Window \cup {Root} |->
                              IF p \in S \cup {w} THEN {} ELSE children[p] \ {w}]
            /\ watched' = watched \ (S \cup {w})
            /\ Withdraw(S)

\* A reparent event: a new parent that is not known leaves the window without.
ReparentWindow_KeepsParent(w, p) ==
  /\ parent' = [parent EXCEPT ![w] = IF p \in known \cup {Root} THEN p ELSE parent[w]]
  /\ children' = [q \in Window \cup {Root} |->
                    IF q = p /\ p \in known \cup {Root} THEN children[q] \cup {w}
                    ELSE IF q = parent[w] THEN children[q] \ {w} ELSE children[q]]
ReparentWindow(w, p) ==
  /\ parent' = [parent EXCEPT ![w] = IF p \in known \cup {Root} THEN p ELSE Null]
  /\ children' = [q \in Window \cup {Root} |->
                    IF q = p /\ p \in known \cup {Root} THEN children[q] \cup {w}
                    ELSE IF q = parent[w] THEN children[q] \ {w} ELSE children[q]]

-----------------------------------------------------------------------------
(* Handlers of the events *)

IsNext(type, w) ==
  /\ fault = "none"
  /\ events # <<>> /\ Head(events).type = type /\ Head(events).window = w
  /\ events' = Tail(events)

OnMap(w) ==
  /\ IsNext("map", w)
  /\ CreateWindowInTree(w)
  /\ dirty' = TRUE
  /\ UNCHANGED <<xVars, xReports, selected, watched, visible, fault, missed>>

OnUnmap(w) ==
  /\ IsNext("unmap", w)
  /\ IF w \in known
     THEN RemoveWindowFromTree(w)
     ELSE UNCHANGED <<treeVars, viewable, watched, visible, fault, xReports>>
  /\ dirty' = TRUE
  /\ UNCHANGED <<xVars, selected, missed>>

OnReparent(w) ==
  /\ IsNext("reparent", w)
  /\ IF w \in known THEN ReparentWindow(w, Head(events).parent) ELSE UNCHANGED <<parent, children>>
  /\ dirty' = TRUE
  /\ UNCHANGED <<xVars, xReports, selected, known, viewable, watched, visible, fault, missed>>

\* handleWindowConfigureEvent is called for a window of the list only.
OnConfigure(w) ==
  /\ IsNext("configure", w)
  /\ dirty' = (dirty \/ w \in visible)
  /\ UNCHANGED <<xVars, xReports, selected, treeVars, viewable, watched, visible, fault, missed>>

\* The windows of the list are watched, those that left it are not any more,
\* provided they are viewable.
UpdateVisibleWindows_Adds ==
  LET seen == TopLevel \cap known
      shown == {w \in seen : Displayable(w)}
      left == visible \ shown IN
    /\ viewable' = (viewable \ (seen \cup left)) \cup {w \in seen : Viewable(w)}
    /\ visible' = visible \cup shown
    /\ LET ignored == {w \in left \cap TopLevel : w \in viewable' /\ w \in watched} IN
         /\ watched' = (watched \cup shown) \ ignored
         /\ xReports' = [w \in Window |->
                           IF w \in shown \ watched THEN xReports[w] + 1
                           ELSE IF w \in ignored THEN xReports[w] - 1 ELSE xReports[w]]
    /\ missed' = {w \in missed : ~(w \in shown <=> Displayable(w))}
UpdateVisibleWindows_IgnoresAll ==
  LET seen == TopLevel \cap known
      shown == {w \in seen : Displayable(w)}
      left == visible \ shown IN
    /\ viewable' = (viewable \ (seen \cup left)) \cup {w \in seen : Viewable(w)}
    /\ visible' = shown
    /\ LET ignored == {w \in visible \cap TopLevel : w \in viewable' /\ w \in watched} IN
         /\ watched' = (watched \cup shown) \ ignored
         /\ xReports' = [w \in Window |->
                           IF w \in shown \ watched THEN xReports[w] + 1
                           ELSE IF w \in ignored THEN xReports[w] - 1 ELSE xReports[w]]
    /\ missed' = {w \in missed : ~(w \in shown <=> Displayable(w))}
UpdateVisibleWindows ==
  LET seen == TopLevel \cap known
      shown == {w \in seen : Displayable(w)}
      left == visible \ shown IN
    /\ viewable' = (viewable \ (seen \cup left)) \cup {w \in seen : Viewable(w)}
    /\ visible' = shown
    /\ LET ignored == {w \in left \cap TopLevel : w \in viewable' /\ w \in watched} IN
         /\ watched' = (watched \cup shown) \ ignored
         /\ xReports' = [w \in Window |->
                           IF w \in shown \ watched THEN xReports[w] + 1
                           ELSE IF w \in ignored THEN xReports[w] - 1 ELSE xReports[w]]
    /\ missed' = {w \in missed : ~(w \in shown <=> Displayable(w))}

\* After the events of a turn, if one of them asked for it (updateDisplay).
UpdateDisplay ==
  /\ fault = "none"
  /\ dirty
  /\ dirty' = FALSE
  /\ UpdateVisibleWindows
  /\ UNCHANGED <<xVars, events, selected, treeVars, fault>>

\* The event listener is created, after the first look at the tree.
SelectEvents ==
  /\ ~selected
  /\ selected' = TRUE
  /\ UNCHANGED <<xVars, xReports, events, engineVars, missed>>

\* init: the engine's tree is made from the windows there are, some of them mapped.
DisplayInit ==
  /\ xParent = [w \in Window |-> Root]
  /\ xMapped \in SUBSET Window
  /\ xOff = {}
  /\ changes = 0 /\ moves = 0
  /\ events = <<>>
  /\ selected = FALSE
  /\ known = xMapped /\ viewable = xMapped /\ watched = xMapped /\ visible = xMapped
  /\ parent = [w \in Window |-> IF w \in xMapped THEN Root ELSE Null]
  /\ children = [p \in Window \cup {Root} |-> IF p = Root THEN xMapped ELSE {}]
  /\ xReports = [w \in Window |-> IF w \in xMapped THEN 1 ELSE 0]
  /\ dirty = FALSE
  /\ fault = "none"
  /\ missed = {}

DisplayNext ==
  \/ XChange
  \/ SelectEvents
  \/ \E w \in Window : OnMap(w) \/ OnUnmap(w) \/ OnReparent(w) \/ OnConfigure(w)
  \/ UpdateDisplay

DisplaySpec == DisplayInit /\ [][DisplayNext]_displayVars

-----------------------------------------------------------------------------
(* Properties *)

\* Every variable stays in its range.
DisplayTypeOK ==
  /\ xParent \in [Window -> Window \cup {Root, Null}]
  /\ xMapped \subseteq Window /\ xOff \subseteq Window
  /\ xReports \in [Window -> Nat]
  /\ changes \in Nat /\ moves \in Nat
  /\ events \in Seq(Event)
  /\ selected \in BOOLEAN /\ dirty \in BOOLEAN
  /\ known \subseteq Window
  /\ parent \in [Window -> Window \cup {Root, Null}]
  /\ children \in [Window \cup {Root} -> SUBSET Window]
  /\ viewable \subseteq Window /\ watched \subseteq Window /\ visible \subseteq Window
  /\ missed \subseteq Window
  /\ fault \in {"none", "cycle", "no_parent", "listed_twice", "visible_deleted"}

\* All events are handled and the list is up to date.
Settled == selected /\ events = <<>> /\ ~dirty /\ fault = "none"

\* Once the events are handled, the list holds the windows that should be shown
\* and no window that is hidden, unmapped or gone, but for those that were missed:
\* however late the events come and whatever the tree looks like by then.
ListIsRight ==
  Settled => \A w \in Window \ missed : w \in visible <=> Displayable(w)

\* The damage of a window that the clients are shown is reported to the engine.
VisibleIsWatched ==
  \A w \in visible : w \in watched /\ (Exists(w) => xReports[w] >= 1)

\* The engine's tree hangs together: a window's parent is a window that is known and
\* lists it, whatever the order in which events and changes of the tree come.
ParentListsChild ==
  \A w \in known : parent[w] # Null =>
     w \in children[parent[w]] /\ parent[w] \in known \cup {Root}

=============================================================================
