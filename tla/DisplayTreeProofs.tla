------------------------- MODULE DisplayTreeProofs -------------------------
(***************************************************************************)
(* Proofs about DisplayTree, for any windows and bounds.                   *)
(*                                                                         *)
(* A window that is mapped below the root is known and listed by the root, *)
(* or a map event of it is on its way with nothing behind it that takes    *)
(* the window out again, or the engine has overlooked it (Accounted).  A   *)
(* window about which the list is wrong has an event in the queue that     *)
(* makes the engine look again, or the list is due already (Corrected).    *)
(*                                                                         *)
(* What Reach yields is only asked two things: that it is closed, and that *)
(* every closed set that holds the start holds all of it.                  *)
(***************************************************************************)
EXTENDS DisplayTree, SequenceTheorems, TLAPS

-----------------------------------------------------------------------------
(* Closures *)

LEMMA ReachIsClosed ==
  ASSUME NEW S \in SUBSET Window, NEW step,
         \A v \in Window : step[v] \subseteq Window
  PROVE  /\ Reach(S, step) \in SUBSET Window
         /\ S \subseteq Reach(S, step)
         /\ \A v \in Reach(S, step) : step[v] \subseteq Reach(S, step)
<1>1. Reach(S, step) \in SUBSET Window /\ S \subseteq Reach(S, step)
  BY DEF Reach
<1>2. ASSUME NEW v \in Reach(S, step), NEW u \in step[v]
      PROVE  u \in Reach(S, step)
  <2>1. u \in Window
    BY <1>1, <1>2
  <2>2. ASSUME NEW T \in SUBSET Window, S \subseteq T, IsClosed(step, T)
        PROVE  u \in T
    <3>1. v \in T
      BY <1>2, <2>2 DEF Reach
    <3> QED BY <1>2, <2>2, <3>1 DEF IsClosed
  <2> QED BY <2>1, <2>2 DEF Reach
<1> QED BY <1>1, <1>2

LEMMA ReachIsLeast ==
  ASSUME NEW S, NEW step, NEW T \in SUBSET Window, S \subseteq T,
         \A v \in T : step[v] \subseteq T
  PROVE  Reach(S, step) \subseteq T
BY DEF Reach, IsClosed

\* One who is reached and was not there at the start is reached by a step.
LEMMA ReachedByStep ==
  ASSUME NEW S \in SUBSET Window, NEW step, \A v \in Window : step[v] \subseteq Window,
         NEW w \in Reach(S, step), w \notin S
  PROVE  \E v \in Reach(S, step) : w \in step[v]
<1> DEFINE T == Reach(S, step) \ {w}
<1>1. SUFFICES ASSUME \A v \in Reach(S, step) : w \notin step[v] PROVE FALSE
  OBVIOUS
<1>2. /\ Reach(S, step) \in SUBSET Window /\ S \subseteq Reach(S, step)
      /\ \A v \in Reach(S, step) : step[v] \subseteq Reach(S, step)
  BY ReachIsClosed
<1>3. T \in SUBSET Window /\ S \subseteq T /\ \A v \in T : step[v] \subseteq T
  BY <1>1, <1>2
<1> HIDE DEF T
<1>4. Reach(S, step) \subseteq T
  BY <1>3, ReachIsLeast
<1>5. w \in T
  BY <1>4
<1> QED BY <1>5 DEF T

-----------------------------------------------------------------------------
(* Types *)

LEMMA EvType ==
  ASSUME NEW t \in {"map", "unmap", "reparent", "configure"}, NEW w \in Window,
         NEW p \in Window \cup {Root, Null}
  PROVE  Ev(t, w, p) \in Event /\ Ev(t, w, p).type = t /\ Ev(t, w, p).window = w
         /\ Ev(t, w, p).parent = p
BY DEF Ev, Event

LEMMA DisplayInit_Types == DisplayInit => DisplayTypeOK
<1> SUFFICES ASSUME DisplayInit PROVE DisplayTypeOK
  OBVIOUS
<1>1. events \in Seq(Event) /\ changes \in Nat /\ moves \in Nat
  BY DEF DisplayInit
<1> QED BY <1>1, TreeAssumption DEF DisplayInit, DisplayTypeOK

-----------------------------------------------------------------------------
(* The queue of events *)

\* An event that takes w out of the engine's tree or gives it another place.
Leaves(e, w) == e.window = w /\ e.type \in {"unmap", "reparent"}

\* A map event of w is in s and nothing after it takes w out again.
Comes(s, w) ==
  \E i \in 1..Len(s) : /\ s[i].window = w /\ s[i].type = "map"
                       /\ \A j \in (i + 1)..Len(s) : ~Leaves(s[j], w)

\* Nothing in s takes w out.
Stays(s, w) == \A i \in 1..Len(s) : ~Leaves(s[i], w)

\* An event of w of one of these types is in s.
Pends(s, w, types) == \E i \in 1..Len(s) : s[i].window = w /\ s[i].type \in types

LEMMA AppendKeeps ==
  ASSUME NEW s \in Seq(Event), NEW es \in Seq(Event), NEW w,
         \A i \in 1..Len(es) : ~Leaves(es[i], w)
  PROVE  /\ Comes(s, w) => Comes(s \o es, w)
         /\ Stays(s, w) => Stays(s \o es, w)
<1> DEFINE t == s \o es
<1>1. /\ Len(s) \in Nat /\ Len(es) \in Nat /\ Len(t) = Len(s) + Len(es)
      /\ \A i \in 1..Len(t) : t[i] = IF i <= Len(s) THEN s[i] ELSE es[i - Len(s)]
  OBVIOUS
<1> HIDE DEF t
<1>2. ASSUME NEW i \in 1..Len(t), Leaves(t[i], w)
      PROVE  i \in 1..Len(s) /\ Leaves(s[i], w)
  <2>1. i <= Len(s)
    <3>1. SUFFICES ASSUME ~(i <= Len(s)) PROVE FALSE
      OBVIOUS
    <3>2. i - Len(s) \in 1..Len(es) /\ t[i] = es[i - Len(s)]
      BY <1>1, <3>1
    <3> QED BY <1>2, <3>2
  <2> QED BY <1>1, <1>2, <2>1
<1>3. ASSUME Comes(s, w) PROVE Comes(t, w)
  <2>1. PICK i \in 1..Len(s) : /\ s[i].window = w /\ s[i].type = "map"
                               /\ \A j \in (i + 1)..Len(s) : ~Leaves(s[j], w)
    BY <1>3 DEF Comes
  <2>2. i \in 1..Len(t) /\ t[i] = s[i]
    BY <1>1
  <2>3. \A j \in (i + 1)..Len(t) : ~Leaves(t[j], w)
    <3>1. SUFFICES ASSUME NEW j \in (i + 1)..Len(t), Leaves(t[j], w) PROVE FALSE
      OBVIOUS
    <3>2. j \in 1..Len(t) /\ j >= i + 1
      BY <1>1, <3>1
    <3>3. j \in 1..Len(s) /\ Leaves(s[j], w)
      BY <1>2, <3>1, <3>2
    <3> QED BY <2>1, <3>2, <3>3
  <2> QED BY <2>1, <2>2, <2>3 DEF Comes
<1>4. ASSUME Stays(s, w) PROVE Stays(t, w)
  BY <1>2, <1>4 DEF Stays
<1> QED BY <1>3, <1>4 DEF t

LEMMA AppendMap ==
  ASSUME NEW s \in Seq(Event), NEW es \in Seq(Event), NEW w, es # <<>>,
         es[Len(es)].window = w, es[Len(es)].type = "map"
  PROVE  Comes(s \o es, w)
<1> DEFINE t == s \o es
<1>1. /\ Len(t) \in Nat /\ Len(t) >= 1 /\ t[Len(t)] = es[Len(es)]
  OBVIOUS
<1> HIDE DEF t
<1>2. Len(t) \in 1..Len(t) /\ (Len(t) + 1)..Len(t) = {}
  BY <1>1
<1>3. Comes(t, w)
  BY <1>1, <1>2 DEF Comes
<1> QED BY <1>3 DEF t

LEMMA AppendPends ==
  ASSUME NEW s \in Seq(Event), NEW es \in Seq(Event), NEW w, NEW types
  PROVE  /\ Pends(s, w, types) => Pends(s \o es, w, types)
         /\ Pends(es, w, types) => Pends(s \o es, w, types)
<1> DEFINE t == s \o es
<1>1. /\ Len(s) \in Nat /\ Len(es) \in Nat /\ Len(t) = Len(s) + Len(es)
      /\ \A i \in 1..Len(s) : i \in 1..Len(t) /\ t[i] = s[i]
      /\ \A i \in 1..Len(es) : i + Len(s) \in 1..Len(t) /\ t[i + Len(s)] = es[i]
  OBVIOUS
<1> HIDE DEF t
<1>2. ASSUME Pends(s, w, types) PROVE Pends(t, w, types)
  BY <1>1, <1>2 DEF Pends
<1>3. ASSUME Pends(es, w, types) PROVE Pends(t, w, types)
  <2>1. PICK i \in 1..Len(es) : es[i].window = w /\ es[i].type \in types
    BY <1>3 DEF Pends
  <2> QED BY <1>1, <2>1 DEF Pends
<1> QED BY <1>2, <1>3 DEF t

\* What is left when the first event is handled.
LEMMA TailKeeps ==
  ASSUME NEW s \in Seq(Event), s # <<>>, NEW w
  PROVE  /\ Stays(s, w) => Stays(Tail(s), w)
         /\ Comes(s, w) => \/ Comes(Tail(s), w)
                           \/ Head(s).window = w /\ Head(s).type = "map" /\ Stays(Tail(s), w)
         /\ \A types : Pends(s, w, types) =>
              Pends(Tail(s), w, types) \/ (Head(s).window = w /\ Head(s).type \in types)
<1> DEFINE t == Tail(s)
<1>1. /\ Len(s) \in Nat /\ Len(s) >= 1 /\ Len(t) = Len(s) - 1 /\ Head(s) = s[1]
      /\ \A i \in 1..Len(t) : t[i] = s[i + 1] /\ i + 1 \in 1..Len(s)
  OBVIOUS
<1> HIDE DEF t
<1>2. Stays(s, w) => Stays(t, w)
  BY <1>1 DEF Stays
<1>3. ASSUME Comes(s, w)
      PROVE  Comes(t, w) \/ (Head(s).window = w /\ Head(s).type = "map" /\ Stays(t, w))
  <2>1. PICK i \in 1..Len(s) : /\ s[i].window = w /\ s[i].type = "map"
                               /\ \A j \in (i + 1)..Len(s) : ~Leaves(s[j], w)
    BY <1>3 DEF Comes
  <2>2. CASE i = 1
    <3>1. Stays(t, w)
      <4>1. SUFFICES ASSUME NEW j \in 1..Len(t) PROVE ~Leaves(t[j], w)
        BY DEF Stays
      <4>2. j + 1 \in (i + 1)..Len(s) /\ t[j] = s[j + 1]
        BY <1>1, <2>2
      <4> QED BY <2>1, <4>2
    <3> QED BY <1>1, <2>1, <2>2, <3>1
  <2>3. CASE i # 1
    <3>1. i - 1 \in 1..Len(t) /\ t[i - 1] = s[i]
      <4>1. i - 1 \in 1..Len(t) /\ (i - 1) + 1 = i
        BY <1>1, <2>3
      <4> QED BY <1>1, <4>1
    <3>2. ASSUME NEW j \in ((i - 1) + 1)..Len(t) PROVE ~Leaves(t[j], w)
      <4>1. j \in 1..Len(t) /\ j + 1 \in (i + 1)..Len(s)
        BY <1>1
      <4> QED BY <1>1, <2>1, <4>1
    <3> QED BY <2>1, <3>1, <3>2 DEF Comes
  <2> QED BY <2>2, <2>3
<1>4. ASSUME NEW types, Pends(s, w, types)
      PROVE  Pends(t, w, types) \/ (Head(s).window = w /\ Head(s).type \in types)
  <2>1. PICK i \in 1..Len(s) : s[i].window = w /\ s[i].type \in types
    BY <1>4 DEF Pends
  <2>2. CASE i = 1
    BY <1>1, <2>1, <2>2
  <2>3. CASE i # 1
    <3>1. i - 1 \in 1..Len(t) /\ (i - 1) + 1 = i
      BY <1>1, <2>3
    <3> QED BY <1>1, <2>1, <3>1 DEF Pends
  <2> QED BY <2>2, <2>3
<1> QED BY <1>2, <1>3, <1>4 DEF t

-----------------------------------------------------------------------------
(* The invariant *)

\* A window is watched as long as it is in the list, and one that is watched reported on.
WatchInv ==
  /\ visible \subseteq watched
  /\ \A w \in watched : Exists(w) => xReports[w] >= 1

\* Only known windows are listed and have a parent.
TreeInv ==
  /\ visible \subseteq known
  /\ \A w \in Window \ known : parent[w] = Null
  /\ ParentListsChild

\* Until the events are selected nothing happens but what is missed.
EarlyInv ==
  ~selected =>
    /\ events = <<>> /\ ~dirty
    /\ known = visible /\ known \subseteq children[Root]
    /\ \A w \in Window \ missed : w \in visible <=> Displayable(w)

Shown(w) == w \in TopLevel /\ w \in xMapped

\* A window that is mapped below the root is in the engine's tree to stay, or overlooked,
\* or a map event of it is to come.
Accounted ==
  selected /\ fault = "none" =>
    \A w \in Window : Shown(w) =>
      \/ Comes(events, w)
      \/ /\ Stays(events, w)
         /\ w \in known => w \in children[Root]
         /\ w \notin known /\ w \notin xOff => w \in missed

\* The list is about to be made again when it is wrong about a window.
Corrected ==
  selected /\ fault = "none" =>
    \A w \in Window \ missed :
      \/ w \in visible <=> Displayable(w)
      \/ dirty
      \/ Pends(events, w, {"map", "unmap", "reparent"})
      \/ w \in visible /\ Pends(events, w, {"configure"})

DisplayInv == DisplayTypeOK /\ WatchInv /\ TreeInv /\ EarlyInv /\ Accounted /\ Corrected

LEMMA DisplayInit_Inv == DisplayInit => DisplayInv
<1> SUFFICES ASSUME DisplayInit PROVE DisplayInv
  OBVIOUS
<1> USE TreeAssumption
<1>1. DisplayTypeOK
  BY DisplayInit_Types
<1>2. WatchInv
  <2>1. visible = xMapped /\ watched = xMapped /\ xMapped \subseteq Window
        /\ \A w \in xMapped : xReports[w] = 1
    BY DEF DisplayInit
  <2> QED BY <2>1 DEF WatchInv
<1>3. TreeInv
  BY DEF DisplayInit, TreeInv, ParentListsChild
<1>4. \A w \in Window : w \in visible <=> Displayable(w)
  BY DEF DisplayInit, Displayable, TopLevel
<1>5. EarlyInv
  BY <1>4 DEF DisplayInit, EarlyInv
<1>6. Accounted /\ Corrected
  BY DEF DisplayInit, Accounted, Corrected
<1> QED BY <1>1, <1>2, <1>3, <1>5, <1>6 DEF DisplayInv

-----------------------------------------------------------------------------
(* Changes of the X server *)

\* What a change of w does to the invariant: es is what it reports.
Reports(w, es) ==
  /\ es \in Seq(Event) /\ \A i \in 1..Len(es) : es[i].window = w
  /\ events' = IF selected THEN events \o es ELSE events

ChangesTypes ==
  /\ selected' = selected /\ UNCHANGED engineVars
  /\ xParent' \in [Window -> Window \cup {Root, Null}]
  /\ xMapped' \subseteq Window /\ xOff' \subseteq Window
  /\ xReports' \in [Window -> Nat]
  /\ changes' \in Nat /\ moves' \in Nat
  /\ missed \subseteq missed' /\ missed' \subseteq Window
  /\ \A v \in Window : Exists(v)' => Exists(v) /\ xReports'[v] = xReports[v]

\* Only w comes below the root or leaves it, and that is reported or missed.
ChangesOnly(w, es) ==
  /\ \A v \in Window \ {w} : (Shown(v)' <=> Shown(v)) /\ (v \in xOff' <=> v \in xOff)
  /\ Shown(w)' /\ Shown(w) => \A i \in 1..Len(es) : ~Leaves(es[i], w)
  /\ Shown(w)' /\ ~Shown(w) => es # <<>> /\ es[Len(es)].type = "map"
  /\ (w \in xOff' <=> w \in xOff) \/ w \in missed' \/ w \in visible
  /\ \/ Displayable(w)' <=> Displayable(w)
     \/ w \in missed'
     \/ selected /\ Pends(es, w, {"map", "unmap", "reparent"})
     \/ selected /\ w \in visible /\ Pends(es, w, {"configure"})

Effect(w, es) == Reports(w, es) /\ ChangesTypes /\ ChangesOnly(w, es)

\* One event of w, of type t.
IsOne(s, t, w) ==
  /\ s \in Seq(Event) /\ s # <<>> /\ Len(s) = 1
  /\ \A i \in 1..Len(s) : s[i].window = w /\ s[i].type = t
  /\ s[Len(s)].type = t
  /\ \A types : t \in types => Pends(s, w, types)

LEMMA OneEvent ==
  ASSUME NEW t \in {"map", "unmap", "reparent", "configure"}, NEW w \in Window,
         NEW p \in Window \cup {Root, Null}
  PROVE  IsOne(<<Ev(t, w, p)>>, t, w)
BY EvType DEF Pends, IsOne

LEMMA NoEvent ==
  ASSUME NEW s, s = <<>>
  PROVE  s \in Seq(Event) /\ Len(s) = 0 /\ 1..Len(s) = {}
OBVIOUS

LEMMA XMapEffect ==
  ASSUME DisplayTypeOK, NEW w \in Window, XMap(w)
  PROVE  \E es : Effect(w, es)
<1> DEFINE m == <<Ev("map", w, Null)>>
           es == IF w \in TopLevel THEN m ELSE <<>>
<1>1. IsOne(m, "map", w)
  BY OneEvent
<1> HIDE DEF m
<1>2. /\ es \in Seq(Event) /\ \A i \in 1..Len(es) : es[i].window = w
      /\ w \in TopLevel => /\ es # <<>> /\ es[Len(es)].type = "map"
                           /\ Pends(es, w, {"map", "unmap", "reparent"})
  <2>1. CASE w \in TopLevel
    <3>1. es = m
      BY <2>1
    <3> HIDE DEF es
    <3> QED BY <1>1, <3>1 DEF IsOne
  <2>2. CASE w \notin TopLevel
    <3>1. es = <<>>
      BY <2>2
    <3> HIDE DEF es
    <3> QED BY <2>2, <3>1, NoEvent
  <2> QED BY <2>1, <2>2
<1>3. events' = IF selected THEN events \o es ELSE events
  BY DEF XMap, Report, m
<1> HIDE DEF es
<1>4. /\ xParent' = xParent /\ xMapped' = xMapped \cup {w} /\ w \notin xMapped
      /\ xOff' = xOff /\ moves' = moves /\ xReports' = xReports /\ selected' = selected
      /\ UNCHANGED engineVars /\ changes' = changes + 1
      /\ missed' = IF selected THEN missed ELSE missed \cup {w}
  BY DEF XMap, Change, Unnoticed
<1>5. \A v \in Window \ {w} : Shown(v)' <=> Shown(v)
  BY <1>4 DEF Shown, TopLevel
<1>6. ~Shown(w) /\ (Shown(w)' => w \in TopLevel)
  BY <1>4 DEF Shown, TopLevel
<1>7. w \notin TopLevel => (Displayable(w)' <=> Displayable(w))
  BY <1>4 DEF Displayable, TopLevel
<1>8. selected \/ w \in missed'
  BY <1>4
<1>9. Reports(w, es)
  BY <1>2, <1>3 DEF Reports
<1>10. ChangesTypes
  <2>1. missed \subseteq missed' /\ missed' \subseteq Window
    BY <1>4 DEF DisplayTypeOK
  <2>2. \A v \in Window : Exists(v)' => Exists(v) /\ xReports'[v] = xReports[v]
    BY <1>4 DEF Exists
  <2>3. changes' \in Nat /\ moves' \in Nat
    BY <1>4 DEF DisplayTypeOK
  <2> QED BY <1>4, <2>1, <2>2, <2>3 DEF ChangesTypes, DisplayTypeOK
<1>11. ChangesOnly(w, es)
  BY <1>2, <1>4, <1>5, <1>6, <1>7, <1>8 DEF ChangesOnly
<1> QED BY <1>9, <1>10, <1>11 DEF Effect

LEMMA XUnmapEffect ==
  ASSUME DisplayTypeOK, NEW w \in Window, XUnmap(w)
  PROVE  \E es : Effect(w, es)
<1> DEFINE m == <<Ev("unmap", w, Null)>>
           es == IF w \in TopLevel THEN m ELSE <<>>
<1>1. IsOne(m, "unmap", w)
  BY OneEvent
<1> HIDE DEF m
<1>2. /\ es \in Seq(Event) /\ \A i \in 1..Len(es) : es[i].window = w
      /\ w \in TopLevel => Pends(es, w, {"map", "unmap", "reparent"})
  <2>1. CASE w \in TopLevel
    <3>1. es = m
      BY <2>1
    <3> HIDE DEF es
    <3> QED BY <1>1, <3>1 DEF IsOne
  <2>2. CASE w \notin TopLevel
    <3>1. es = <<>>
      BY <2>2
    <3> HIDE DEF es
    <3> QED BY <2>2, <3>1, NoEvent
  <2> QED BY <2>1, <2>2
<1>3. events' = IF selected THEN events \o es ELSE events
  BY DEF XUnmap, Report, m
<1> HIDE DEF es
<1>4. /\ xParent' = xParent /\ xMapped' = xMapped \ {w}
      /\ xOff' = xOff /\ moves' = moves /\ xReports' = xReports /\ selected' = selected
      /\ UNCHANGED engineVars /\ changes' = changes + 1
      /\ missed' = IF selected THEN missed ELSE missed \cup {w}
  BY DEF XUnmap, Change, Unnoticed
<1>5. \A v \in Window \ {w} : Shown(v)' <=> Shown(v)
  BY <1>4 DEF Shown, TopLevel
<1>6. ~Shown(w)'
  BY <1>4 DEF Shown, TopLevel
<1>7. w \notin TopLevel => (Displayable(w)' <=> Displayable(w))
  BY <1>4 DEF Displayable, TopLevel
<1>8. selected \/ w \in missed'
  BY <1>4
<1>9. Reports(w, es)
  BY <1>2, <1>3 DEF Reports
<1>10. ChangesTypes
  <2>1. missed \subseteq missed' /\ missed' \subseteq Window
    BY <1>4 DEF DisplayTypeOK
  <2> QED BY <1>4, <2>1 DEF ChangesTypes, DisplayTypeOK, Exists
<1>11. ChangesOnly(w, es)
  BY <1>2, <1>4, <1>5, <1>6, <1>7, <1>8 DEF ChangesOnly
<1> QED BY <1>9, <1>10, <1>11 DEF Effect

LEMMA XMoveEffect ==
  ASSUME DisplayTypeOK, NEW w \in Window, XMove(w)
  PROVE  \E es : Effect(w, es)
<1> DEFINE es == <<Ev("configure", w, Null)>>
<1>1. IsOne(es, "configure", w)
  BY OneEvent
<1>2. events' = IF selected THEN events \o es ELSE events
  BY DEF XMove, Report
<1> HIDE DEF es
<1>3. /\ xParent' = xParent /\ xMapped' = xMapped
      /\ xOff' = (IF w \in xOff THEN xOff \ {w} ELSE xOff \cup {w})
      /\ moves' = moves + 1 /\ xReports' = xReports /\ selected' = selected
      /\ UNCHANGED engineVars /\ changes' = changes + 1
      /\ missed' = missed \/ missed' = missed \cup {w}
      /\ w \in missed' \/ (selected /\ w \in visible)
  BY DEF XMove, Change, Unnoticed
<1>4. \A v \in Window : Shown(v)' <=> Shown(v)
  BY <1>3 DEF Shown, TopLevel
<1>5. \A i \in 1..Len(es) : ~Leaves(es[i], w)
  BY <1>1 DEF IsOne, Leaves
<1>6. Pends(es, w, {"configure"})
  BY <1>1 DEF IsOne
<1>7. Reports(w, es)
  BY <1>1, <1>2 DEF Reports, IsOne
<1>8. ChangesTypes
  <2>1. missed \subseteq missed' /\ missed' \subseteq Window /\ xOff' \subseteq Window
    BY <1>3 DEF DisplayTypeOK
  <2> QED BY <1>3, <2>1 DEF ChangesTypes, DisplayTypeOK, Exists
<1>9. ChangesOnly(w, es)
  BY <1>3, <1>4, <1>5, <1>6 DEF ChangesOnly
<1> QED BY <1>7, <1>8, <1>9 DEF Effect

\* What goes with w is below windows, and not below the root.
LEMMA GoneAreBelow ==
  ASSUME DisplayTypeOK, NEW w \in Window
  PROVE  /\ Reach({w}, XChildren) \subseteq Window /\ w \in Reach({w}, XChildren)
         /\ \A v \in Reach({w}, XChildren) \ {w} : v \notin TopLevel
<1>1. \A v \in Window : XChildren[v] \subseteq Window
  BY DEF XChildren
<1>2. Reach({w}, XChildren) \subseteq Window /\ w \in Reach({w}, XChildren)
  BY <1>1, ReachIsClosed
<1>3. ASSUME NEW v \in Reach({w}, XChildren) \ {w}
      PROVE  v \notin TopLevel
  <2>1. PICK u \in Reach({w}, XChildren) : v \in XChildren[u]
    BY <1>1, <1>3, ReachedByStep
  <2>2. u \in Window /\ xParent[v] = u
    BY <1>2, <2>1 DEF XChildren
  <2> QED BY <2>2, TreeAssumption DEF TopLevel
<1> QED BY <1>2, <1>3

LEMMA XDestroyEffect ==
  ASSUME DisplayTypeOK, NEW w \in Window, XDestroy(w)
  PROVE  \E es : Effect(w, es)
<1> DEFINE m == <<Ev("unmap", w, Null)>>
           es == IF w \in TopLevel \cap xMapped THEN m ELSE <<>>
           gone == Reach({w}, XChildren)
<1>1. IsOne(m, "unmap", w)
  BY OneEvent
<1> HIDE DEF m
<1>2. /\ es \in Seq(Event) /\ \A i \in 1..Len(es) : es[i].window = w
      /\ Displayable(w) => Pends(es, w, {"map", "unmap", "reparent"})
  <2>1. CASE w \in TopLevel \cap xMapped
    <3>1. es = m
      BY <2>1
    <3> HIDE DEF es
    <3> QED BY <1>1, <3>1 DEF IsOne
  <2>2. CASE w \notin TopLevel \cap xMapped
    <3>1. es = <<>> /\ ~Displayable(w)
      BY <2>2 DEF Displayable
    <3> HIDE DEF es
    <3> QED BY <2>2, <3>1, NoEvent
  <2> QED BY <2>1, <2>2
<1>3. events' = IF selected THEN events \o es ELSE events
  BY DEF XDestroy, Report, m
<1> HIDE DEF es
<1>4. /\ xParent' = [v \in Window |-> IF v \in gone THEN Null ELSE xParent[v]]
      /\ xMapped' = xMapped \ gone
      /\ xReports' = [v \in Window |-> IF v \in gone THEN 0 ELSE xReports[v]]
      /\ xOff' = xOff /\ moves' = moves /\ selected' = selected
      /\ UNCHANGED engineVars /\ changes' = changes + 1
      /\ missed' = IF selected THEN missed ELSE missed \cup gone
  BY DEF XDestroy, Change, Unnoticed
<1>5. gone \subseteq Window /\ w \in gone /\ \A v \in gone \ {w} : v \notin TopLevel
  BY GoneAreBelow
<1> HIDE DEF gone
<1>6. \A v \in gone : ~Shown(v)' /\ ~Displayable(v)'
  BY <1>4, <1>5 DEF Shown, Displayable
<1>7. \A v \in Window \ gone : (Shown(v)' <=> Shown(v))
  BY <1>4, <1>5, TreeAssumption DEF Shown, TopLevel
<1>8. \A v \in Window \ {w} : (Shown(v)' <=> Shown(v)) /\ (v \in xOff' <=> v \in xOff)
  BY <1>4, <1>5, <1>6, <1>7 DEF Shown
<1>9. selected \/ w \in missed'
  BY <1>4, <1>5
<1>10. Reports(w, es)
  BY <1>2, <1>3 DEF Reports
<1>11. ChangesTypes
  <2>1. missed \subseteq missed' /\ missed' \subseteq Window /\ xMapped' \subseteq Window
    BY <1>4, <1>5 DEF DisplayTypeOK
  <2>2. xParent' \in [Window -> Window \cup {Root, Null}] /\ xReports' \in [Window -> Nat]
    BY <1>4 DEF DisplayTypeOK
  <2>3. \A v \in Window : Exists(v)' => Exists(v) /\ xReports'[v] = xReports[v]
    BY <1>4 DEF Exists
  <2> QED BY <1>4, <2>1, <2>2, <2>3 DEF ChangesTypes, DisplayTypeOK
<1>12. ChangesOnly(w, es)
  BY <1>2, <1>4, <1>5, <1>6, <1>8, <1>9 DEF ChangesOnly
<1> QED BY <1>10, <1>11, <1>12 DEF Effect

LEMMA OfOneWindow ==
  ASSUME NEW s \in Seq(Event), NEW t \in Seq(Event), NEW w,
         \A i \in 1..Len(s) : s[i].window = w, \A i \in 1..Len(t) : t[i].window = w
  PROVE  s \o t \in Seq(Event) /\ \A i \in 1..Len(s \o t) : (s \o t)[i].window = w
<1>1. s \o t \in Seq(Event) /\ Len(s \o t) = Len(s) + Len(t)
  OBVIOUS
<1>2. ASSUME NEW i \in 1..Len(s \o t) PROVE (s \o t)[i].window = w
  <2>1. CASE i <= Len(s)
    BY <1>1, <2>1
  <2>2. CASE ~(i <= Len(s))
    <3>1. i - Len(s) \in 1..Len(t) /\ (s \o t)[i] = t[i - Len(s)]
      BY <1>1, <2>2
    <3> QED BY <3>1
  <2> QED BY <2>1, <2>2
<1> QED BY <1>1, <1>2

\* An event, or none.
LEMMA OneOrNone ==
  ASSUME NEW t \in {"map", "unmap", "reparent", "configure"}, NEW w \in Window,
         NEW m, IsOne(m, t, w), NEW c, NEW s, s = IF c THEN m ELSE <<>>
  PROVE  /\ s \in Seq(Event) /\ \A i \in 1..Len(s) : s[i].window = w
         /\ c => IsOne(s, t, w)
<1>1. CASE c
  BY <1>1 DEF IsOne
<1>2. CASE ~c
  <2>1. s = <<>>
    BY <1>2
  <2> QED BY <1>2, <2>1, NoEvent
<1> QED BY <1>1, <1>2

LEMMA XReparentEffect ==
  ASSUME DisplayTypeOK, NEW w \in Window, NEW p \in Window \cup {Root}, XReparent(w, p)
  PROVE  \E es : Effect(w, es)
<1> DEFINE a1 == <<Ev("unmap", w, Null)>>
           b1 == <<Ev("reparent", w, p)>>
           c1 == <<Ev("map", w, Null)>>
           a == IF w \in TopLevel \cap xMapped THEN a1 ELSE <<>>
           b == IF Root \in {xParent[w], p} THEN b1 ELSE <<>>
           c == IF p = Root /\ w \in xMapped THEN c1 ELSE <<>>
           ab == a \o b
           es == ab \o c
<1>1. IsOne(a1, "unmap", w) /\ IsOne(b1, "reparent", w) /\ IsOne(c1, "map", w)
  BY OneEvent
<1>2. events' = IF selected THEN events \o es ELSE events
  BY DEF XReparent, Report
<1> HIDE DEF a1, b1, c1
<1>3. a \in Seq(Event) /\ \A i \in 1..Len(a) : a[i].window = w
  BY <1>1, OneOrNone
<1>4. /\ b \in Seq(Event) /\ \A i \in 1..Len(b) : b[i].window = w
      /\ Root \in {xParent[w], p} => IsOne(b, "reparent", w)
  BY <1>1, OneOrNone
<1>5. /\ c \in Seq(Event) /\ \A i \in 1..Len(c) : c[i].window = w
      /\ p = Root /\ w \in xMapped => IsOne(c, "map", w)
  BY <1>1, OneOrNone
<1> HIDE DEF a, b, c
<1>6. ab \in Seq(Event) /\ \A i \in 1..Len(ab) : ab[i].window = w
  BY <1>3, <1>4, OfOneWindow
<1> HIDE DEF ab
<1>7. es \in Seq(Event) /\ \A i \in 1..Len(es) : es[i].window = w
  BY <1>5, <1>6, OfOneWindow
<1>8. Root \in {xParent[w], p} => Pends(es, w, {"map", "unmap", "reparent"})
  <2>1. SUFFICES ASSUME Root \in {xParent[w], p}
                 PROVE  Pends(es, w, {"map", "unmap", "reparent"})
    OBVIOUS
  <2>2. Pends(b, w, {"map", "unmap", "reparent"})
    BY <1>4, <2>1 DEF IsOne
  <2>3. Pends(ab, w, {"map", "unmap", "reparent"})
    BY <1>3, <1>4, <2>2, AppendPends DEF ab
  <2> QED BY <1>5, <1>6, <2>3, AppendPends
<1>9. p = Root /\ w \in xMapped => es # <<>> /\ es[Len(es)].type = "map"
  <2>1. SUFFICES ASSUME p = Root, w \in xMapped
                 PROVE  es # <<>> /\ es[Len(es)].type = "map"
    OBVIOUS
  <2>2. Len(c) = 1 /\ c[1].type = "map"
    BY <1>5, <2>1 DEF IsOne
  <2>3. Len(es) = Len(ab) + 1 /\ es[Len(ab) + 1] = c[1] /\ Len(ab) \in Nat
    <3>1. ab \in Seq(Event) /\ c \in Seq(Event) /\ Len(ab) \in Nat
      BY <1>5, <1>6
    <3> HIDE DEF ab, c
    <3>2. Len(ab \o c) = Len(ab) + 1
      BY <2>2, <3>1, ConcatProperties
    <3>3. (ab \o c)[Len(ab) + 1] = c[(Len(ab) + 1) - Len(ab)]
      BY <2>2, <3>1, <3>2, ConcatProperties
    <3> QED BY <3>1, <3>2, <3>3
  <2> HIDE DEF es
  <2>4. es # <<>>
    BY <1>7, <2>3
  <2> QED BY <2>2, <2>3, <2>4
<1> HIDE DEF es
<1>10. /\ xParent' = [xParent EXCEPT ![w] = p] /\ p # xParent[w] /\ Exists(w)
       /\ xMapped' = xMapped
       /\ xReports' = xReports
       /\ xOff' = xOff /\ moves' = moves /\ selected' = selected
       /\ UNCHANGED engineVars /\ changes' = changes + 1
       /\ missed' = IF selected THEN missed ELSE missed \cup {w}
  BY DEF XReparent, Change, Unnoticed
<1>11. xParent'[w] = p /\ \A v \in Window \ {w} : xParent'[v] = xParent[v]
  BY <1>10 DEF DisplayTypeOK
<1>12. \A v \in Window \ {w} : Shown(v)' <=> Shown(v)
  BY <1>10, <1>11 DEF Shown, TopLevel
<1>13. Shown(w)' => ~Shown(w) /\ p = Root /\ w \in xMapped
  BY <1>10, <1>11 DEF Shown, TopLevel
<1>14. Root \notin {xParent[w], p} => (Displayable(w)' <=> Displayable(w))
  BY <1>10, <1>11 DEF Displayable, TopLevel
<1>15. selected \/ w \in missed'
  BY <1>10
<1>16. Reports(w, es)
  BY <1>2, <1>7 DEF Reports
<1>17. ChangesTypes
  <2>1. missed \subseteq missed' /\ missed' \subseteq Window
    BY <1>10 DEF DisplayTypeOK
  <2>2. xParent' \in [Window -> Window \cup {Root, Null}]
    BY <1>10 DEF DisplayTypeOK
  <2>3. \A v \in Window : Exists(v)' => Exists(v) /\ xReports'[v] = xReports[v]
    BY <1>10, <1>11 DEF Exists
  <2> QED BY <1>10, <2>1, <2>2, <2>3 DEF ChangesTypes, DisplayTypeOK
<1>18. ChangesOnly(w, es)
  BY <1>8, <1>9, <1>10, <1>12, <1>13, <1>14, <1>15 DEF ChangesOnly
<1> QED BY <1>16, <1>17, <1>18 DEF Effect

\* Every change of the X server is a change of one window.
LEMMA XChangeEffect ==
  ASSUME DisplayTypeOK, XChange
  PROVE  \E w \in Window : \E es : Effect(w, es)
<1>1. PICK w \in Window :
        \/ XMap(w) \/ XUnmap(w) \/ XDestroy(w) \/ XMove(w)
        \/ \E p \in Window \cup {Root} : XReparent(w, p)
  BY DEF XChange
<1>2. \E es : Effect(w, es)
  BY <1>1, XMapEffect, XUnmapEffect, XDestroyEffect, XMoveEffect, XReparentEffect
<1> QED BY <1>2

LEMMA DisplayableIs ==
  ASSUME NEW w
  PROVE  /\ Displayable(w) <=> Shown(w) /\ w \notin xOff
         /\ Displayable(w)' <=> Shown(w)' /\ w \notin xOff'
BY DEF Displayable, Shown

LEMMA XChangeStep ==
  ASSUME DisplayInv, XChange
  PROVE  DisplayInv'
<1>1. PICK w \in Window : \E es : Effect(w, es)
  BY XChangeEffect DEF DisplayInv
<1>2. PICK es : Effect(w, es)
  BY <1>1
<1>3. /\ es \in Seq(Event) /\ \A i \in 1..Len(es) : es[i].window = w
      /\ events' = IF selected THEN events \o es ELSE events
      /\ selected' = selected /\ UNCHANGED engineVars
  BY <1>2 DEF Effect, Reports, ChangesTypes
<1>4. /\ known' = known /\ parent' = parent /\ children' = children
      /\ viewable' = viewable /\ watched' = watched /\ visible' = visible
      /\ dirty' = dirty /\ fault' = fault
  BY <1>3 DEF engineVars, treeVars
<1>5. /\ DisplayTypeOK /\ events \in Seq(Event)
      /\ visible \subseteq known
  BY DEF DisplayInv, DisplayTypeOK, TreeInv
<1>6. DisplayTypeOK'
  <2>1. events' \in Seq(Event)
    BY <1>3, <1>5
  <2> QED BY <1>2, <1>3, <1>4, <1>5, <2>1 DEF Effect, ChangesTypes, DisplayTypeOK
<1>7. WatchInv'
  <2>1. \A v \in Window : Exists(v)' => Exists(v) /\ xReports'[v] = xReports[v]
    BY <1>2 DEF Effect, ChangesTypes
  <2> QED BY <1>4, <1>5, <2>1 DEF DisplayInv, DisplayTypeOK, WatchInv
<1>8. TreeInv'
  BY <1>4 DEF DisplayInv, TreeInv, ParentListsChild
<1>9. /\ ChangesOnly(w, es) /\ missed \subseteq missed'
  BY <1>2 DEF Effect, ChangesTypes
<1>10. \A v \in Window \ {w} : (Displayable(v)' <=> Displayable(v)) /\ (Shown(v)' <=> Shown(v))
                                /\ (v \in xOff' <=> v \in xOff)
  BY <1>9, DisplayableIs DEF ChangesOnly
<1>11. EarlyInv'
  <2>1. SUFFICES ASSUME ~selected PROVE EarlyInv'
    BY <1>3 DEF EarlyInv
  <2>2. events = <<>> /\ ~dirty /\ known = visible /\ known \subseteq children[Root]
        /\ \A v \in Window \ missed : v \in visible <=> Displayable(v)
    BY <2>1 DEF DisplayInv, EarlyInv
  <2>3. \A v \in Window \ missed' : v \in visible <=> Displayable(v)'
    BY <1>9, <1>10, <2>1, <2>2 DEF ChangesOnly
  <2> QED BY <1>3, <1>4, <2>1, <2>2, <2>3 DEF EarlyInv
<1>12. Accounted'
  <2>1. SUFFICES ASSUME selected, fault = "none", NEW v \in Window, Shown(v)'
                 PROVE  \/ Comes(events', v)
                        \/ /\ Stays(events', v)
                           /\ v \in known => v \in children[Root]
                           /\ v \notin known /\ v \notin xOff' => v \in missed'
    BY <1>3, <1>4 DEF Accounted, Comes, Stays, Leaves
  <2>2. events' = events \o es
    BY <1>3, <2>1
  <2>3. CASE v = w /\ ~Shown(v)
    <3>1. es # <<>> /\ es[Len(es)].type = "map"
      BY <1>9, <2>1, <2>3 DEF ChangesOnly
    <3>2. es[Len(es)].window = v
      BY <1>3, <2>3, <3>1
    <3> QED BY <1>3, <1>5, <2>2, <3>1, <3>2, AppendMap
  <2>4. CASE v # w \/ Shown(v)
    <3>1. Shown(v)
      BY <1>10, <2>1, <2>4
    <3>2. \A i \in 1..Len(es) : ~Leaves(es[i], v)
      <4>1. CASE v # w
        BY <1>3, <4>1 DEF Leaves
      <4>2. CASE v = w
        BY <1>9, <2>1, <3>1, <4>2 DEF ChangesOnly
      <4> QED BY <4>1, <4>2
    <3>3. (Comes(events, v) => Comes(events', v)) /\ (Stays(events, v) => Stays(events', v))
      BY <1>3, <1>5, <2>2, <3>2, AppendKeeps
    <3>4. v \notin known /\ v \notin xOff' => v \notin xOff \/ v \in missed'
      BY <1>5, <1>9, <1>10 DEF ChangesOnly
    <3>5. \/ Comes(events, v)
          \/ /\ Stays(events, v)
             /\ v \in known => v \in children[Root]
             /\ v \notin known /\ v \notin xOff => v \in missed
      BY <2>1, <3>1 DEF DisplayInv, Accounted
    <3> QED BY <1>9, <3>3, <3>4, <3>5
  <2> QED BY <2>3, <2>4
<1>13. Corrected'
  <2>1. SUFFICES ASSUME selected, fault = "none", NEW v \in Window \ missed'
                 PROVE  \/ v \in visible <=> Displayable(v)'
                        \/ dirty
                        \/ Pends(events', v, {"map", "unmap", "reparent"})
                        \/ v \in visible /\ Pends(events', v, {"configure"})
    BY <1>3, <1>4 DEF Corrected, Pends
  <2>2. events' = events \o es /\ v \in Window \ missed
    BY <1>3, <1>9, <2>1
  <2>3. \A types : (Pends(events, v, types) => Pends(events', v, types))
                   /\ (Pends(es, v, types) => Pends(events', v, types))
    BY <1>3, <1>5, <2>2, AppendPends
  <2>4. \/ v \in visible <=> Displayable(v)
        \/ dirty
        \/ Pends(events, v, {"map", "unmap", "reparent"})
        \/ v \in visible /\ Pends(events, v, {"configure"})
    BY <2>1, <2>2 DEF DisplayInv, Corrected
  <2>5. \/ Displayable(v)' <=> Displayable(v)
        \/ Pends(es, v, {"map", "unmap", "reparent"})
        \/ v \in visible /\ Pends(es, v, {"configure"})
    BY <1>9, <1>10, <2>1 DEF ChangesOnly
  <2> QED BY <2>3, <2>4, <2>5
<1> QED BY <1>6, <1>7, <1>8, <1>11, <1>12, <1>13 DEF DisplayInv

LEMMA SelectStep ==
  ASSUME DisplayInv, SelectEvents
  PROVE  DisplayInv'
<1>1. /\ ~selected /\ selected' = TRUE /\ UNCHANGED <<xParent, xMapped, xOff, changes, moves>>
      /\ UNCHANGED <<xReports, events, known, parent, children, viewable, watched, visible, dirty, fault>>
      /\ missed' = missed
  BY DEF SelectEvents, xVars, engineVars, treeVars
<1>2. /\ events = <<>> /\ ~dirty /\ known = visible /\ known \subseteq children[Root]
      /\ \A v \in Window \ missed : v \in visible <=> Displayable(v)
  BY <1>1 DEF DisplayInv, EarlyInv
<1>3. \A v \in Window : (Displayable(v)' <=> Displayable(v)) /\ (Shown(v)' <=> Shown(v))
  BY <1>1 DEF Displayable, Shown, TopLevel
<1>4. DisplayTypeOK' /\ WatchInv' /\ TreeInv' /\ EarlyInv'
  BY <1>1 DEF DisplayInv, DisplayTypeOK, WatchInv, Exists, TreeInv, ParentListsChild, EarlyInv
<1>5. Accounted'
  <2>1. \A v \in Window : Stays(events', v)
    BY <1>1, <1>2 DEF Stays
  <2>2. \A v \in Window : Shown(v)' /\ v \notin known /\ v \notin xOff => v \in missed
    BY <1>2, <1>3, DisplayableIs
  <2> QED BY <1>1, <1>2, <2>1, <2>2 DEF Accounted
<1>6. Corrected'
  BY <1>1, <1>2, <1>3 DEF Corrected
<1> QED BY <1>4, <1>5, <1>6 DEF DisplayInv

-----------------------------------------------------------------------------
(* Handlers of the events *)

LEMMA NextEvent ==
  ASSUME DisplayInv, NEW type, NEW w, IsNext(type, w)
  PROVE  /\ selected /\ fault = "none" /\ events # <<>> /\ events \in Seq(Event)
         /\ events' = Tail(events) /\ Tail(events) \in Seq(Event)
         /\ Head(events) \in Event /\ Head(events).type = type /\ Head(events).window = w
<1>1. events # <<>> /\ events \in Seq(Event) /\ events' = Tail(events) /\ fault = "none"
      /\ Head(events).type = type /\ Head(events).window = w
  BY DEF DisplayInv, DisplayTypeOK, IsNext
<1>2. selected
  BY <1>1 DEF DisplayInv, EarlyInv
<1>3. Tail(events) \in Seq(Event) /\ Head(events) \in Event
  BY <1>1
<1> QED BY <1>1, <1>2, <1>3

\* Nobody is lost from the engine's tree but by an event of its own.
LEMMA HandlerAccounts ==
  ASSUME DisplayInv, NEW type, NEW w, IsNext(type, w),
         UNCHANGED <<xVars, selected, missed>>,
         fault' = "none" =>
           /\ \A v \in known \cap children[Root] :
                ~Leaves(Head(events), v) => v \in known' /\ v \in children'[Root]
           /\ \A v \in Window : Shown(v) /\ v \notin known /\ v \in known' => v \in children'[Root]
           /\ type = "map" /\ Shown(w) => w \in known' /\ w \in children'[Root]
  PROVE  Accounted'
<1>1. /\ selected /\ fault = "none" /\ events # <<>> /\ events \in Seq(Event)
      /\ events' = Tail(events) /\ Head(events).type = type /\ Head(events).window = w
  BY NextEvent
<1>2. xParent' = xParent /\ xMapped' = xMapped /\ xOff' = xOff /\ missed' = missed
  BY DEF xVars
<1>3. SUFFICES ASSUME fault' = "none", NEW v \in Window, Shown(v)
               PROVE  \/ Comes(events', v)
                      \/ /\ Stays(events', v)
                         /\ v \in known' => v \in children'[Root]
                         /\ v \notin known' /\ v \notin xOff => v \in missed
  BY <1>2 DEF Accounted, Shown, TopLevel, Comes, Stays, Leaves
<1>4. \/ Comes(events, v)
      \/ /\ Stays(events, v)
         /\ v \in known => v \in children[Root]
         /\ v \notin known /\ v \notin xOff => v \in missed
  BY <1>1, <1>3 DEF DisplayInv, Accounted
<1>5. CASE Comes(events, v)
  <2>1. \/ Comes(events', v)
        \/ Head(events).window = v /\ Head(events).type = "map" /\ Stays(events', v)
    BY <1>1, <1>5, TailKeeps
  <2> QED BY <1>1, <1>3, <2>1
<1>6. CASE Stays(events, v) /\ (v \in known => v \in children[Root])
                           /\ (v \notin known /\ v \notin xOff => v \in missed)
  <2>1. Stays(events', v)
    BY <1>1, <1>6, TailKeeps
  <2>2. ~Leaves(Head(events), v)
    <3>1. 1 \in 1..Len(events) /\ Head(events) = events[1]
      BY <1>1
    <3> QED BY <1>6, <3>1 DEF Stays
  <2> QED BY <1>3, <1>6, <2>1, <2>2
<1> QED BY <1>4, <1>5, <1>6

\* A window that has just been handled is taken out of the list or put into it soon.
LEMMA HandlerCorrects ==
  ASSUME DisplayInv, NEW type, NEW w, IsNext(type, w), selected' = selected, dirty' = TRUE
  PROVE  EarlyInv' /\ Corrected'
<1>1. selected
  BY NextEvent
<1> QED BY <1>1 DEF EarlyInv, Corrected

\* What createWindowInTree does to the tree.
LEMMA CreateEffect ==
  ASSUME DisplayTypeOK, NEW w \in Window, CreateWindowInTree(w)
  PROVE  /\ known \subseteq known' /\ known' \subseteq Window /\ viewable' \subseteq Window
         /\ parent' \in [Window -> Window \cup {Root, Null}]
         /\ children' \in [Window \cup {Root} -> SUBSET Window]
         /\ \A p \in Window \cup {Root} : children[p] \subseteq children'[p]
         /\ \A v \in Window :
              \/ parent'[v] = parent[v]
              \/ v \in known' /\ parent'[v] \in known' \cup {Root} /\ v \in children'[parent'[v]]
         /\ \A v \in known' \ known : xParent[v] = Root => v \in children'[Root]
         /\ Shown(w) => w \in known' /\ (w \notin known \/ xParent[w] = Root => w \in children'[Root])
<1> USE TreeAssumption
<1>1. CASE Exists(w) /\ (w \in known \/ Viewable(w))
           /\ LET S == Visited(TopOf(w)) IN
                /\ Adopt(S, known \cup S \cup {Root})
                /\ known' = known \cup S
                /\ viewable' = viewable \cup (S \ known)
  <2> DEFINE S == Visited(TopOf(w))
             new == {v \in S : xParent[v] \in known \cup S \cup {Root}
                               /\ v \notin children[xParent[v]]}
  <2>1. S \subseteq Window
    BY DEF Visited, Reach
  <2>2. Shown(w) => w \in S
    <3>1. SUFFICES ASSUME Shown(w) PROVE w \in S
      OBVIOUS
    <3> DEFINE climbs == [v \in Window |-> {p \in XParents[v] : p \notin known /\ Viewable(p)}]
               visits == [v \in Window |-> {u \in XChildren[v] : u \in known \/ Viewable(u)}]
    <3>2. climbs[w] = {}
      BY <3>1 DEF XParents, Shown, TopLevel
    <3>3. /\ \A v \in Window : climbs[v] \subseteq Window
          /\ \A v \in Window : visits[v] \subseteq Window
      BY DEF XParents, XChildren
    <3> HIDE DEF climbs, visits
    <3>4. Reach({w}, climbs) = {w}
      <4>1. Reach({w}, climbs) \subseteq {w}
        BY <3>2, ReachIsLeast
      <4>2. w \in Reach({w}, climbs)
        BY <3>3, ReachIsClosed
      <4> QED BY <4>1, <4>2
    <3>5. TopOf(w) = w
      <4>1. TopOf(w) = CHOOSE v \in Reach({w}, climbs) : climbs[v] = {}
        BY DEF TopOf, climbs
      <4> QED BY <3>2, <3>4, <4>1
    <3>6. Visited(w) = Reach({w}, visits)
      BY DEF Visited, visits
    <3>7. w \in Reach({w}, visits)
      BY <3>3, ReachIsClosed
    <3> QED BY <3>5, <3>6, <3>7
  <2>3. /\ known' = known \cup S /\ viewable' = viewable \cup (S \ known)
        /\ children' = [p \in Window \cup {Root} |-> children[p] \cup {v \in new : xParent[v] = p}]
        /\ parent' = [v \in Window |-> IF v \in new THEN xParent[v] ELSE parent[v]]
    BY <1>1 DEF Adopt
  <2> HIDE DEF S
  <2>4. new \subseteq Window /\ \A v \in new : xParent[v] \in known' \cup {Root} /\ v \in known'
    BY <2>1, <2>3
  <2>5. \A v \in S : xParent[v] = Root => v \in children'[Root]
    BY <2>1, <2>3
  <2>6. /\ known \subseteq known' /\ known' \subseteq Window /\ viewable' \subseteq Window
        /\ \A p \in Window \cup {Root} : children[p] \subseteq children'[p]
    BY <2>1, <2>3 DEF DisplayTypeOK
  <2>7. /\ \A v \in Window :
             \/ parent'[v] = parent[v]
             \/ v \in known' /\ parent'[v] \in known' \cup {Root} /\ v \in children'[parent'[v]]
    <3>1. SUFFICES ASSUME NEW v \in new
                   PROVE  parent'[v] \in known' \cup {Root} /\ v \in children'[parent'[v]]
      BY <2>3, <2>4
    <3>2. parent'[v] = xParent[v] /\ xParent[v] \in known' \cup {Root}
      BY <2>3, <2>4
    <3>3. xParent[v] \in Window \cup {Root}
      BY <2>6, <3>2
    <3> HIDE DEF new
    <3> QED BY <2>3, <3>2, <3>3
  <2>8. parent' \in [Window -> Window \cup {Root, Null}]
    <3>1. \A v \in Window : xParent[v] \in Window \cup {Root, Null} /\ parent[v] \in Window \cup {Root, Null}
      BY DEF DisplayTypeOK
    <3> HIDE DEF new
    <3> QED BY <2>3, <3>1
  <2>9. children' \in [Window \cup {Root} -> SUBSET Window]
    <3>1. \A p \in Window \cup {Root} : children[p] \cup {v \in new : xParent[v] = p} \in SUBSET Window
      BY <2>4 DEF DisplayTypeOK
    <3> HIDE DEF new
    <3> QED BY <2>3, <3>1
  <2> QED BY <2>2, <2>3, <2>5, <2>6, <2>7, <2>8, <2>9 DEF Shown, TopLevel
<1>2. CASE Exists(w) /\ w \notin known /\ ~Viewable(w) /\ UNCHANGED <<treeVars, viewable>>
  <2>1. ~Shown(w)
    <3>1. SUFFICES ASSUME Shown(w) PROVE Viewable(w)
      BY <1>2
    <3>2. XParents[w] = {}
      BY <3>1 DEF XParents, Shown, TopLevel
    <3>3. Above(w) \subseteq {w}
      BY <3>2, ReachIsLeast DEF Above
    <3> QED BY <1>2, <3>1, <3>3 DEF Viewable, Shown
  <2> QED BY <1>2, <2>1 DEF treeVars, DisplayTypeOK
<1>3. CASE ~Exists(w) /\ w \notin known /\ known' = known \cup {w} /\ viewable' = viewable \cup {w}
           /\ UNCHANGED <<parent, children>>
  BY <1>3 DEF Exists, Shown, TopLevel, DisplayTypeOK
<1>4. CASE ~Exists(w) /\ UNCHANGED <<treeVars, viewable>>
  BY <1>4 DEF Exists, Shown, TopLevel, treeVars, DisplayTypeOK
<1> QED BY <1>1, <1>2, <1>3, <1>4 DEF CreateWindowInTree

LEMMA OnMapStep ==
  ASSUME DisplayInv, NEW w \in Window, OnMap(w)
  PROVE  DisplayInv'
<1>1. /\ IsNext("map", w) /\ CreateWindowInTree(w) /\ dirty' = TRUE
      /\ UNCHANGED <<xVars, xReports, selected, watched, visible, fault, missed>>
  BY DEF OnMap
<1>2. /\ xParent' = xParent /\ xMapped' = xMapped /\ xOff' = xOff
      /\ changes' = changes /\ moves' = moves
      /\ xReports' = xReports /\ selected' = selected /\ watched' = watched
      /\ visible' = visible /\ fault' = fault /\ missed' = missed
  BY <1>1 DEF xVars
<1>3. DisplayTypeOK
  BY DEF DisplayInv
<1>4. /\ known \subseteq known' /\ known' \subseteq Window /\ viewable' \subseteq Window
      /\ parent' \in [Window -> Window \cup {Root, Null}]
      /\ children' \in [Window \cup {Root} -> SUBSET Window]
      /\ \A p \in Window \cup {Root} : children[p] \subseteq children'[p]
      /\ \A v \in Window :
           \/ parent'[v] = parent[v]
           \/ v \in known' /\ parent'[v] \in known' \cup {Root} /\ v \in children'[parent'[v]]
      /\ \A v \in known' \ known : xParent[v] = Root => v \in children'[Root]
      /\ Shown(w) => w \in known' /\ (w \notin known \/ xParent[w] = Root => w \in children'[Root])
  BY <1>1, <1>3, CreateEffect
<1>5. DisplayTypeOK'
  <2>1. events' \in Seq(Event)
    BY <1>1, NextEvent
  <2> QED BY <1>1, <1>2, <1>3, <1>4, <2>1 DEF DisplayTypeOK
<1>6. WatchInv'
  BY <1>2 DEF DisplayInv, WatchInv, Exists
<1>7. TreeInv'
  <2>1. TreeInv
    BY DEF DisplayInv
  <2>2. \A v \in Window \ known' : parent'[v] = Null
    BY <1>4, <2>1 DEF TreeInv
  <2>3. ASSUME NEW v \in known', parent'[v] # Null
        PROVE  v \in children'[parent'[v]] /\ parent'[v] \in known' \cup {Root}
    <3>1. SUFFICES ASSUME parent'[v] = parent[v]
                   PROVE  v \in children'[parent'[v]] /\ parent'[v] \in known' \cup {Root}
      BY <1>4
    <3>2. v \in known
      BY <1>4, <2>1, <2>3, <3>1 DEF TreeInv
    <3>3. v \in children[parent[v]] /\ parent[v] \in known \cup {Root}
      BY <2>1, <2>3, <3>1, <3>2 DEF TreeInv, ParentListsChild
    <3>4. known \subseteq Window
      BY <1>3 DEF DisplayTypeOK
    <3> QED BY <1>4, <3>1, <3>3, <3>4
  <2>4. visible' \subseteq known'
    BY <1>2, <1>4, <2>1 DEF TreeInv
  <2> QED BY <2>2, <2>3, <2>4 DEF TreeInv, ParentListsChild
<1>8. EarlyInv' /\ Corrected'
  BY <1>1, <1>2, HandlerCorrects
<1>9. Accounted'
  <2>1. \A v \in known \cap children[Root] : v \in known' /\ v \in children'[Root]
    BY <1>4
  <2>2. \A v \in Window : Shown(v) /\ v \notin known /\ v \in known' => v \in children'[Root]
    BY <1>4 DEF Shown, TopLevel
  <2>3. Shown(w) => w \in known' /\ w \in children'[Root]
    BY <1>4 DEF Shown, TopLevel
  <2> QED BY <1>1, <1>2, <2>1, <2>2, <2>3, HandlerAccounts
<1> QED BY <1>5, <1>6, <1>7, <1>8, <1>9 DEF DisplayInv

\* What removeWindowFromTree does, as long as nothing is undefined about it.
LEMMA RemoveEffect ==
  ASSUME DisplayTypeOK, TreeInv, NEW w \in Window, w \in known,
         RemoveWindowFromTree(w), fault' = "none"
  PROVE  \E gone \in SUBSET Window :
           /\ w \in gone /\ parent[w] # Null
           /\ visible \cap gone \subseteq {w}
           /\ \A v \in gone \ {w} : \E u \in gone : v \in children[u] /\ parent[v] = u
           /\ \A v \in gone : children[v] \subseteq gone
           /\ \A p \in Window \cup {Root} : \A v \in gone \cap children[p] : parent[v] = p
           /\ known' = known \ gone /\ visible' = visible \ {w}
           /\ viewable' = viewable \ gone /\ watched' = watched \ gone
           /\ parent' = [v \in Window |-> IF v \in gone THEN Null ELSE parent[v]]
           /\ children' = [p \in Window \cup {Root} |->
                             IF p \in gone THEN {} ELSE children[p] \ {w}]
           /\ xReports' = [v \in Window |->
                             IF v \in (gone \ {w}) \cap watched \cap viewable /\ Exists(v)
                             THEN xReports[v] - 1 ELSE xReports[v]]
<1> DEFINE S == Below(w)
<1>1. \A v \in Window : children[v] \subseteq Window
  BY DEF DisplayTypeOK
<1>2. /\ S \in SUBSET Window /\ children[w] \subseteq S
      /\ \A v \in S : children[v] \subseteq S
  BY <1>1, ReachIsClosed DEF Below
<1>3. /\ fault' = FaultOfRemoval(w, S)
      /\ known' = known \ (S \cup {w}) /\ visible' = visible \ {w}
      /\ viewable' = viewable \ (S \cup {w}) /\ watched' = watched \ (S \cup {w})
      /\ parent' = [v \in Window |-> IF v \in S \cup {w} THEN Null ELSE parent[v]]
      /\ children' = [p \in Window \cup {Root} |->
                        IF p \in S \cup {w} THEN {} ELSE children[p] \ {w}]
      /\ Withdraw(S)
  BY DEF RemoveWindowFromTree
<1>4. \A v \in S : \E u \in S \cup {w} : v \in children[u]
  <2>1. SUFFICES ASSUME NEW v \in S PROVE \E u \in S \cup {w} : v \in children[u]
    OBVIOUS
  <2>2. CASE v \in children[w]
    BY <2>2
  <2>3. CASE v \notin children[w]
    <3>1. v \in Reach(children[w], children)
      BY DEF Below
    <3>2. \E u \in Reach(children[w], children) : v \in children[u]
      BY <1>1, <2>3, <3>1, ReachedByStep
    <3> QED BY <3>2 DEF Below
  <2> QED BY <2>2, <2>3
<1> HIDE DEF S
<1>5. /\ w \notin S /\ parent[w] # Null /\ visible \cap S = {}
      /\ \A p \in Window \cup {Root} :
           (children[p] \cap (S \cup {w})) \ {v \in Window : parent[v] = p} = {}
  BY <1>3 DEF FaultOfRemoval
<1>6. \A v \in S : \E u \in S \cup {w} : v \in children[u] /\ parent[v] = u
  BY <1>2, <1>4, <1>5
<1>7. (S \cup {w}) \ {w} = S
  BY <1>5
<1>8. xReports' = [v \in Window |->
                     IF v \in ((S \cup {w}) \ {w}) \cap watched \cap viewable /\ Exists(v)
                     THEN xReports[v] - 1 ELSE xReports[v]]
  BY <1>3, <1>7 DEF Withdraw
<1>9. /\ S \cup {w} \in SUBSET Window
      /\ visible \cap (S \cup {w}) \subseteq {w}
      /\ \A v \in (S \cup {w}) \ {w} : \E u \in S \cup {w} : v \in children[u] /\ parent[v] = u
      /\ \A v \in S \cup {w} : children[v] \subseteq S \cup {w}
      /\ \A p \in Window \cup {Root} : \A v \in (S \cup {w}) \cap children[p] : parent[v] = p
  BY <1>2, <1>5, <1>6
<1> QED BY <1>3, <1>5, <1>8, <1>9

LEMMA OnUnmapStep ==
  ASSUME DisplayInv, NEW w \in Window, OnUnmap(w)
  PROVE  DisplayInv'
<1> USE TreeAssumption
<1>1. /\ IsNext("unmap", w) /\ dirty' = TRUE /\ UNCHANGED <<xVars, selected, missed>>
      /\ IF w \in known
         THEN RemoveWindowFromTree(w)
         ELSE UNCHANGED <<treeVars, viewable, watched, visible, fault, xReports>>
  BY DEF OnUnmap
<1>2. /\ xParent' = xParent /\ xMapped' = xMapped /\ xOff' = xOff
      /\ changes' = changes /\ moves' = moves
      /\ selected' = selected /\ missed' = missed /\ dirty' = TRUE
  BY <1>1 DEF xVars
<1>3. /\ DisplayTypeOK /\ WatchInv /\ TreeInv /\ events' \in Seq(Event)
      /\ Head(events).type = "unmap" /\ Head(events).window = w
  BY <1>1, NextEvent DEF DisplayInv
<1>4. EarlyInv' /\ Corrected'
  BY <1>1, <1>2, HandlerCorrects
<1>5. CASE w \notin known \/ fault' # "none"
  <2>1. /\ known' = known /\ parent' = parent /\ children' = children /\ viewable' = viewable
        /\ watched' = watched /\ visible' = visible /\ xReports' = xReports
        /\ fault' \in {"none", "cycle", "no_parent", "listed_twice", "visible_deleted"}
    BY <1>1, <1>3, <1>5 DEF RemoveWindowFromTree, FaultOfRemoval, treeVars, DisplayTypeOK
  <2>2. DisplayTypeOK'
    BY <1>2, <1>3, <2>1 DEF DisplayTypeOK
  <2>3. WatchInv' /\ TreeInv'
    BY <1>2, <1>3, <2>1 DEF WatchInv, TreeInv, ParentListsChild, Exists
  <2>4. fault' = "none" => w \notin known
    BY <1>5
  <2>5. Accounted'
    BY <1>1, <1>2, <2>1, HandlerAccounts
  <2> QED BY <1>4, <2>2, <2>3, <2>5 DEF DisplayInv
<1>6. CASE w \in known /\ fault' = "none"
  <2>1. PICK gone \in SUBSET Window :
           /\ w \in gone /\ parent[w] # Null
           /\ visible \cap gone \subseteq {w}
           /\ \A v \in gone \ {w} : \E u \in gone : v \in children[u] /\ parent[v] = u
           /\ \A v \in gone : children[v] \subseteq gone
           /\ \A p \in Window \cup {Root} : \A v \in gone \cap children[p] : parent[v] = p
           /\ known' = known \ gone /\ visible' = visible \ {w}
           /\ viewable' = viewable \ gone /\ watched' = watched \ gone
           /\ parent' = [v \in Window |-> IF v \in gone THEN Null ELSE parent[v]]
           /\ children' = [p \in Window \cup {Root} |->
                             IF p \in gone THEN {} ELSE children[p] \ {w}]
           /\ xReports' = [v \in Window |->
                             IF v \in (gone \ {w}) \cap watched \cap viewable /\ Exists(v)
                             THEN xReports[v] - 1 ELSE xReports[v]]
    BY <1>1, <1>3, <1>6, RemoveEffect
  <2>2. DisplayTypeOK'
    <3>1. xReports' \in [Window -> Nat]
      <4>1. \A v \in Window : xReports[v] \in Nat
        BY <1>3 DEF DisplayTypeOK
      <4>2. \A v \in watched : Exists(v) => xReports[v] >= 1
        BY <1>3 DEF WatchInv
      <4> QED BY <2>1, <4>1, <4>2
    <3>2. parent' \in [Window -> Window \cup {Root, Null}]
      BY <1>3, <2>1 DEF DisplayTypeOK
    <3>3. children' \in [Window \cup {Root} -> SUBSET Window]
      BY <1>3, <2>1 DEF DisplayTypeOK
    <3> QED BY <1>2, <1>3, <1>6, <2>1, <3>1, <3>2, <3>3 DEF DisplayTypeOK
  <2>3. WatchInv'
    <3>1. visible' \subseteq watched'
      BY <1>3, <2>1 DEF WatchInv
    <3>2. \A v \in watched' : v \in watched /\ v \in Window /\ xReports'[v] = xReports[v]
      BY <1>3, <2>1 DEF DisplayTypeOK
    <3> QED BY <1>2, <1>3, <3>1, <3>2 DEF WatchInv, Exists
  <2>4. TreeInv'
    <3>1. visible' \subseteq known'
      BY <1>3, <2>1 DEF TreeInv
    <3>2. \A v \in Window \ known' : parent'[v] = Null
      BY <1>3, <2>1 DEF TreeInv
    <3>3. ASSUME NEW v \in known', parent'[v] # Null
          PROVE  v \in children'[parent'[v]] /\ parent'[v] \in known' \cup {Root}
      <4>1. v \in known /\ v \in Window /\ v \notin gone /\ v # w /\ parent'[v] = parent[v]
        BY <1>3, <2>1, <3>3 DEF DisplayTypeOK
      <4>2. v \in children[parent[v]] /\ parent[v] \in known \cup {Root}
        BY <1>3, <3>3, <4>1 DEF TreeInv, ParentListsChild
      <4>3. parent[v] \notin gone /\ parent[v] \in Window \cup {Root}
        BY <1>3, <2>1, <4>1, <4>2 DEF DisplayTypeOK
      <4>4. children'[parent[v]] = children[parent[v]] \ {w}
        BY <2>1, <4>3
      <4> QED BY <2>1, <4>1, <4>2, <4>3, <4>4
    <3> QED BY <3>1, <3>2, <3>3 DEF TreeInv, ParentListsChild
  <2>5. Accounted'
    <3>1. ASSUME NEW v \in known \cap children[Root], ~Leaves(Head(events), v)
          PROVE  v \in known' /\ v \in children'[Root]
      <4>1. v # w
        BY <1>3, <3>1 DEF Leaves
      <4>2. v \notin gone
        <5>1. SUFFICES ASSUME v \in gone PROVE FALSE
          OBVIOUS
        <5>2. parent[v] = Root
          BY <2>1, <5>1
        <5>3. PICK u \in gone : parent[v] = u
          BY <2>1, <4>1, <5>1
        <5> QED BY <5>2, <5>3
      <4>3. children'[Root] = children[Root] \ {w}
        BY <2>1
      <4> QED BY <2>1, <4>1, <4>2, <4>3
    <3> QED BY <1>1, <1>2, <2>1, <3>1, HandlerAccounts
  <2> QED BY <1>4, <2>2, <2>3, <2>4, <2>5 DEF DisplayInv
<1> QED BY <1>5, <1>6

LEMMA OnReparentStep ==
  ASSUME DisplayInv, NEW w \in Window, OnReparent(w)
  PROVE  DisplayInv'
<1> DEFINE p == Head(events).parent
<1> USE TreeAssumption
<1>1. /\ IsNext("reparent", w) /\ dirty' = TRUE
      /\ UNCHANGED <<xVars, xReports, selected, known, viewable, watched, visible, fault, missed>>
      /\ IF w \in known THEN ReparentWindow(w, p) ELSE UNCHANGED <<parent, children>>
  BY DEF OnReparent
<1>2. /\ xParent' = xParent /\ xMapped' = xMapped /\ xOff' = xOff
      /\ changes' = changes /\ moves' = moves /\ xReports' = xReports /\ known' = known
      /\ viewable' = viewable /\ watched' = watched /\ visible' = visible /\ fault' = fault
      /\ selected' = selected /\ missed' = missed /\ dirty' = TRUE
  BY <1>1 DEF xVars
<1>3. /\ DisplayTypeOK /\ WatchInv /\ TreeInv /\ events' \in Seq(Event)
      /\ Head(events).type = "reparent" /\ Head(events).window = w
      /\ p \in Window \cup {Root, Null}
  BY <1>1, NextEvent DEF DisplayInv, Event
<1> HIDE DEF p
<1>4. EarlyInv' /\ Corrected' /\ WatchInv'
  BY <1>1, <1>2, <1>3, HandlerCorrects DEF WatchInv, Exists
<1>5. /\ parent' \in [Window -> Window \cup {Root, Null}]
      /\ children' \in [Window \cup {Root} -> SUBSET Window]
      /\ \A v \in Window \ {w} : parent'[v] = parent[v]
      /\ \A q \in Window \cup {Root} : \A v \in Window \ {w} : v \in children'[q] <=> v \in children[q]
      /\ w \in known /\ parent'[w] # Null =>
           parent'[w] \in known \cup {Root} /\ w \in children'[parent'[w]]
      /\ w \notin known => parent'[w] = parent[w]
  <2>1. CASE w \notin known
    BY <1>1, <1>3, <2>1 DEF DisplayTypeOK
  <2>2. CASE w \in known
    <3>1. /\ parent' = [parent EXCEPT ![w] = IF p \in known \cup {Root} THEN p ELSE Null]
          /\ children' = [q \in Window \cup {Root} |->
                            IF q = p /\ p \in known \cup {Root} THEN children[q] \cup {w}
                            ELSE IF q = parent[w] THEN children[q] \ {w} ELSE children[q]]
      BY <1>1, <2>2 DEF ReparentWindow
    <3>2. parent \in [Window -> Window \cup {Root, Null}] /\ known \subseteq Window
          /\ \A q \in Window \cup {Root} : children[q] \in SUBSET Window
      BY <1>3 DEF DisplayTypeOK
    <3>3. parent' \in [Window -> Window \cup {Root, Null}]
      BY <3>1, <3>2, <1>3
    <3>4. children' \in [Window \cup {Root} -> SUBSET Window]
      BY <3>1, <3>2
    <3>5. \A q \in Window \cup {Root} : \A v \in Window \ {w} : v \in children'[q] <=> v \in children[q]
      BY <3>1
    <3>6. ASSUME parent'[w] # Null
          PROVE  parent'[w] \in known \cup {Root} /\ w \in children'[parent'[w]]
      <4>1. parent'[w] = p /\ p \in known \cup {Root}
        BY <3>1, <3>2, <3>6
      <4>2. children'[p] = children[p] \cup {w}
        BY <3>1, <3>2, <4>1
      <4> QED BY <4>1, <4>2
    <3> QED BY <2>2, <3>1, <3>2, <3>3, <3>4, <3>5, <3>6
  <2> QED BY <2>1, <2>2
<1>6. DisplayTypeOK'
  BY <1>2, <1>3, <1>5 DEF DisplayTypeOK
<1>7. TreeInv'
  <2>1. \A v \in Window \ known : parent'[v] = Null
    BY <1>3, <1>5 DEF TreeInv
  <2>2. ASSUME NEW v \in known, parent'[v] # Null
        PROVE  v \in children'[parent'[v]] /\ parent'[v] \in known \cup {Root}
    <3>1. CASE v = w
      BY <1>5, <2>2, <3>1
    <3>2. CASE v # w
      <4>1. v \in Window /\ known \subseteq Window
        BY <1>3 DEF DisplayTypeOK
      <4>2. parent'[v] = parent[v]
        BY <1>5, <3>2, <4>1
      <4>3. v \in children[parent[v]] /\ parent[v] \in known \cup {Root}
        BY <1>3, <2>2, <4>2 DEF TreeInv, ParentListsChild
      <4> QED BY <1>5, <3>2, <4>1, <4>2, <4>3
    <3> QED BY <3>1, <3>2
  <2> QED BY <1>2, <1>3, <2>1, <2>2 DEF TreeInv, ParentListsChild
<1>8. Accounted'
  <2>1. \A v \in known \cap children[Root] :
           ~Leaves(Head(events), v) => v \in known' /\ v \in children'[Root]
    <3>1. SUFFICES ASSUME NEW v \in known \cap children[Root], ~Leaves(Head(events), v)
                   PROVE  v \in children'[Root]
      BY <1>2
    <3>2. v # w /\ v \in Window
      BY <1>3, <3>1 DEF Leaves, DisplayTypeOK
    <3> QED BY <1>5, <3>1, <3>2
  <2> QED BY <1>1, <1>2, <2>1, HandlerAccounts
<1> QED BY <1>4, <1>6, <1>7, <1>8 DEF DisplayInv

LEMMA OnConfigureStep ==
  ASSUME DisplayInv, NEW w \in Window, OnConfigure(w)
  PROVE  DisplayInv'
<1>1. /\ IsNext("configure", w) /\ dirty' = (dirty \/ w \in visible)
      /\ UNCHANGED <<xVars, xReports, selected, treeVars, viewable, watched, visible, fault, missed>>
  BY DEF OnConfigure
<1>2. /\ xParent' = xParent /\ xMapped' = xMapped /\ xOff' = xOff
      /\ changes' = changes /\ moves' = moves /\ xReports' = xReports
      /\ known' = known /\ parent' = parent /\ children' = children
      /\ viewable' = viewable /\ watched' = watched /\ visible' = visible /\ fault' = fault
      /\ selected' = selected /\ missed' = missed
  BY <1>1 DEF xVars, treeVars
<1>3. /\ DisplayTypeOK /\ WatchInv /\ TreeInv /\ events' = Tail(events) /\ events' \in Seq(Event)
      /\ events \in Seq(Event) /\ events # <<>>
      /\ Head(events).type = "configure" /\ Head(events).window = w /\ selected /\ fault = "none"
  BY <1>1, NextEvent DEF DisplayInv
<1>4. DisplayTypeOK' /\ WatchInv' /\ TreeInv' /\ EarlyInv'
  <2>1. dirty' \in BOOLEAN
    BY <1>1
  <2>2. DisplayTypeOK'
    BY <1>2, <1>3, <2>1 DEF DisplayTypeOK
  <2> QED BY <1>2, <1>3, <2>2 DEF WatchInv, Exists, TreeInv, ParentListsChild, EarlyInv
<1>5. Accounted'
  BY <1>1, <1>2, HandlerAccounts
<1>6. Corrected'
  <2>1. SUFFICES ASSUME NEW v \in Window \ missed
                 PROVE  \/ v \in visible <=> Displayable(v)
                        \/ dirty'
                        \/ Pends(events', v, {"map", "unmap", "reparent"})
                        \/ v \in visible /\ Pends(events', v, {"configure"})
    BY <1>2 DEF Corrected, Displayable, TopLevel, Pends
  <2>2. \/ v \in visible <=> Displayable(v)
        \/ dirty
        \/ Pends(events, v, {"map", "unmap", "reparent"})
        \/ v \in visible /\ Pends(events, v, {"configure"})
    BY <1>3, <2>1 DEF DisplayInv, Corrected
  <2>3. Pends(events, v, {"map", "unmap", "reparent"}) => Pends(events', v, {"map", "unmap", "reparent"})
    BY <1>3, TailKeeps
  <2>4. Pends(events, v, {"configure"}) => Pends(events', v, {"configure"}) \/ v = w
    BY <1>3, TailKeeps
  <2>5. dirty => dirty'
    BY <1>1
  <2>6. v = w /\ v \in visible => dirty'
    BY <1>1
  <2> QED BY <2>2, <2>3, <2>4, <2>5, <2>6
<1> QED BY <1>4, <1>5, <1>6 DEF DisplayInv

-----------------------------------------------------------------------------
(* The list of visible windows *)

LEMMA UpdateStep ==
  ASSUME DisplayInv, UpdateDisplay
  PROVE  DisplayInv'
<1> DEFINE shown == {w \in TopLevel \cap known : Displayable(w)}
           left == visible \ shown
           ignored == {w \in left \cap TopLevel : w \in viewable' /\ w \in watched}
<1> USE TreeAssumption
<1>1. /\ dirty /\ dirty' = FALSE /\ fault = "none"
      /\ xParent' = xParent /\ xMapped' = xMapped /\ xOff' = xOff
      /\ changes' = changes /\ moves' = moves /\ events' = events /\ selected' = selected
      /\ known' = known /\ parent' = parent /\ children' = children /\ fault' = fault
  BY DEF UpdateDisplay, xVars, treeVars
<1>2. /\ viewable' = (viewable \ ((TopLevel \cap known) \cup left))
                       \cup {w \in TopLevel \cap known : Viewable(w)}
      /\ visible' = shown
      /\ watched' = (watched \cup shown) \ ignored
      /\ xReports' = [w \in Window |->
                        IF w \in shown \ watched THEN xReports[w] + 1
                        ELSE IF w \in ignored THEN xReports[w] - 1 ELSE xReports[w]]
      /\ missed' = {w \in missed : ~(w \in shown <=> Displayable(w))}
  BY DEF UpdateDisplay, UpdateVisibleWindows
<1>3. DisplayTypeOK /\ WatchInv /\ TreeInv /\ selected
  BY <1>1 DEF DisplayInv, EarlyInv
<1>4. /\ shown \subseteq Window /\ shown \subseteq known /\ left \subseteq visible
      /\ \A w \in shown : Displayable(w)
      /\ \A w \in Window : Displayable(w) /\ w \in known => w \in shown
      /\ ignored \subseteq left /\ ignored \subseteq watched
      /\ \A w \in ignored : Exists(w)
  BY <1>3 DEF DisplayTypeOK, Displayable, TopLevel, Exists
<1>5. ignored \cap shown = {}
  BY <1>4
<1>6. viewable' \subseteq Window
  BY <1>2, <1>3 DEF DisplayTypeOK, TopLevel
<1> HIDE DEF shown, left, ignored
<1>8. \A w \in Window : xReports[w] \in Nat
  BY <1>3 DEF DisplayTypeOK
<1>9. \A w \in watched : Exists(w) => xReports[w] >= 1
  BY <1>3 DEF WatchInv
<1>10. DisplayTypeOK'
  <2>1. xReports' \in [Window -> Nat]
    <3>1. \A w \in ignored : xReports[w] >= 1
      BY <1>4, <1>9
    <3> QED BY <1>2, <1>8, <3>1
  <2>2. watched' \subseteq Window /\ missed' \subseteq Window /\ visible' \subseteq Window
    BY <1>2, <1>3, <1>4 DEF DisplayTypeOK
  <2> QED BY <1>1, <1>3, <1>6, <2>1, <2>2 DEF DisplayTypeOK
<1>11. WatchInv'
  <2>1. visible' \subseteq watched'
    BY <1>2, <1>5
  <2>2. ASSUME NEW w \in watched', Exists(w) PROVE xReports'[w] >= 1
    <3>1. w \in Window /\ w \notin ignored
      BY <1>2, <1>3, <1>4, <2>2 DEF DisplayTypeOK
    <3>2. CASE w \in watched
      <4>1. xReports'[w] = xReports[w]
        BY <1>2, <3>1, <3>2
      <4> QED BY <1>9, <2>2, <3>2, <4>1
    <3>3. CASE w \notin watched
      <4>1. w \in shown \ watched
        BY <1>2, <2>2, <3>3
      <4>2. xReports'[w] = xReports[w] + 1
        BY <1>2, <3>1, <4>1
      <4> QED BY <1>8, <3>1, <4>2
    <3> QED BY <3>2, <3>3
  <2> QED BY <1>1, <2>1, <2>2 DEF WatchInv, Exists
<1>12. TreeInv'
  BY <1>1, <1>2, <1>3, <1>4 DEF TreeInv, ParentListsChild
<1>13. EarlyInv'
  BY <1>1, <1>3 DEF EarlyInv
<1>14. \A w \in Window : Shown(w) =>
         \/ Comes(events, w)
         \/ /\ Stays(events, w)
            /\ w \in known => w \in children[Root]
            /\ w \notin known /\ w \notin xOff => w \in missed
  BY <1>1, <1>3 DEF DisplayInv, Accounted
<1>15. Accounted'
  <2>1. SUFFICES ASSUME NEW w \in Window, Shown(w), w \notin known, w \notin xOff, w \in missed
                 PROVE  w \in missed'
    BY <1>1, <1>14 DEF Accounted, Shown, TopLevel, Comes, Stays, Leaves
  <2>2. w \notin shown /\ Displayable(w)
    BY <1>4, <2>1 DEF Displayable, Shown
  <2> QED BY <1>2, <2>1, <2>2
<1>16. Corrected'
  <2>1. SUFFICES ASSUME NEW w \in Window \ missed', ~(w \in shown <=> Displayable(w))
                 PROVE  Pends(events, w, {"map", "unmap", "reparent"})
    BY <1>1, <1>2 DEF Corrected, Displayable, TopLevel, Pends
  <2>2. Displayable(w) /\ w \notin known /\ w \notin missed
    BY <1>2, <1>4, <2>1
  <2>3. Comes(events, w)
    BY <1>14, <2>1, <2>2 DEF Displayable, Shown
  <2> QED BY <2>3 DEF Comes, Pends
<1> QED BY <1>10, <1>11, <1>12, <1>13, <1>15, <1>16 DEF DisplayInv

LEMMA StutterStep ==
  ASSUME DisplayInv, UNCHANGED displayVars
  PROVE  DisplayInv'
<1>1. /\ xParent' = xParent /\ xMapped' = xMapped /\ xOff' = xOff
      /\ changes' = changes /\ moves' = moves /\ xReports' = xReports
      /\ known' = known /\ parent' = parent /\ children' = children
      /\ viewable' = viewable /\ watched' = watched /\ visible' = visible /\ fault' = fault
      /\ selected' = selected /\ missed' = missed /\ dirty' = dirty /\ events' = events
  BY DEF displayVars, xVars, engineVars, treeVars
<1>2. DisplayTypeOK' /\ WatchInv' /\ TreeInv' /\ EarlyInv'
  BY <1>1 DEF DisplayInv, DisplayTypeOK, WatchInv, TreeInv, EarlyInv, ParentListsChild,
              Exists, Displayable, TopLevel
<1>3. Accounted' /\ Corrected'
  BY <1>1 DEF DisplayInv, Accounted, Corrected, Shown, Displayable, TopLevel, Comes, Stays,
              Leaves, Pends
<1> QED BY <1>2, <1>3 DEF DisplayInv

-----------------------------------------------------------------------------
(* Theorems *)

\* The tree of the X server and the engine's stay in the relation of DisplayInv, whatever
\* the server changes while events are under way.
THEOREM DisplayInvariant == DisplaySpec => []DisplayInv
<1>1. DisplayInit => DisplayInv
  BY DisplayInit_Inv
<1>2. DisplayInv /\ [DisplayNext]_displayVars => DisplayInv'
  <2> SUFFICES ASSUME DisplayInv, [DisplayNext]_displayVars PROVE DisplayInv'
    OBVIOUS
  <2>1. CASE XChange
    BY <2>1, XChangeStep
  <2>2. CASE SelectEvents
    BY <2>2, SelectStep
  <2>3. ASSUME NEW w \in Window, OnMap(w) PROVE DisplayInv'
    BY <2>3, OnMapStep
  <2>4. ASSUME NEW w \in Window, OnUnmap(w) PROVE DisplayInv'
    BY <2>4, OnUnmapStep
  <2>5. ASSUME NEW w \in Window, OnReparent(w) PROVE DisplayInv'
    BY <2>5, OnReparentStep
  <2>6. ASSUME NEW w \in Window, OnConfigure(w) PROVE DisplayInv'
    BY <2>6, OnConfigureStep
  <2>7. CASE UpdateDisplay
    BY <2>7, UpdateStep
  <2>8. CASE UNCHANGED displayVars
    BY <2>8, StutterStep
  <2> QED BY <2>1, <2>2, <2>3, <2>4, <2>5, <2>6, <2>7, <2>8 DEF DisplayNext
<1> QED BY <1>1, <1>2, PTL DEF DisplaySpec

\* Every variable of the display stays in its range; what is undefined is one of four things.
THEOREM DisplayTypes == DisplaySpec => []DisplayTypeOK
<1>1. DisplayInv => DisplayTypeOK
  BY DEF DisplayInv
<1> QED BY <1>1, DisplayInvariant, PTL

\* Once its events are handled the engine shows the windows that are to be shown and no
\* other but those that it could not notice: with any number of windows, however late the
\* events come and whatever has become of the tree by then.
THEOREM ListIsAlwaysRight == DisplaySpec => []ListIsRight
<1>1. DisplayInv => ListIsRight
  <2> SUFFICES ASSUME DisplayInv, Settled, NEW w \in Window \ missed
               PROVE  w \in visible <=> Displayable(w)
    BY DEF ListIsRight
  <2>1. selected /\ events = <<>> /\ ~dirty /\ fault = "none"
    BY DEF Settled
  <2>2. \A types : ~Pends(events, w, types)
    BY <2>1 DEF Pends
  <2> QED BY <2>1, <2>2 DEF DisplayInv, Corrected
<1> QED BY <1>1, DisplayInvariant, PTL

\* A window of the list has a Damage object of the engine's, and one that still exists
\* reports to it, although removing, reparenting and unmapping windows withdraw them.
THEOREM VisibleIsAlwaysWatched == DisplaySpec => []VisibleIsWatched
<1>1. DisplayInv => VisibleIsWatched
  BY DEF DisplayInv, WatchInv, VisibleIsWatched
<1> QED BY <1>1, DisplayInvariant, PTL

\* The parent of a known window is known and lists it: no _parent leads to a window that
\* has been deleted.
THEOREM TreeHangsTogether == DisplaySpec => []ParentListsChild
<1>1. DisplayInv => ParentListsChild
  BY DEF DisplayInv, TreeInv
<1> QED BY <1>1, DisplayInvariant, PTL

=============================================================================
