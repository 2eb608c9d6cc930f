---------------------------- MODULE DamageProofs ----------------------------
(***************************************************************************)
(* What a client is shown, from the X server's events to the images: four  *)
(* specifications, each proved about in a part of its own.                 *)
(*                                                                         *)
(* EventFilter.  A damage event is dropped exactly when it should be.  The *)
(* filters kept at any time are a function of the log of X events, so the  *)
(* invariant compares them with the set that the handled part of the log   *)
(* leaves in force (StandsAt), which a new event never changes.            *)
(*                                                                         *)
(* WindowImages.  A client that displays something out of date has an      *)
(* image due.  The invariant is inductive together with the types and      *)
(* OutsidersShowNothing.                                                   *)
(*                                                                         *)
(* WindowDamage.  The areas kept cover what has changed and lie apart.     *)
(* The loop of addDamageArea is a recursive function: PassHolds shows its  *)
(* loop invariant Passed for every step, the least one at which it failed  *)
(* being impossible.                                                       *)
(*                                                                         *)
(* WindowCoverage.  The pointer is found on the window exactly when it is  *)
(* on a visible part of it: a point that a covering rectangle hides lies   *)
(* in a strip between two neighbouring edges, and the order of the         *)
(* intervals has a least element among those over the point.  The covered  *)
(* area is a sum of heights by widths of strips: each summand is at most   *)
(* the number of pixels of a part of its own, and the parts lie apart      *)
(* (SumOfParts), for the intervals of a strip as for the strips.           *)
(***************************************************************************)
EXTENDS WindowImages, EventFilter, WindowDamage, WindowCoverage,
        SequenceTheorems, FiniteSetTheorems, WellFoundedInduction, TLAPS

-----------------------------------------------------------------------------
(* Least numbers *)

LEMMA NatMin ==
  ASSUME NEW T, T \subseteq Nat, T # {}
  PROVE  \E x \in T : \A y \in T : x <= y
<1> DEFINE R == {ss \in Nat \X Nat : ss[1] < ss[2]}
<1>1. IsWellFoundedOn(R, Nat)
  BY NatLessThanWellFounded DEF OpToRel
<1> HIDE DEF R
<1>2. PICK x \in T : \A y \in T : <<y, x>> \notin R
  BY <1>1, WFMin
<1>3. ASSUME NEW y \in T PROVE x <= y
  <2>1. <<y, x>> \in Nat \X Nat
    BY <1>2
  <2>2. ~(y < x)
    BY <1>2, <2>1 DEF R
  <2> QED BY <1>2, <1>3, <2>2
<1> QED BY <1>2, <1>3

-----------------------------------------------------------------------------
(* The X event listener *)

LEMMA FirstIsLeast ==
  ASSUME NEW S, S \subseteq Nat, S # {}
  PROVE  First(S) \in S /\ \A k \in S : First(S) <= k
<1>1. \E n \in S : \A k \in S : n <= k
  BY NatMin
<1> QED BY <1>1 DEF First

\* Fewer filters than there should be stay fewer when the first of each is taken away.
LEMMA ClosedKeepsOrder ==
  ASSUME NEW O, O \subseteq Nat, NEW F, F \subseteq O
  PROVE  Closed(F) \subseteq Closed(O)
<1>1. CASE F = {}
  BY <1>1 DEF Closed
<1>2. CASE F # {}
  <2>1. /\ First(F) \in F /\ \A k \in F : First(F) <= k
        /\ First(O) \in O /\ \A k \in O : First(O) <= k
    BY <1>2, FirstIsLeast
  <2>2. \A k \in F \ {First(F)} : k # First(O)
    <3>1. SUFFICES ASSUME NEW k \in F, k # First(F), k = First(O) PROVE FALSE
      OBVIOUS
    <3>2. First(F) <= k /\ k <= First(F) /\ k \in Nat /\ First(F) \in Nat
      BY <2>1, <3>1
    <3> QED BY <3>1, <3>2
  <2> QED BY <1>2, <2>2 DEF Closed
<1> QED BY <1>1, <1>2

-----------------------------------------------------------------------------
(* The filters that would be in force *)

Of(e, w, s) == e.window = w /\ e.serial = s

\* The filters that would be in force for its window behind event e.
After(e) ==
  IF e.type = "configure" THEN e.open \cup {e.change}
  ELSE IF e.more THEN e.open ELSE Closed(e.open)

\* O are the filters for window w and serial s that would be in force after the first n
\* events of l.
StandsAt(l, n, w, s, O) ==
  \/ O = {} /\ \A j \in 1..n : ~Of(l[j], w, s)
  \/ \E i \in 1..n : /\ Of(l[i], w, s) /\ O = After(l[i])
                     /\ \A j \in (i + 1)..n : ~Of(l[j], w, s)

LEMMA StandsUnique ==
  ASSUME NEW l, NEW n \in Nat, NEW w, NEW s, NEW O, NEW P,
         StandsAt(l, n, w, s, O), StandsAt(l, n, w, s, P)
  PROVE  O = P
<1>1. CASE \A j \in 1..n : ~Of(l[j], w, s)
  BY <1>1 DEF StandsAt
<1>2. CASE \E j \in 1..n : Of(l[j], w, s)
  <2>1. PICK i \in 1..n : Of(l[i], w, s) /\ O = After(l[i]) /\ \A j \in (i + 1)..n : ~Of(l[j], w, s)
    BY <1>2 DEF StandsAt
  <2>2. PICK k \in 1..n : Of(l[k], w, s) /\ P = After(l[k]) /\ \A j \in (k + 1)..n : ~Of(l[j], w, s)
    BY <1>2 DEF StandsAt
  <2>3. i = k
    <3>1. ~(i < k)
      <4>1. i < k => k \in (i + 1)..n
        OBVIOUS
      <4> QED BY <2>1, <2>2, <4>1
    <3>2. ~(k < i)
      <4>1. k < i => i \in (k + 1)..n
        OBVIOUS
      <4> QED BY <2>1, <2>2, <4>1
    <3> QED BY <3>1, <3>2
  <2> QED BY <2>1, <2>2, <2>3
<1> QED BY <1>1, <1>2

\* Events of other windows and serials change nothing.
LEMMA StandsOn ==
  ASSUME NEW l, NEW m, NEW n \in Nat, NEW k \in Nat, n <= k, NEW w, NEW s, NEW O,
         StandsAt(l, n, w, s, O),
         \A j \in 1..n : m[j] = l[j],
         \A j \in (n + 1)..k : ~Of(m[j], w, s)
  PROVE  StandsAt(m, k, w, s, O)
<1>1. CASE O = {} /\ \A j \in 1..n : ~Of(l[j], w, s)
  <2>1. ASSUME NEW j \in 1..k PROVE ~Of(m[j], w, s)
    <3>1. j \in 1..n \/ j \in (n + 1)..k
      OBVIOUS
    <3> QED BY <1>1, <3>1
  <2> QED BY <1>1, <2>1 DEF StandsAt
<1>2. CASE \E i \in 1..n : /\ Of(l[i], w, s) /\ O = After(l[i])
                           /\ \A j \in (i + 1)..n : ~Of(l[j], w, s)
  <2>1. PICK i \in 1..n : /\ Of(l[i], w, s) /\ O = After(l[i])
                          /\ \A j \in (i + 1)..n : ~Of(l[j], w, s)
    BY <1>2
  <2>2. i \in 1..k /\ Of(m[i], w, s) /\ O = After(m[i])
    BY <2>1
  <2>3. ASSUME NEW j \in (i + 1)..k PROVE ~Of(m[j], w, s)
    <3>1. j \in (i + 1)..n \/ j \in (n + 1)..k
      OBVIOUS
    <3>2. j \in (i + 1)..n => j \in 1..n
      OBVIOUS
    <3> QED BY <2>1, <3>1, <3>2
  <2> QED BY <2>2, <2>3 DEF StandsAt
<1> QED BY <1>1, <1>2 DEF StandsAt

LEMMA StandsNext ==
  ASSUME NEW l, NEW n \in Nat, NEW w, NEW s, Of(l[n + 1], w, s)
  PROVE  StandsAt(l, n + 1, w, s, After(l[n + 1]))
<1>1. n + 1 \in 1..(n + 1) /\ ((n + 1) + 1)..(n + 1) = {}
  OBVIOUS
<1> QED BY <1>1 DEF StandsAt

-----------------------------------------------------------------------------
(* The log *)

\* Each event has the filters on it that would be in force when it is made; none has a
\* serial to come, and no two configure events are of one change.
LogOK(l, o, s, c) ==
  /\ l \in Seq(Event)
  /\ \A k \in 1..Len(l) : StandsAt(l, k - 1, l[k].window, l[k].serial, l[k].open)
  /\ \A w \in Window : StandsAt(l, Len(l), w, s, o[w])
  /\ \A k \in 1..Len(l) : l[k].serial <= s
  /\ \A k \in 1..Len(l) : l[k].type = "configure" => l[k].change <= c
  /\ \A i, k \in 1..Len(l) :
       l[i].type = "configure" /\ l[k].type = "configure" /\ l[i].change = l[k].change => i = k

\* A batch of damage events.
IsBatch(es, w, s, S, n) ==
  /\ es \in Seq(Event) /\ Len(es) = n
  /\ \A b \in 1..n : /\ Of(es[b], w, s) /\ es[b].type = "damage" /\ es[b].open = S
                     /\ es[b].more <=> b < n

LEMMA BatchLog ==
  ASSUME NEW l, NEW o \in [Window -> SUBSET Change], NEW s \in Nat, NEW c, LogOK(l, o, s, c),
         NEW w \in Window, NEW n \in Nat \ {0}, NEW es, IsBatch(es, w, s, o[w], n)
  PROVE  LogOK(l \o es, [o EXCEPT ![w] = Closed(@)], s, c)
<1> DEFINE m == l \o es
           p == [o EXCEPT ![w] = Closed(@)]
<1>1. l \in Seq(Event) /\ es \in Seq(Event) /\ Len(es) = n
  BY DEF LogOK, IsBatch
<1>2. /\ m \in Seq(Event) /\ Len(m) = Len(l) + n /\ Len(l) \in Nat /\ Len(m) \in Nat
      /\ \A i \in 1..Len(l) : m[i] = l[i]
      /\ \A b \in 1..n : m[Len(l) + b] = es[b]
  BY <1>1
<1> HIDE DEF m
<1>3. ASSUME NEW k \in 1..Len(m), k \notin 1..Len(l)
      PROVE  /\ k - Len(l) \in 1..n
             /\ Of(m[k], w, s) /\ m[k].type = "damage" /\ m[k].open = o[w]
             /\ m[k].more <=> k < Len(m)
  <2>1. k - Len(l) \in 1..n /\ k = Len(l) + (k - Len(l))
    BY <1>2, <1>3
  <2>2. m[k] = es[k - Len(l)]
    BY <1>2, <2>1
  <2>3. /\ Of(es[k - Len(l)], w, s) /\ es[k - Len(l)].type = "damage" /\ es[k - Len(l)].open = o[w]
        /\ es[k - Len(l)].more <=> k - Len(l) < n
    BY <2>1 DEF IsBatch
  <2>4. k - Len(l) < n <=> k < Len(m)
    BY <1>2
  <2> QED BY <2>1, <2>2, <2>3, <2>4
<1>4. ASSUME NEW k \in 1..Len(m)
      PROVE  StandsAt(m, k - 1, m[k].window, m[k].serial, m[k].open)
  <2>1. CASE k \in 1..Len(l)
    <3>1. StandsAt(l, k - 1, m[k].window, m[k].serial, m[k].open)
      BY <1>2, <2>1 DEF LogOK
    <3>2. k - 1 \in Nat /\ (\A j \in 1..(k - 1) : m[j] = l[j]) /\ ((k - 1) + 1)..(k - 1) = {}
      BY <1>2, <2>1
    <3> QED BY <3>1, <3>2, StandsOn
  <2>2. CASE k = Len(l) + 1
    <3>1. Of(m[k], w, s) /\ m[k].open = o[w]
      BY <1>2, <1>3, <2>2
    <3>2. StandsAt(l, Len(l), w, s, o[w])
      BY DEF LogOK
    <3>3. /\ \A j \in 1..Len(l) : m[j] = l[j]
          /\ Len(l) \in Nat /\ Len(l) <= Len(l)
          /\ \A j \in (Len(l) + 1)..Len(l) : ~Of(m[j], w, s)
      BY <1>2
    <3>4. StandsAt(m, Len(l), w, s, o[w])
      BY <3>2, <3>3, StandsOn
    <3> QED BY <1>2, <2>2, <3>1, <3>4 DEF Of
  <2>3. CASE k \notin 1..Len(l) /\ k # Len(l) + 1
    <3>1. k - 1 \in 1..Len(m) /\ k - 1 \notin 1..Len(l) /\ k - 1 < Len(m) /\ k - 1 \in Nat
          /\ k - 2 \in Nat /\ (k - 2) + 1 = k - 1
      BY <1>2, <2>3
    <3>2. /\ Of(m[k - 1], w, s) /\ m[k - 1].type = "damage" /\ m[k - 1].open = o[w]
          /\ m[k - 1].more
      BY <1>3, <3>1
    <3>3. After(m[k - 1]) = o[w]
      BY <3>2 DEF After
    <3>4. StandsAt(m, k - 1, w, s, After(m[k - 1]))
      BY <3>1, <3>2, StandsNext
    <3>5. Of(m[k], w, s) /\ m[k].open = o[w]
      BY <1>3, <2>3
    <3> QED BY <3>3, <3>4, <3>5 DEF Of
  <2> QED BY <2>1, <2>2, <2>3
<1>5. ASSUME NEW v \in Window
      PROVE  StandsAt(m, Len(m), v, s, p[v])
  <2>1. CASE v = w
    <3>1. Len(m) \in 1..Len(m) /\ Len(m) \notin 1..Len(l) /\ Len(m) - 1 \in Nat
          /\ (Len(m) - 1) + 1 = Len(m)
      BY <1>2
    <3>2. Of(m[Len(m)], w, s) /\ m[Len(m)].type = "damage" /\ m[Len(m)].open = o[w]
          /\ ~m[Len(m)].more
      BY <1>2, <1>3, <3>1
    <3>3. After(m[Len(m)]) = p[w]
      BY <3>2 DEF After
    <3> QED BY <2>1, <3>1, <3>2, <3>3, StandsNext
  <2>2. CASE v # w
    <3>1. StandsAt(l, Len(l), v, s, o[v])
      BY DEF LogOK
    <3>2. ASSUME NEW j \in (Len(l) + 1)..Len(m) PROVE ~Of(m[j], v, s)
      <4>1. j \in 1..Len(m) /\ j \notin 1..Len(l)
        BY <1>2
      <4> QED BY <1>3, <2>2, <4>1 DEF Of
    <3>3. /\ \A j \in 1..Len(l) : m[j] = l[j]
          /\ Len(l) \in Nat /\ Len(m) \in Nat /\ Len(l) <= Len(m)
      BY <1>2
    <3>4. StandsAt(m, Len(m), v, s, o[v])
      BY <3>1, <3>2, <3>3, StandsOn
    <3> QED BY <2>2, <3>4
  <2> QED BY <2>1, <2>2
<1>6. \A k \in 1..Len(m) : m[k].serial <= s
  <2>1. SUFFICES ASSUME NEW k \in 1..Len(m) PROVE m[k].serial <= s
    OBVIOUS
  <2>2. CASE k \in 1..Len(l)
    BY <1>2, <2>2 DEF LogOK
  <2>3. CASE k \notin 1..Len(l)
    BY <1>3, <2>3 DEF Of
  <2> QED BY <2>2, <2>3
<1>7. \A k \in 1..Len(m) : m[k].type = "configure" => k \in 1..Len(l) /\ m[k] = l[k]
  BY <1>2, <1>3
<1>8. \A k \in 1..Len(m) : m[k].type = "configure" => m[k].change <= c
  BY <1>7 DEF LogOK
<1>9. \A i, k \in 1..Len(m) :
        m[i].type = "configure" /\ m[k].type = "configure" /\ m[i].change = m[k].change => i = k
  BY <1>7 DEF LogOK
<1>10. LogOK(m, p, s, c)
  BY <1>2, <1>4, <1>5, <1>6, <1>8, <1>9 DEF LogOK
<1> QED BY <1>10 DEF m

LEMMA ConfigureLog ==
  ASSUME NEW l, NEW o \in [Window -> SUBSET Change], NEW s \in Nat, NEW c \in Nat, LogOK(l, o, s, c),
         NEW w \in Window, NEW e \in Event, Of(e, w, s), e.type = "configure", e.open = o[w],
         e.change = c + 1
  PROVE  LogOK(Append(l, e), [o EXCEPT ![w] = @ \cup {c + 1}], s, c + 1)
<1> DEFINE m == Append(l, e)
           p == [o EXCEPT ![w] = @ \cup {c + 1}]
<1>1. l \in Seq(Event)
  BY DEF LogOK
<1>2. /\ m \in Seq(Event) /\ Len(m) = Len(l) + 1 /\ Len(l) \in Nat /\ Len(m) \in Nat
      /\ \A i \in 1..Len(l) : m[i] = l[i]
      /\ m[Len(l) + 1] = e
  BY <1>1
<1> HIDE DEF m
<1>3. StandsAt(l, Len(l), w, s, o[w])
  BY DEF LogOK
<1>4. /\ \A j \in 1..Len(l) : m[j] = l[j]
      /\ Len(l) <= Len(l) /\ Len(l) <= Len(m) /\ Len(l) \in Nat /\ Len(m) \in Nat
      /\ \A j \in (Len(l) + 1)..Len(l) : ~Of(m[j], w, s)
  BY <1>2
<1>5. StandsAt(m, Len(l), w, s, o[w])
  BY <1>3, <1>4, StandsOn
<1>6. ASSUME NEW k \in 1..Len(m)
      PROVE  StandsAt(m, k - 1, m[k].window, m[k].serial, m[k].open)
  <2>1. CASE k \in 1..Len(l)
    <3>1. StandsAt(l, k - 1, m[k].window, m[k].serial, m[k].open)
      BY <1>2, <2>1 DEF LogOK
    <3>2. k - 1 \in Nat /\ (\A j \in 1..(k - 1) : m[j] = l[j]) /\ ((k - 1) + 1)..(k - 1) = {}
      BY <1>2, <2>1
    <3> QED BY <3>1, <3>2, StandsOn
  <2>2. CASE k = Len(l) + 1
    <3>1. m[k].window = w /\ m[k].serial = s /\ m[k].open = o[w] /\ k - 1 = Len(l)
      BY <1>2, <2>2 DEF Of
    <3> QED BY <1>5, <3>1
  <2> QED BY <1>2, <2>1, <2>2
<1>7. ASSUME NEW v \in Window
      PROVE  StandsAt(m, Len(m), v, s, p[v])
  <2>1. CASE v = w
    <3>1. After(e) = o[w] \cup {c + 1}
      BY DEF After
    <3>2. p[w] = o[w] \cup {c + 1}
      OBVIOUS
    <3>3. Of(m[Len(l) + 1], w, s) /\ After(m[Len(l) + 1]) = p[w]
      BY <1>2, <3>1, <3>2
    <3>4. StandsAt(m, Len(l) + 1, w, s, After(m[Len(l) + 1]))
      BY <1>2, <3>3, StandsNext
    <3> QED BY <1>2, <2>1, <3>3, <3>4
  <2>2. CASE v # w
    <3>1. StandsAt(l, Len(l), v, s, o[v])
      BY DEF LogOK
    <3>2. \A j \in (Len(l) + 1)..Len(m) : ~Of(m[j], v, s)
      BY <1>2, <2>2 DEF Of
    <3>3. StandsAt(m, Len(m), v, s, o[v])
      BY <1>4, <3>1, <3>2, StandsOn
    <3> QED BY <2>2, <3>3
  <2> QED BY <2>1, <2>2
<1>8. \A k \in 1..Len(m) : k = Len(l) + 1 \/ (k \in 1..Len(l) /\ m[k] = l[k])
  BY <1>2
<1>9. \A k \in 1..Len(m) : m[k].serial <= s
  BY <1>2, <1>8 DEF LogOK, Of
<1>10. \A k \in 1..Len(l) : l[k].type = "configure" => l[k].change <= c /\ l[k].change \in Nat
  <2>1. \A k \in 1..Len(l) : l[k] \in Event
    BY <1>1
  <2>2. \A k \in 1..Len(l) : l[k].change \in Nat
    BY <2>1, FilterAssumption DEF Event, Change
  <2> QED BY <2>2 DEF LogOK
<1>11. \A k \in 1..Len(m) : m[k].type = "configure" => m[k].change <= c + 1
  BY <1>2, <1>8, <1>10
<1>12. \A i, k \in 1..Len(m) :
         m[i].type = "configure" /\ m[k].type = "configure" /\ m[i].change = m[k].change => i = k
  <2>1. \A k \in 1..Len(l) : l[k].type = "configure" => l[k].change # c + 1
    BY <1>10
  <2> QED BY <1>2, <1>8, <2>1 DEF LogOK
<1>13. LogOK(m, p, s, c + 1)
  BY <1>2, <1>6, <1>7, <1>9, <1>11, <1>12 DEF LogOK
<1> QED BY <1>13 DEF m

LEMMA RequestLog ==
  ASSUME NEW l, NEW o, NEW s \in Nat, NEW c, LogOK(l, o, s, c)
  PROVE  LogOK(l, [w \in Window |-> {}], s + 1, c)
<1>1. \A k \in 1..Len(l) : l[k].serial \in Nat /\ l[k].serial <= s
  <2>1. \A k \in 1..Len(l) : l[k] \in Event
    BY DEF LogOK
  <2>2. \A k \in 1..Len(l) : l[k].serial \in Nat
    BY <2>1, FilterAssumption DEF Event
  <2> QED BY <2>2 DEF LogOK
<1>2. \A w \in Window : StandsAt(l, Len(l), w, s + 1, {})
  BY <1>1 DEF StandsAt, Of
<1> QED BY <1>1, <1>2 DEF LogOK

-----------------------------------------------------------------------------
(* The invariant *)

Filter == [window : Window, serial : 0..MaxSerial, change : Change, old : BOOLEAN]

FilterTypeOK ==
  /\ filtering \in BOOLEAN /\ flushing \in BOOLEAN
  /\ serial \in 0..MaxSerial /\ change \in 0..MaxChanges
  /\ log \in Seq(Event)
  /\ handled \in Nat /\ handled <= Len(log)
  /\ limit \in Nat /\ (flushing => limit <= Len(log))
  /\ filters \subseteq Filter
  /\ open \in [Window -> SUBSET Change]
  /\ owed \in [Window -> SUBSET (Change \X (1..MaxBoxes))]
  /\ dropped \subseteq 1..handled

\* The changes of which a filter for window w and serial s is kept.
InForce(w, s) == {f.change : f \in {f \in filters : f.window = w /\ f.serial = s}}

\* A filter for w and s was dropped for its age.
Aged(w, s) ==
  \E k \in 1..handled : log[k].type = "configure" /\ Of(log[k], w, s) /\ log[k].change \in expired

\* The filters that are kept are those that would be in force, or some have aged.
FiltersOK ==
  /\ ~filtering => filters = {}
  /\ filtering => \A w \in Window, s \in 0..MaxSerial :
       \E O \in SUBSET Change : /\ StandsAt(log, handled, w, s, O)
                                /\ InForce(w, s) \subseteq O
                                /\ InForce(w, s) = O \/ Aged(w, s)

\* A filter is that of a configure event that was handled, and no two are of one.
OriginOK ==
  /\ \A f \in filters : \E k \in 1..handled : /\ log[k].type = "configure"
                                              /\ Of(log[k], f.window, f.serial)
                                              /\ log[k].change = f.change
  /\ \A f, g \in filters : f.change = g.change => f = g

FilterInv ==
  /\ FilterTypeOK
  /\ LogOK(log, open, serial, change)
  /\ FiltersOK
  /\ OriginOK
  /\ FilterIsExact
  /\ OwedIsAccountedFor

LEMMA FilterInitInv == FilterInit => FilterInv
<1> SUFFICES ASSUME FilterInit PROVE FilterInv
  OBVIOUS
<1> USE FilterAssumption
<1>1. /\ filtering \in BOOLEAN /\ serial = 0 /\ change = 0 /\ log = <<>> /\ handled = 0 /\ limit = 0
      /\ flushing = FALSE /\ filters = {} /\ open = [w \in Window |-> {}]
      /\ owed = [w \in Window |-> {}] /\ expired = {} /\ dropped = {}
  BY DEF FilterInit
<1>2. log \in Seq(Event) /\ Len(log) = 0 /\ 1..Len(log) = {} /\ 1..handled = {}
  BY <1>1
<1>3. FilterTypeOK
  <2>1. serial \in 0..MaxSerial /\ change \in 0..MaxChanges /\ 0 <= Len(log)
    BY <1>1, <1>2
  <2>2. open \in [Window -> SUBSET Change] /\ owed \in [Window -> SUBSET (Change \X (1..MaxBoxes))]
    BY <1>1
  <2> QED BY <1>1, <1>2, <2>1, <2>2 DEF FilterTypeOK
<1>4. \A w, s : StandsAt(log, 0, w, s, {})
  BY <1>1, <1>2 DEF StandsAt
<1>5. LogOK(log, open, serial, change)
  BY <1>1, <1>2, <1>4 DEF LogOK
<1>6. \A w, s : InForce(w, s) = {}
  BY <1>1 DEF InForce
<1>7. FiltersOK
  BY <1>1, <1>4, <1>6 DEF FiltersOK
<1>8. OriginOK /\ FilterIsExact /\ OwedIsAccountedFor
  BY <1>1, <1>2 DEF OriginOK, FilterIsExact, OwedIsAccountedFor
<1> QED BY <1>3, <1>5, <1>7, <1>8 DEF FilterInv

-----------------------------------------------------------------------------
(* The X server, the applications, and the engine's own requests *)

\* The events that are handled, and what was done about them, stay as they are.
LEMMA LogGrows ==
  ASSUME FilterInv,
         filtering' = filtering, serial' \in 0..MaxSerial, handled' = handled, limit' = limit,
         flushing' = flushing, filters' = filters, expired' = expired, dropped' = dropped,
         log' \in Seq(Event), Len(log) <= Len(log'), \A i \in 1..Len(log) : log'[i] = log[i],
         LogOK(log', open', serial', change'), change' \in 0..MaxChanges,
         open' \in [Window -> SUBSET Change],
         owed' \in [Window -> SUBSET (Change \X (1..MaxBoxes))],
         \A w \in Window : \A o \in owed'[w] :
           \/ o \in owed[w]
           \/ \E i \in 1..Len(log') : /\ log'[i].type = "damage" /\ log'[i].window = w
                                      /\ <<log'[i].change, log'[i].box>> = o
                                      /\ i > handled
  PROVE  FilterInv'
<1>1. /\ log \in Seq(Event) /\ handled \in Nat /\ handled <= Len(log) /\ limit \in Nat
      /\ Len(log) \in Nat /\ Len(log') \in Nat
      /\ flushing => limit <= Len(log)
  BY DEF FilterInv, FilterTypeOK
<1>2. \A i \in 1..handled : i \in 1..Len(log) /\ i \in 1..Len(log') /\ log'[i] = log[i]
  BY <1>1
<1>3. FilterTypeOK'
  BY <1>1 DEF FilterInv, FilterTypeOK
<1>4. FiltersOK'
  <2>1. (~filtering => filters = {}) /\ FiltersOK
    BY DEF FilterInv, FiltersOK
  <2>2. ASSUME filtering, NEW w \in Window, NEW s \in 0..MaxSerial
        PROVE  \E O \in SUBSET Change : /\ StandsAt(log', handled, w, s, O)
                                        /\ InForce(w, s)' \subseteq O
                                        /\ InForce(w, s)' = O \/ Aged(w, s)'
    <3>1. PICK O \in SUBSET Change : /\ StandsAt(log, handled, w, s, O)
                                     /\ InForce(w, s) \subseteq O
                                     /\ InForce(w, s) = O \/ Aged(w, s)
      BY <2>1, <2>2 DEF FiltersOK
    <3>2. /\ handled <= handled /\ \A j \in 1..handled : log'[j] = log[j]
          /\ \A j \in (handled + 1)..handled : ~Of(log'[j], w, s)
      BY <1>1, <1>2
    <3>3. StandsAt(log', handled, w, s, O)
      BY <1>1, <3>1, <3>2, StandsOn
    <3>4. InForce(w, s)' = InForce(w, s)
      BY DEF InForce
    <3>5. Aged(w, s) => Aged(w, s)'
      BY <1>2 DEF Aged, Of
    <3> QED BY <3>1, <3>3, <3>4, <3>5
  <2> QED BY <2>1, <2>2 DEF FiltersOK
<1>5. OriginOK'
  BY <1>2 DEF FilterInv, OriginOK, Of
<1>6. FilterIsExact'
  <2>1. SUFFICES ASSUME NEW i \in 1..handled, log[i].type = "damage"
                 PROVE  /\ i \in dropped => filtering /\ log[i].open # {}
                        /\ i \notin dropped /\ filtering /\ log[i].open # {} =>
                             \E k \in 1..i : /\ log'[k].type = "configure" /\ log'[k].change \in expired
                                             /\ log'[k].window = log[i].window
                                             /\ log'[k].serial = log[i].serial
    BY <1>2 DEF FilterIsExact
  <2>2. \A k \in 1..i : log'[k] = log[k]
    BY <1>1, <1>2
  <2>3. /\ i \in dropped => filtering /\ log[i].open # {}
        /\ i \notin dropped /\ filtering /\ log[i].open # {} =>
             \E k \in 1..i : /\ log[k].type = "configure" /\ log[k].change \in expired
                             /\ log[k].window = log[i].window
                             /\ log[k].serial = log[i].serial
    BY <2>1 DEF FilterInv, FilterIsExact
  <2> QED BY <2>2, <2>3
<1>7. OwedIsAccountedFor'
  <2>1. SUFFICES ASSUME NEW w \in Window, NEW o \in owed[w]
                 PROVE  \E i \in 1..Len(log') :
                          /\ log'[i].type = "damage" /\ log'[i].window = w
                          /\ <<log'[i].change, log'[i].box>> = o
                          /\ i > handled \/ (filtering /\ log'[i].open # {})
    BY DEF OwedIsAccountedFor
  <2>2. PICK i \in 1..Len(log) : /\ log[i].type = "damage" /\ log[i].window = w
                                 /\ <<log[i].change, log[i].box>> = o
                                 /\ i > handled \/ (filtering /\ log[i].open # {})
    BY <2>1 DEF FilterInv, OwedIsAccountedFor
  <2>3. i \in 1..Len(log') /\ log'[i] = log[i]
    BY <1>1
  <2>4. /\ log'[i].type = "damage" /\ log'[i].window = w
        /\ <<log'[i].change, log'[i].box>> = o
        /\ i > handled \/ (filtering /\ log'[i].open # {})
    BY <2>2, <2>3
  <2> QED BY <2>3, <2>4
<1> QED BY <1>3, <1>4, <1>5, <1>6, <1>7 DEF FilterInv

\* What Boxes makes is a batch.
LEMMA BoxesBatch ==
  ASSUME FilterTypeOK, NEW w \in Window, NEW n \in 1..MaxBoxes, NEW S \in SUBSET Change,
         change' \in Change
  PROVE  /\ IsBatch(Boxes(w, n, S), w, serial, S, n)
         /\ n \in Nat \ {0}
         /\ \A b \in 1..n : Boxes(w, n, S)[b].change = change' /\ Boxes(w, n, S)[b].box = b
<1> DEFINE es == Boxes(w, n, S)
<1>1. n \in Nat \ {0} /\ \A b \in 1..n : b \in 1..MaxBoxes
  BY FilterAssumption
<1>2. \A b \in 1..n :
        [type |-> "damage", window |-> w, serial |-> serial,
         change |-> change', box |-> b, more |-> b < n, open |-> S] \in Event
  BY <1>1 DEF Event, FilterTypeOK
<1>3. es = [b \in 1..n |-> [type |-> "damage", window |-> w, serial |-> serial,
                   change |-> change', box |-> b, more |-> b < n, open |-> S]]
  BY DEF Boxes
<1> HIDE DEF es
<1>4. es \in [1..n -> Event]
  BY <1>2, <1>3
<1>5. es \in Seq(Event) /\ Len(es) = n
  BY <1>1, <1>4
<1>6. \A b \in 1..n : /\ Of(es[b], w, serial) /\ es[b].type = "damage" /\ es[b].open = S
                      /\ es[b].more <=> b < n
  BY <1>3 DEF Of
<1>7. IsBatch(es, w, serial, S, n)
  BY <1>5, <1>6 DEF IsBatch
<1>8. \A b \in 1..n : es[b].change = change' /\ es[b].box = b
  BY <1>3
<1> QED BY <1>1, <1>7, <1>8 DEF es

LEMMA XDrawStep ==
  ASSUME FilterInv, NEW w \in Window, NEW n \in 1..MaxBoxes, XDraw(w, n)
  PROVE  FilterInv'
<1> DEFINE es == Boxes(w, n, open[w])
<1>1. /\ change < MaxChanges /\ change' = change + 1
      /\ log' = log \o es
      /\ open' = [open EXCEPT ![w] = Closed(@)]
      /\ owed' = [owed EXCEPT ![w] = @ \cup ({change'} \X (1..n))]
      /\ filtering' = filtering /\ serial' = serial /\ handled' = handled /\ limit' = limit
      /\ flushing' = flushing /\ filters' = filters /\ expired' = expired /\ dropped' = dropped
  BY DEF XDraw
<1>2. FilterTypeOK /\ LogOK(log, open, serial, change)
  BY DEF FilterInv
<1>3. change' \in Change /\ change' \in 0..MaxChanges
  BY <1>1, <1>2, FilterAssumption DEF FilterTypeOK, Change
<1>4. open[w] \in SUBSET Change
  BY <1>2 DEF FilterTypeOK
<1>5. /\ IsBatch(es, w, serial, open[w], n) /\ n \in Nat \ {0}
      /\ \A b \in 1..n : es[b].change = change' /\ es[b].box = b
  BY <1>2, <1>3, <1>4, BoxesBatch
<1> HIDE DEF es
<1>6. LogOK(log', open', serial, change)
  <2>1. open \in [Window -> SUBSET Change] /\ serial \in Nat
    BY <1>2, FilterAssumption DEF FilterTypeOK
  <2> QED BY <1>1, <1>2, <1>5, <2>1, BatchLog
<1>7. LogOK(log', open', serial', change')
  <2>1. \A k \in 1..Len(log') : log'[k].type = "configure" => log'[k].change <= change + 1
    <3>1. \A k \in 1..Len(log') : log'[k] \in Event
      BY <1>6 DEF LogOK
    <3>2. \A k \in 1..Len(log') : log'[k].change \in Nat
      BY <3>1, FilterAssumption DEF Event, Change
    <3>3. change \in Nat
      BY <1>2, FilterAssumption DEF FilterTypeOK
    <3> QED BY <1>6, <3>2, <3>3 DEF LogOK
  <2> QED BY <1>1, <1>6, <2>1 DEF LogOK
<1>8. /\ log \in Seq(Event) /\ es \in Seq(Event) /\ Len(es) = n /\ handled <= Len(log)
      /\ handled \in Nat
  BY <1>2, <1>5 DEF FilterTypeOK, IsBatch
<1>9. /\ Len(log') = Len(log) + n /\ Len(log) \in Nat /\ log' \in Seq(Event)
      /\ \A i \in 1..Len(log) : log'[i] = log[i]
      /\ \A b \in 1..n : log'[Len(log) + b] = es[b]
  BY <1>1, <1>8
<1>10. owed' \in [Window -> SUBSET (Change \X (1..MaxBoxes))]
  <2>1. {change'} \X (1..n) \subseteq Change \X (1..MaxBoxes)
    BY <1>3, FilterAssumption
  <2> QED BY <1>1, <1>2, <2>1 DEF FilterTypeOK
<1>11. open' \in [Window -> SUBSET Change]
  <2>1. Closed(open[w]) \in SUBSET Change
    BY <1>4 DEF Closed
  <2> QED BY <1>1, <1>2, <2>1 DEF FilterTypeOK
<1>12. ASSUME NEW v \in Window, NEW o \in owed'[v], o \notin owed[v]
       PROVE  \E i \in 1..Len(log') : /\ log'[i].type = "damage" /\ log'[i].window = v
                                      /\ <<log'[i].change, log'[i].box>> = o
                                      /\ i > handled
  <2>1. v = w /\ o \in {change'} \X (1..n)
    BY <1>1, <1>2, <1>12 DEF FilterTypeOK
  <2>2. PICK b \in 1..n : o = <<change', b>>
    BY <2>1
  <2>3. Len(log) + b \in 1..Len(log') /\ Len(log) + b > handled
    BY <1>8, <1>9
  <2>4. es[b].type = "damage" /\ es[b].window = w
    BY <1>5 DEF IsBatch, Of
  <2> QED BY <1>5, <1>9, <2>1, <2>2, <2>3, <2>4
<1>13. Len(log) <= Len(log') /\ serial' \in 0..MaxSerial
  BY <1>1, <1>2, <1>9 DEF FilterTypeOK
<1>14. \A v \in Window : \A o \in owed'[v] :
         \/ o \in owed[v]
         \/ \E i \in 1..Len(log') : /\ log'[i].type = "damage" /\ log'[i].window = v
                                    /\ <<log'[i].change, log'[i].box>> = o
                                    /\ i > handled
  BY <1>12
<1> QED BY <1>1, <1>3, <1>7, <1>9, <1>10, <1>11, <1>13, <1>14, LogGrows

\* A configure event that is added to the log.
LEMMA ConfiguredLog ==
  ASSUME FilterInv, NEW w \in Window, change < MaxChanges, change' = change + 1
  PROVE  /\ LogOK(Append(log, Configured(w)), [open EXCEPT ![w] = @ \cup {change + 1}],
                  serial, change + 1)
         /\ Append(log, Configured(w)) \in Seq(Event)
         /\ Len(Append(log, Configured(w))) = Len(log) + 1
         /\ \A i \in 1..Len(log) : Append(log, Configured(w))[i] = log[i]
         /\ Append(log, Configured(w)) = log \o <<Configured(w)>>
         /\ [open EXCEPT ![w] = @ \cup {change + 1}] \in [Window -> SUBSET Change]
         /\ change + 1 \in Change
<1> DEFINE e == Configured(w)
<1> USE FilterAssumption
<1>1. /\ open \in [Window -> SUBSET Change] /\ serial \in 0..MaxSerial /\ serial \in Nat
      /\ change \in Nat /\ change \in 0..MaxChanges /\ log \in Seq(Event)
      /\ LogOK(log, open, serial, change)
  BY DEF FilterInv, FilterTypeOK
<1>2. change + 1 \in Change
  BY <1>1 DEF Change
<1>3. e = [type |-> "configure", window |-> w, serial |-> serial,
           change |-> change + 1, box |-> 1, more |-> FALSE, open |-> open[w]]
  BY DEF Configured
<1>4. 1 \in 1..MaxBoxes /\ open[w] \in SUBSET Change
  BY <1>1
<1> HIDE DEF e
<1>5. e \in Event
  BY <1>1, <1>2, <1>3, <1>4 DEF Event
<1>6. Of(e, w, serial) /\ e.type = "configure" /\ e.open = open[w] /\ e.change = change + 1
  BY <1>3 DEF Of
<1>7. LogOK(Append(log, e), [open EXCEPT ![w] = @ \cup {change + 1}], serial, change + 1)
  BY <1>1, <1>5, <1>6, ConfigureLog
<1>8. /\ Append(log, e) \in Seq(Event) /\ Len(Append(log, e)) = Len(log) + 1
      /\ \A i \in 1..Len(log) : Append(log, e)[i] = log[i]
  BY <1>1, <1>5, AppendProperties
<1>9. Append(log, e) = log \o <<e>>
  BY <1>1, <1>5, AppendIsConcat
<1>10. [open EXCEPT ![w] = @ \cup {change + 1}] \in [Window -> SUBSET Change]
  BY <1>1, <1>2
<1> QED BY <1>2, <1>7, <1>8, <1>9, <1>10 DEF e

LEMMA XMoveStep ==
  ASSUME FilterInv, NEW w \in Window, XMove(w)
  PROVE  FilterInv'
<1>1. /\ change < MaxChanges /\ change' = change + 1
      /\ log' = Append(log, Configured(w))
      /\ open' = [open EXCEPT ![w] = @ \cup {change + 1}]
      /\ owed' = owed
      /\ filtering' = filtering /\ serial' = serial /\ handled' = handled /\ limit' = limit
      /\ flushing' = flushing /\ filters' = filters /\ expired' = expired /\ dropped' = dropped
  BY DEF XMove
<1>2. /\ LogOK(log', open', serial', change') /\ log' \in Seq(Event) /\ Len(log') = Len(log) + 1
      /\ \A i \in 1..Len(log) : log'[i] = log[i]
      /\ open' \in [Window -> SUBSET Change] /\ change' \in Change
  BY <1>1, ConfiguredLog
<1>3. /\ serial' \in 0..MaxSerial /\ Len(log) <= Len(log') /\ change' \in 0..MaxChanges
      /\ owed' \in [Window -> SUBSET (Change \X (1..MaxBoxes))]
  BY <1>1, <1>2, FilterAssumption DEF FilterInv, FilterTypeOK, Change
<1>4. \A v \in Window : \A o \in owed'[v] :
        \/ o \in owed[v]
        \/ \E i \in 1..Len(log') : /\ log'[i].type = "damage" /\ log'[i].window = v
                                   /\ <<log'[i].change, log'[i].box>> = o
                                   /\ i > handled
  BY <1>1
<1> QED BY <1>1, <1>2, <1>3, <1>4, LogGrows

LEMMA XResizeStep ==
  ASSUME FilterInv, NEW w \in Window, NEW n \in 1..MaxBoxes, XResize(w, n)
  PROVE  FilterInv'
<1> DEFINE mid == Append(log, Configured(w))
           omid == [open EXCEPT ![w] = @ \cup {change + 1}]
           es == Boxes(w, n, open[w] \cup {change'})
<1>1. /\ change < MaxChanges /\ change' = change + 1
      /\ log' = log \o <<Configured(w)>> \o es
      /\ open' = [open EXCEPT ![w] = Closed(@ \cup {change'})]
      /\ owed' = [owed EXCEPT ![w] = @ \cup ({change'} \X (1..n))]
      /\ filtering' = filtering /\ serial' = serial /\ handled' = handled /\ limit' = limit
      /\ flushing' = flushing /\ filters' = filters /\ expired' = expired /\ dropped' = dropped
  BY DEF XResize
<1>2. /\ LogOK(mid, omid, serial, change + 1) /\ mid \in Seq(Event) /\ Len(mid) = Len(log) + 1
      /\ \A i \in 1..Len(log) : mid[i] = log[i]
      /\ mid = log \o <<Configured(w)>>
      /\ omid \in [Window -> SUBSET Change] /\ change + 1 \in Change
  BY <1>1, ConfiguredLog
<1>3. FilterTypeOK /\ open \in [Window -> SUBSET Change] /\ serial \in Nat
  BY FilterAssumption DEF FilterInv, FilterTypeOK
<1>4. omid[w] = open[w] \cup {change + 1} /\ omid[w] \in SUBSET Change
  BY <1>2, <1>3
<1>5. es = Boxes(w, n, omid[w]) /\ change' \in Change
  BY <1>1, <1>2, <1>4
<1>6. open' = [omid EXCEPT ![w] = Closed(@)]
  <2>1. open' = [v \in Window |-> IF v = w THEN Closed(open[w] \cup {change + 1}) ELSE open[v]]
    BY <1>1, <1>3
  <2>2. omid = [v \in Window |-> IF v = w THEN open[w] \cup {change + 1} ELSE open[v]]
    BY <1>3
  <2> QED BY <2>1, <2>2
<1> HIDE DEF mid, omid, es
<1>7. /\ IsBatch(es, w, serial, omid[w], n) /\ n \in Nat \ {0}
      /\ \A b \in 1..n : es[b].change = change' /\ es[b].box = b
  BY <1>3, <1>4, <1>5, BoxesBatch
<1>8. LogOK(mid \o es, [omid EXCEPT ![w] = Closed(@)], serial, change + 1)
  BY <1>2, <1>3, <1>7, BatchLog
<1>9. log' = mid \o es
  BY <1>1, <1>2
<1>10. LogOK(log', open', serial', change')
  BY <1>1, <1>6, <1>8, <1>9
<1>11. /\ log \in Seq(Event) /\ es \in Seq(Event) /\ Len(es) = n /\ handled <= Len(log)
       /\ handled \in Nat
  BY <1>3, <1>7 DEF FilterTypeOK, IsBatch
<1>12. /\ Len(log') = Len(mid) + n /\ Len(mid) \in Nat /\ log' \in Seq(Event)
       /\ \A i \in 1..Len(mid) : log'[i] = mid[i]
       /\ \A b \in 1..n : log'[Len(mid) + b] = es[b]
  <2>1. mid \in Seq(Event) /\ es \in Seq(Event) /\ Len(es) = n
    BY <1>2, <1>11
  <2>2. /\ mid \o es \in Seq(Event) /\ Len(mid \o es) = Len(mid) + n /\ Len(mid) \in Nat
        /\ \A i \in 1..Len(mid) : (mid \o es)[i] = mid[i]
        /\ \A b \in 1..n : (mid \o es)[Len(mid) + b] = es[b]
    BY <2>1
  <2> QED BY <1>9, <2>2
<1>13. /\ \A i \in 1..Len(log) : log'[i] = log[i]
       /\ Len(log) <= Len(log') /\ Len(log) \in Nat
  BY <1>2, <1>11, <1>12
<1>14. owed' \in [Window -> SUBSET (Change \X (1..MaxBoxes))]
  <2>1. {change'} \X (1..n) \subseteq Change \X (1..MaxBoxes)
    BY <1>5, FilterAssumption
  <2> QED BY <1>1, <1>3, <2>1 DEF FilterTypeOK
<1>15. open' \in [Window -> SUBSET Change]
  <2>1. Closed(omid[w]) \in SUBSET Change
    BY <1>4 DEF Closed
  <2> QED BY <1>2, <1>6, <2>1
<1>16. ASSUME NEW v \in Window, NEW o \in owed'[v], o \notin owed[v]
       PROVE  \E i \in 1..Len(log') : /\ log'[i].type = "damage" /\ log'[i].window = v
                                      /\ <<log'[i].change, log'[i].box>> = o
                                      /\ i > handled
  <2>1. v = w /\ o \in {change'} \X (1..n)
    BY <1>1, <1>3, <1>16 DEF FilterTypeOK
  <2>2. PICK b \in 1..n : o = <<change', b>>
    BY <2>1
  <2>3. Len(mid) + b \in 1..Len(log') /\ Len(mid) + b > handled
    BY <1>2, <1>11, <1>12
  <2>4. es[b].type = "damage" /\ es[b].window = w
    BY <1>7 DEF IsBatch, Of
  <2> QED BY <1>7, <1>12, <2>1, <2>2, <2>3, <2>4
<1>17. \A v \in Window : \A o \in owed'[v] :
         \/ o \in owed[v]
         \/ \E i \in 1..Len(log') : /\ log'[i].type = "damage" /\ log'[i].window = v
                                    /\ <<log'[i].change, log'[i].box>> = o
                                    /\ i > handled
  BY <1>16
<1>18. serial' \in 0..MaxSerial /\ change' \in 0..MaxChanges
  BY <1>1, <1>3, <1>5, FilterAssumption DEF FilterTypeOK, Change
<1> QED BY <1>1, <1>10, <1>12, <1>13, <1>14, <1>15, <1>17, <1>18, LogGrows

LEMMA RequestStep ==
  ASSUME FilterInv, Request
  PROVE  FilterInv'
<1>1. /\ serial < MaxSerial /\ serial' = serial + 1 /\ open' = [w \in Window |-> {}]
      /\ log' = log /\ change' = change /\ owed' = owed
      /\ filtering' = filtering /\ handled' = handled /\ limit' = limit
      /\ flushing' = flushing /\ filters' = filters /\ expired' = expired /\ dropped' = dropped
  BY DEF Request
<1>2. FilterTypeOK /\ LogOK(log, open, serial, change) /\ log \in Seq(Event)
  BY DEF FilterInv, FilterTypeOK
<1>3. serial' \in 0..MaxSerial /\ serial \in Nat
  BY <1>1, <1>2, FilterAssumption DEF FilterTypeOK
<1>4. LogOK(log', open', serial', change')
  BY <1>1, <1>2, <1>3, RequestLog
<1>5. /\ change' \in 0..MaxChanges /\ open' \in [Window -> SUBSET Change]
      /\ owed' \in [Window -> SUBSET (Change \X (1..MaxBoxes))] /\ log' \in Seq(Event)
      /\ Len(log) <= Len(log') /\ \A i \in 1..Len(log) : log'[i] = log[i]
  BY <1>1, <1>2 DEF FilterTypeOK
<1>6. \A v \in Window : \A o \in owed'[v] :
        \/ o \in owed[v]
        \/ \E i \in 1..Len(log') : /\ log'[i].type = "damage" /\ log'[i].window = v
                                   /\ <<log'[i].change, log'[i].box>> = o
                                   /\ i > handled
  BY <1>1
<1> QED BY <1>1, <1>3, <1>4, <1>5, <1>6, LogGrows

-----------------------------------------------------------------------------
(* flushQueuedEvents *)

\* The filters of w and s when event k is handled, and those that should be in force.
LEMMA NextStands ==
  ASSUME FilterInv, handled < Len(log), filtering
  PROVE  /\ NextEvent \in Event /\ handled + 1 \in 1..Len(log)
         /\ InForce(NextEvent.window, NextEvent.serial) \subseteq NextEvent.open
         /\ \/ InForce(NextEvent.window, NextEvent.serial) = NextEvent.open
            \/ Aged(NextEvent.window, NextEvent.serial)
<1> DEFINE w == NextEvent.window
           s == NextEvent.serial
<1>1. /\ log \in Seq(Event) /\ handled \in Nat /\ handled + 1 \in 1..Len(log)
      /\ (handled + 1) - 1 = handled
  BY DEF FilterInv, FilterTypeOK
<1>2. NextEvent \in Event /\ w \in Window /\ s \in 0..MaxSerial
  <2>1. log[handled + 1] \in Event
    BY <1>1
  <2> QED BY <2>1 DEF NextEvent, Event
<1>3. StandsAt(log, handled, w, s, NextEvent.open)
  BY <1>1 DEF FilterInv, LogOK, NextEvent
<1>4. PICK O \in SUBSET Change : /\ StandsAt(log, handled, w, s, O)
                                 /\ InForce(w, s) \subseteq O
                                 /\ InForce(w, s) = O \/ Aged(w, s)
  BY <1>2 DEF FilterInv, FiltersOK
<1>5. O = NextEvent.open
  BY <1>1, <1>3, <1>4, StandsUnique
<1> QED BY <1>1, <1>2, <1>4, <1>5

\* An event is handled, and what is done about the filters of its window and serial is
\* what would have been done when it was made.
LEMMA TakeStep ==
  ASSUME FilterInv, NEW type, Takes(type),
         filtering' = filtering, serial' = serial, change' = change, log' = log, open' = open,
         limit' = limit, flushing' = flushing, expired' = expired,
         filters' \subseteq Filter,
         ~filtering => filters' = {},
         \A w, s : ~Of(NextEvent, w, s) => InForce(w, s)' = InForce(w, s),
         filtering => \A w, s : Of(NextEvent, w, s) =>
           /\ InForce(w, s)' \subseteq After(NextEvent)
           /\ InForce(w, s)' = After(NextEvent) \/ InForce(w, s) # NextEvent.open,
         OriginOK',
         owed' \in [Window -> SUBSET (Change \X (1..MaxBoxes))],
         dropped' \in {dropped, dropped \cup {handled'}},
         type = "damage" =>
           /\ handled' \in dropped' => filtering /\ NextEvent.open # {}
           /\ handled' \notin dropped' /\ filtering =>
                InForce(NextEvent.window, NextEvent.serial) = {},
         \A w \in Window : \A o \in owed'[w] :
           /\ o \in owed[w]
           /\ type = "damage" /\ NextEvent.window = w /\ <<NextEvent.change, NextEvent.box>> = o =>
                filtering /\ NextEvent.open # {}
  PROVE  FilterInv'
<1>1. /\ log \in Seq(Event) /\ handled \in Nat /\ limit <= Len(log) /\ handled < limit
      /\ Len(log) \in Nat /\ limit \in Nat /\ flushing /\ NextEvent.type = type
      /\ handled' = handled + 1 /\ NextEvent = log[handled + 1]
  BY DEF FilterInv, FilterTypeOK, Takes, NextEvent
<1>2. /\ handled < Len(log) /\ handled' \in Nat /\ handled' <= Len(log) /\ handled' \in 1..Len(log)
      /\ \A k \in 1..handled : k \in 1..handled' /\ k # handled' /\ k \in 1..Len(log)
      /\ \A k \in 1..handled' : k \in 1..handled \/ k = handled'
  BY <1>1
<1>3. NextEvent \in Event
  BY <1>1, <1>2
<1>4. FilterTypeOK'
  <2>1. dropped' \subseteq 1..handled'
    BY <1>2 DEF FilterInv, FilterTypeOK
  <2> QED BY <1>1, <1>2, <2>1 DEF FilterInv, FilterTypeOK
<1>5. LogOK(log', open', serial', change')
  BY DEF FilterInv
<1>6. \A w, s : Aged(w, s) => Aged(w, s)'
  BY <1>2 DEF Aged, Of
<1>7. FiltersOK'
  <2>1. ASSUME filtering, NEW w \in Window, NEW s \in 0..MaxSerial
        PROVE  \E O \in SUBSET Change : /\ StandsAt(log, handled', w, s, O)
                                        /\ InForce(w, s)' \subseteq O
                                        /\ InForce(w, s)' = O \/ Aged(w, s)'
    <3>1. CASE Of(NextEvent, w, s)
      <4>1. w = NextEvent.window /\ s = NextEvent.serial
        BY <3>1 DEF Of
      <4>2. StandsAt(log, handled + 1, w, s, After(log[handled + 1]))
        BY <1>1, <3>1, StandsNext
      <4>3. After(NextEvent) \in SUBSET Change
        BY <1>3 DEF After, Event, Closed
      <4>4. InForce(w, s)' = After(NextEvent) \/ Aged(w, s)
        <5>1. InForce(w, s) = NextEvent.open \/ Aged(w, s)
          BY <1>2, <2>1, <4>1, NextStands
        <5>2. InForce(w, s)' = After(NextEvent) \/ InForce(w, s) # NextEvent.open
          BY <2>1, <3>1
        <5> QED BY <5>1, <5>2
      <4>5. InForce(w, s)' \subseteq After(NextEvent)
        BY <2>1, <3>1
      <4> QED BY <1>1, <1>6, <4>2, <4>3, <4>4, <4>5
    <3>2. CASE ~Of(NextEvent, w, s)
      <4>1. PICK O \in SUBSET Change : /\ StandsAt(log, handled, w, s, O)
                                       /\ InForce(w, s) \subseteq O
                                       /\ InForce(w, s) = O \/ Aged(w, s)
        BY <2>1 DEF FilterInv, FiltersOK
      <4>2. /\ handled <= handled' /\ \A j \in 1..handled : log[j] = log[j]
            /\ \A j \in (handled + 1)..handled' : ~Of(log[j], w, s)
        BY <1>1, <3>2
      <4>3. StandsAt(log, handled', w, s, O)
        BY <1>1, <1>2, <4>1, <4>2, StandsOn
      <4>4. InForce(w, s)' = InForce(w, s)
        BY <3>2
      <4> QED BY <1>6, <4>1, <4>3, <4>4
    <3> QED BY <3>1, <3>2
  <2> QED BY <2>1 DEF FiltersOK
<1>8. FilterIsExact'
  <2>1. SUFFICES ASSUME NEW i \in 1..handled', log[i].type = "damage"
                 PROVE  /\ i \in dropped' => filtering /\ log[i].open # {}
                        /\ i \notin dropped' /\ filtering /\ log[i].open # {} =>
                             \E k \in 1..i : /\ log[k].type = "configure" /\ log[k].change \in expired
                                             /\ log[k].window = log[i].window
                                             /\ log[k].serial = log[i].serial
    BY DEF FilterIsExact
  <2>2. CASE i \in 1..handled
    <3>1. i \in dropped' <=> i \in dropped
      BY <1>2, <2>2
    <3> QED BY <2>1, <2>2, <3>1 DEF FilterInv, FilterIsExact
  <2>3. CASE i = handled'
    <3>1. type = "damage" /\ log[i] = NextEvent
      BY <1>1, <2>1, <2>3
    <3>2. i \in dropped' => filtering /\ log[i].open # {}
      BY <2>3, <3>1
    <3>3. ASSUME i \notin dropped', filtering, log[i].open # {}
          PROVE  \E k \in 1..i : /\ log[k].type = "configure" /\ log[k].change \in expired
                                 /\ log[k].window = log[i].window
                                 /\ log[k].serial = log[i].serial
      <4>1. InForce(NextEvent.window, NextEvent.serial) = {}
        BY <2>3, <3>1, <3>3
      <4>2. Aged(NextEvent.window, NextEvent.serial)
        BY <1>2, <3>1, <3>3, <4>1, NextStands
      <4> QED BY <1>2, <2>3, <3>1, <4>2 DEF Aged, Of
    <3> QED BY <3>2, <3>3
  <2> QED BY <1>2, <2>2, <2>3
<1>9. OwedIsAccountedFor'
  <2>1. SUFFICES ASSUME NEW w \in Window, NEW o \in owed'[w]
                 PROVE  \E i \in 1..Len(log) :
                          /\ log[i].type = "damage" /\ log[i].window = w
                          /\ <<log[i].change, log[i].box>> = o
                          /\ i > handled' \/ (filtering /\ log[i].open # {})
    BY DEF OwedIsAccountedFor
  <2>2. o \in owed[w]
    BY <2>1
  <2>3. PICK i \in 1..Len(log) :
          /\ log[i].type = "damage" /\ log[i].window = w
          /\ <<log[i].change, log[i].box>> = o
          /\ i > handled \/ (filtering /\ log[i].open # {})
    BY <2>2 DEF FilterInv, OwedIsAccountedFor
  <2>4. CASE i = handled'
    <3>1. log[i] = NextEvent /\ type = "damage"
      BY <1>1, <2>3, <2>4
    <3>2. filtering /\ log[i].open # {}
      BY <2>1, <2>3, <3>1
    <3> QED BY <2>3, <3>2
  <2>5. CASE i # handled'
    <3>1. i > handled => i > handled'
      BY <1>1, <2>5
    <3> QED BY <2>3, <3>1
  <2> QED BY <2>4, <2>5
<1> QED BY <1>4, <1>5, <1>7, <1>8, <1>9 DEF FilterInv

LEMMA OnConfigureStep ==
  ASSUME FilterInv, OnConfigure
  PROVE  FilterInv'
<1> DEFINE e == NextEvent
           f0 == [window |-> e.window, serial |-> e.serial, change |-> e.change, old |-> FALSE]
<1>1. /\ Takes("configure")
      /\ filters' = IF filtering THEN filters \cup {f0} ELSE filters
      /\ filtering' = filtering /\ serial' = serial /\ change' = change /\ log' = log /\ open' = open
      /\ limit' = limit /\ flushing' = flushing /\ owed' = owed /\ expired' = expired
      /\ dropped' = dropped
  BY DEF OnConfigure, serverVars
<1>2. /\ e.type = "configure" /\ handled' = handled + 1 /\ handled < Len(log)
      /\ log \in Seq(Event) /\ handled \in Nat /\ handled + 1 \in 1..Len(log)
      /\ e = log[handled + 1]
  BY <1>1 DEF FilterInv, FilterTypeOK, Takes, NextEvent
<1>3. e \in Event
  BY <1>2
<1>4. f0 \in Filter
  BY <1>3 DEF Event, Filter
<1>5. f0.window = e.window /\ f0.serial = e.serial /\ f0.change = e.change
  OBVIOUS
<1>6. /\ filters \subseteq Filter /\ OriginOK /\ LogOK(log, open, serial, change)
      /\ ~filtering => filters = {}
      /\ owed \in [Window -> SUBSET (Change \X (1..MaxBoxes))]
  BY DEF FilterInv, FilterTypeOK, FiltersOK
<1>7. filtering => /\ InForce(e.window, e.serial) \subseteq e.open
                   /\ InForce(e.window, e.serial) = e.open \/ Aged(e.window, e.serial)
  BY <1>2, NextStands
<1>8. After(e) = e.open \cup {e.change}
  BY <1>2 DEF After
<1> HIDE DEF e, f0
<1>9. \A w, s : ~Of(e, w, s) => InForce(w, s)' = InForce(w, s)
  BY <1>1, <1>5 DEF InForce, Of
<1>10. filtering => \A w, s : Of(e, w, s) =>
         /\ InForce(w, s)' \subseteq After(e)
         /\ InForce(w, s)' = After(e) \/ InForce(w, s) # e.open
  <2>1. SUFFICES ASSUME filtering, NEW w, NEW s, Of(e, w, s)
                 PROVE  /\ InForce(w, s)' \subseteq After(e)
                        /\ InForce(w, s)' = After(e) \/ InForce(w, s) # e.open
    OBVIOUS
  <2>2. e.window = w /\ e.serial = s
    BY <2>1 DEF Of
  <2>3. InForce(w, s)' = InForce(w, s) \cup {e.change}
    BY <1>1, <1>5, <2>1, <2>2 DEF InForce
  <2>4. InForce(w, s) \subseteq e.open
    BY <1>7, <2>1, <2>2
  <2> QED BY <1>8, <2>3, <2>4
<1>11. OriginOK'
  <2>1. handled' \in 1..handled' /\ \A k \in 1..handled : k \in 1..handled' /\ k \in 1..Len(log)
    BY <1>2
  <2>2. ASSUME NEW f \in filters'
        PROVE  \E k \in 1..handled' : /\ log[k].type = "configure"
                                      /\ Of(log[k], f.window, f.serial)
                                      /\ log[k].change = f.change
    <3>1. CASE f \in filters
      BY <1>6, <2>1, <3>1 DEF OriginOK
    <3>2. CASE f = f0
      BY <1>2, <1>5, <2>1, <3>2 DEF Of
    <3> QED BY <1>1, <2>2, <3>1, <3>2
  <2>3. \A f \in filters : f.change # e.change
    <3>1. SUFFICES ASSUME NEW f \in filters, f.change = e.change PROVE FALSE
      OBVIOUS
    <3>2. PICK k \in 1..handled : log[k].type = "configure" /\ log[k].change = f.change
      BY <1>6 DEF OriginOK
    <3>3. k = handled + 1
      BY <1>2, <1>6, <2>1, <3>1, <3>2 DEF LogOK
    <3> QED BY <1>2, <3>3
  <2>4. \A f, g \in filters' : f.change = g.change => f = g
    BY <1>1, <1>5, <1>6, <2>3 DEF OriginOK
  <2> QED BY <1>1, <2>2, <2>4 DEF OriginOK, Of
<1>12. filters' \subseteq Filter /\ (~filtering => filters' = {})
  BY <1>1, <1>4, <1>6
<1> QED BY <1>1, <1>6, <1>9, <1>10, <1>11, <1>12, TakeStep DEF e

\* The filters of the event's window and serial.
LEMMA MatchingIs ==
  ASSUME NEW e
  PROVE  InForce(e.window, e.serial) = {f.change : f \in Matching(e)}
BY DEF InForce, Matching

LEMMA DropDamageStep ==
  ASSUME FilterInv, DropDamage
  PROVE  FilterInv'
<1> DEFINE e == NextEvent
           M == Matching(e)
           f1 == FirstOf(M)
           F == InForce(e.window, e.serial)
<1> USE FilterAssumption
<1>1. /\ Takes("damage") /\ M # {}
      /\ filters' = IF e.more THEN filters ELSE filters \ {f1}
      /\ dropped' = dropped \cup {handled'}
      /\ filtering' = filtering /\ serial' = serial /\ change' = change /\ log' = log /\ open' = open
      /\ limit' = limit /\ flushing' = flushing /\ owed' = owed /\ expired' = expired
  BY DEF DropDamage, serverVars
<1>2. /\ e.type = "damage" /\ handled' = handled + 1 /\ handled < Len(log)
      /\ log \in Seq(Event) /\ handled \in Nat /\ handled + 1 \in 1..Len(log)
      /\ e = log[handled + 1]
  BY <1>1 DEF FilterInv, FilterTypeOK, Takes, NextEvent
<1>3. e \in Event
  BY <1>2
<1>4. /\ filters \subseteq Filter /\ OriginOK /\ (~filtering => filters = {})
      /\ owed \in [Window -> SUBSET (Change \X (1..MaxBoxes))]
  BY DEF FilterInv, FilterTypeOK, FiltersOK
<1>5. filtering
  BY <1>1, <1>4 DEF Matching
<1>6. F \subseteq e.open
  BY <1>2, <1>5, NextStands
<1>7. e.open \in SUBSET Change /\ e.open \subseteq Nat
  BY <1>3 DEF Event, Change
<1>8. F = {f.change : f \in M}
  BY MatchingIs
<1>9. F # {} /\ F \subseteq Nat
  BY <1>1, <1>6, <1>7, <1>8
<1>10. f1 \in M /\ f1.change = First(F)
  <2>1. First(F) \in F /\ \A k \in F : First(F) <= k
    BY <1>9, FirstIsLeast
  <2>2. \E f \in M : \A g \in M : f.change <= g.change
    BY <1>8, <2>1
  <2>3. f1 \in M /\ \A g \in M : f1.change <= g.change
    BY <2>2 DEF FirstOf
  <2>4. f1.change \in F /\ First(F) <= f1.change /\ f1.change <= First(F)
    BY <1>8, <2>1, <2>3
  <2> QED BY <1>9, <2>1, <2>3, <2>4
<1>11. \A f \in M : f.change = f1.change => f = f1
  BY <1>4, <1>10 DEF OriginOK, Matching
<1>12. After(e) = IF e.more THEN e.open ELSE Closed(e.open)
  BY <1>2 DEF After
<1>13. {f.change : f \in {f \in filters' : f.window = e.window /\ f.serial = e.serial}}
         = IF e.more THEN F ELSE Closed(F)
  <2>1. CASE e.more
    BY <1>1, <2>1 DEF InForce
  <2>2. CASE ~e.more
    <3>1. {f \in filters' : f.window = e.window /\ f.serial = e.serial} = M \ {f1}
      BY <1>1, <2>2 DEF Matching
    <3>2. Closed(F) = F \ {f1.change}
      BY <1>9, <1>10 DEF Closed
    <3>3. {f.change : f \in M \ {f1}} = F \ {f1.change}
      BY <1>8, <1>10, <1>11
    <3> QED BY <2>2, <3>1, <3>2, <3>3
  <2> QED BY <2>1, <2>2
<1>14. \A w, s : ~Of(e, w, s) => InForce(w, s)' = InForce(w, s)
  <2>1. SUFFICES ASSUME NEW w, NEW s, ~Of(e, w, s) PROVE InForce(w, s)' = InForce(w, s)
    OBVIOUS
  <2>2. f1.window = e.window /\ f1.serial = e.serial
    BY <1>10 DEF Matching
  <2>3. {f \in filters' : f.window = w /\ f.serial = s} = {f \in filters : f.window = w /\ f.serial = s}
    BY <1>1, <2>1, <2>2 DEF Of
  <2> QED BY <2>3 DEF InForce
<1>15. Closed(F) \subseteq Closed(e.open)
  BY <1>6, <1>7, ClosedKeepsOrder
<1>16. \A w, s : Of(e, w, s) =>
         /\ InForce(w, s)' \subseteq After(e)
         /\ InForce(w, s)' = After(e) \/ InForce(w, s) # e.open
  <2>1. SUFFICES ASSUME NEW w, NEW s, Of(e, w, s)
                 PROVE  /\ InForce(w, s)' \subseteq After(e)
                        /\ InForce(w, s)' = After(e) \/ InForce(w, s) # e.open
    OBVIOUS
  <2>2. e.window = w /\ e.serial = s
    BY <2>1 DEF Of
  <2>3. InForce(w, s)' = {f.change : f \in {f \in filters' : f.window = e.window /\ f.serial = e.serial}}
    BY <2>2 DEF InForce
  <2>4. InForce(w, s) = F
    BY <2>2
  <2> HIDE DEF F
  <2> QED BY <1>6, <1>12, <1>13, <1>15, <2>3, <2>4
<1>17. OriginOK'
  <2>1. filters' \subseteq filters /\ \A k \in 1..handled : k \in 1..handled'
    BY <1>1, <1>2
  <2> QED BY <1>1, <1>4, <2>1 DEF OriginOK, Of
<1>18. e.open # {}
  BY <1>6, <1>9
<1>19. filters' \subseteq Filter /\ (~filtering => filters' = {})
  BY <1>1, <1>4, <1>5
<1>20. handled' \in dropped'
  BY <1>1
<1> HIDE DEF M, f1, F
<1> QED BY <1>1, <1>4, <1>5, <1>14, <1>16, <1>17, <1>18, <1>19, <1>20, TakeStep DEF e

LEMMA SendDamageStep ==
  ASSUME FilterInv, SendDamage
  PROVE  FilterInv'
<1> DEFINE e == NextEvent
<1>1. /\ Takes("damage") /\ Matching(e) = {}
      /\ owed' = [owed EXCEPT ![e.window] = @ \ {<<e.change, e.box>>}]
      /\ filtering' = filtering /\ serial' = serial /\ change' = change /\ log' = log /\ open' = open
      /\ limit' = limit /\ flushing' = flushing /\ filters' = filters /\ expired' = expired
      /\ dropped' = dropped
  BY DEF SendDamage, serverVars
<1>2. /\ e.type = "damage" /\ handled' = handled + 1 /\ handled < Len(log)
      /\ log \in Seq(Event) /\ handled \in Nat /\ handled + 1 \in 1..Len(log)
      /\ e = log[handled + 1]
  BY <1>1 DEF FilterInv, FilterTypeOK, Takes, NextEvent
<1>3. e \in Event
  BY <1>2
<1>4. /\ filters \subseteq Filter /\ OriginOK /\ (~filtering => filters = {})
      /\ owed \in [Window -> SUBSET (Change \X (1..MaxBoxes))] /\ dropped \subseteq 1..handled
  BY DEF FilterInv, FilterTypeOK, FiltersOK
<1> HIDE DEF e
<1>5. InForce(e.window, e.serial) = {}
  BY <1>1, MatchingIs
<1>6. \A w, s : InForce(w, s)' = InForce(w, s)
  BY <1>1 DEF InForce
<1>7. \A w, s : Of(e, w, s) =>
         /\ InForce(w, s)' \subseteq After(e)
         /\ InForce(w, s)' = After(e) \/ InForce(w, s) # e.open
  <2>1. SUFFICES ASSUME NEW w, NEW s, Of(e, w, s)
                 PROVE  /\ InForce(w, s)' \subseteq After(e)
                        /\ InForce(w, s)' = After(e) \/ InForce(w, s) # e.open
    OBVIOUS
  <2>2. InForce(w, s) = {} /\ InForce(w, s)' = {}
    BY <1>5, <1>6, <2>1 DEF Of
  <2>3. e.open = {} => After(e) = {}
    BY <1>2 DEF After, Closed
  <2> QED BY <2>2, <2>3
<1>8. OriginOK'
  <2>1. \A k \in 1..handled : k \in 1..handled'
    BY <1>2
  <2> QED BY <1>1, <1>4, <2>1 DEF OriginOK, Of
<1>9. owed' \in [Window -> SUBSET (Change \X (1..MaxBoxes))]
  BY <1>1, <1>4
<1>10. handled' \notin dropped'
  <2>1. handled + 1 \notin 1..handled
    BY <1>2
  <2> QED BY <1>1, <1>2, <1>4, <2>1
<1>11. \A w \in Window : \A o \in owed'[w] :
         o \in owed[w] /\ ~(e.window = w /\ <<e.change, e.box>> = o)
  BY <1>1, <1>4
<1>12. /\ filters' \subseteq Filter /\ (~filtering => filters' = {})
       /\ dropped' \in {dropped, dropped \cup {handled'}}
       /\ \A w, s : ~Of(e, w, s) => InForce(w, s)' = InForce(w, s)
  BY <1>1, <1>4, <1>6
<1>13. /\ handled' \in dropped' => filtering /\ e.open # {}
       /\ handled' \notin dropped' /\ filtering => InForce(e.window, e.serial) = {}
  BY <1>5, <1>10
<1> QED BY <1>1, <1>7, <1>8, <1>9, <1>11, <1>12, <1>13, TakeStep DEF e

\* No event is handled; filters only go with a trace.
LEMMA QuietStep ==
  ASSUME FilterInv,
         filtering' = filtering, serial' = serial, change' = change, log' = log, open' = open,
         handled' = handled, owed' = owed, dropped' = dropped,
         limit' \in Nat, flushing' \in BOOLEAN, flushing' => limit' <= Len(log),
         filters' \subseteq Filter, ~filtering => filters' = {}, expired \subseteq expired',
         \A w \in Window, s \in 0..MaxSerial :
           /\ InForce(w, s)' \subseteq InForce(w, s)
           /\ InForce(w, s)' = InForce(w, s) \/ Aged(w, s)',
         OriginOK'
  PROVE  FilterInv'
<1>1. FilterTypeOK' /\ LogOK(log', open', serial', change')
  BY DEF FilterInv, FilterTypeOK
<1>2. FiltersOK'
  <2>1. ASSUME filtering, NEW w \in Window, NEW s \in 0..MaxSerial
        PROVE  \E O \in SUBSET Change : /\ StandsAt(log, handled, w, s, O)
                                        /\ InForce(w, s)' \subseteq O
                                        /\ InForce(w, s)' = O \/ Aged(w, s)'
    <3>1. PICK O \in SUBSET Change : /\ StandsAt(log, handled, w, s, O)
                                     /\ InForce(w, s) \subseteq O
                                     /\ InForce(w, s) = O \/ Aged(w, s)
      BY <2>1 DEF FilterInv, FiltersOK
    <3>2. Aged(w, s) => Aged(w, s)'
      BY DEF Aged, Of
    <3>3. /\ InForce(w, s)' \subseteq InForce(w, s)
          /\ InForce(w, s)' = InForce(w, s) \/ Aged(w, s)'
      BY <2>1
    <3>4. InForce(w, s)' \subseteq O
      BY <3>1, <3>3
    <3>5. InForce(w, s)' = O \/ Aged(w, s)'
      BY <3>1, <3>2, <3>3
    <3> QED BY <3>1, <3>4, <3>5
  <2> QED BY <2>1 DEF FiltersOK
<1>3. FilterIsExact'
  <2>1. FilterIsExact
    BY DEF FilterInv
  <2> QED BY <2>1 DEF FilterIsExact
<1>4. OwedIsAccountedFor'
  <2>1. OwedIsAccountedFor
    BY DEF FilterInv
  <2> QED BY <2>1 DEF OwedIsAccountedFor
<1> QED BY <1>1, <1>2, <1>3, <1>4 DEF FilterInv

LEMMA BeginFlushStep ==
  ASSUME FilterInv, NEW n \in handled..Len(log), BeginFlush(n)
  PROVE  FilterInv'
<1>1. /\ flushing' = TRUE /\ limit' = n
      /\ filtering' = filtering /\ serial' = serial /\ change' = change /\ log' = log /\ open' = open
      /\ handled' = handled /\ owed' = owed /\ dropped' = dropped
      /\ filters' = filters /\ expired' = expired
  BY DEF BeginFlush, serverVars
<1>2. /\ filters \subseteq Filter /\ OriginOK /\ (~filtering => filters = {})
      /\ handled \in Nat /\ log \in Seq(Event)
  BY DEF FilterInv, FilterTypeOK, FiltersOK
<1>3. limit' \in Nat /\ limit' <= Len(log) /\ flushing' \in BOOLEAN
  BY <1>1, <1>2
<1>4. \A w, s : InForce(w, s)' = InForce(w, s)
  BY <1>1 DEF InForce
<1>5. OriginOK'
  BY <1>1, <1>2 DEF OriginOK, Of
<1> QED BY <1>1, <1>2, <1>3, <1>4, <1>5, QuietStep

LEMMA EndFlushStep ==
  ASSUME FilterInv, EndFlush
  PROVE  FilterInv'
<1>1. /\ flushing' = FALSE /\ filters' = {f \in filters : ~f.old}
      /\ expired' = expired \cup {f.change : f \in filters \ filters'}
      /\ filtering' = filtering /\ serial' = serial /\ change' = change /\ log' = log /\ open' = open
      /\ handled' = handled /\ limit' = limit /\ owed' = owed /\ dropped' = dropped
  BY DEF EndFlush, serverVars
<1>2. /\ filters \subseteq Filter /\ OriginOK /\ (~filtering => filters = {}) /\ limit \in Nat
  BY DEF FilterInv, FilterTypeOK, FiltersOK
<1>3. /\ filters' \subseteq filters /\ expired \subseteq expired' /\ flushing' \in BOOLEAN
  BY <1>1
<1>4. OriginOK'
  BY <1>1, <1>2, <1>3 DEF OriginOK, Of
<1>5. ASSUME NEW w, NEW s
      PROVE  /\ InForce(w, s)' \subseteq InForce(w, s)
             /\ InForce(w, s)' = InForce(w, s) \/ Aged(w, s)'
  <2>1. InForce(w, s)' \subseteq InForce(w, s)
    BY <1>3 DEF InForce
  <2>2. ASSUME InForce(w, s)' # InForce(w, s) PROVE Aged(w, s)'
    <3>1. PICK f \in filters \ filters' : f.window = w /\ f.serial = s
      <4>1. SUFFICES ASSUME \A f \in filters \ filters' : ~(f.window = w /\ f.serial = s)
                     PROVE  InForce(w, s)' = InForce(w, s)
        BY <2>2
      <4>2. {f \in filters' : f.window = w /\ f.serial = s} = {f \in filters : f.window = w /\ f.serial = s}
        BY <1>3, <4>1
      <4> QED BY <4>2 DEF InForce
    <3>2. f.change \in expired'
      BY <1>1
    <3>3. PICK k \in 1..handled : /\ log[k].type = "configure"
                                  /\ Of(log[k], f.window, f.serial)
                                  /\ log[k].change = f.change
      BY <1>2 DEF OriginOK
    <3>4. Of(log[k], w, s) /\ log[k].change \in expired'
      BY <3>1, <3>2, <3>3
    <3> QED BY <1>1, <3>3, <3>4 DEF Aged, Of
  <2> QED BY <2>1, <2>2
<1> QED BY <1>1, <1>2, <1>3, <1>4, <1>5, QuietStep

LEMMA SecondPassesStep ==
  ASSUME FilterInv, SecondPasses
  PROVE  FilterInv'
<1>1. /\ filters' = {[f EXCEPT !.old = TRUE] : f \in filters}
      /\ filtering' = filtering /\ serial' = serial /\ change' = change /\ log' = log /\ open' = open
      /\ handled' = handled /\ limit' = limit /\ flushing' = flushing /\ owed' = owed
      /\ dropped' = dropped /\ expired' = expired
  BY DEF SecondPasses, serverVars
<1>2. /\ filters \subseteq Filter /\ OriginOK /\ (~filtering => filters = {}) /\ limit \in Nat
      /\ flushing \in BOOLEAN /\ (flushing => limit <= Len(log))
  BY DEF FilterInv, FilterTypeOK, FiltersOK
<1>3. \A f \in filters : LET g == [f EXCEPT !.old = TRUE] IN
        g \in Filter /\ g.window = f.window /\ g.serial = f.serial /\ g.change = f.change
  BY <1>2 DEF Filter
<1>4. /\ \A f \in filters : \E g \in filters' :
           g.window = f.window /\ g.serial = f.serial /\ g.change = f.change
      /\ \A g \in filters' : \E f \in filters :
           /\ g = [f EXCEPT !.old = TRUE]
           /\ g.window = f.window /\ g.serial = f.serial /\ g.change = f.change
  BY <1>1, <1>3
<1>5. filters' \subseteq Filter /\ (~filtering => filters' = {})
  BY <1>1, <1>2, <1>3
<1>6. \A w, s : InForce(w, s)' = InForce(w, s)
  BY <1>4 DEF InForce
<1>7. OriginOK'
  <2>1. \A g \in filters' : \E k \in 1..handled : /\ log[k].type = "configure"
                                                  /\ Of(log[k], g.window, g.serial)
                                                  /\ log[k].change = g.change
    BY <1>2, <1>4 DEF OriginOK
  <2>2. ASSUME NEW g \in filters', NEW h \in filters', g.change = h.change
        PROVE  g = h
    <3>1. PICK f \in filters : g = [f EXCEPT !.old = TRUE] /\ g.change = f.change
      BY <1>4
    <3>2. PICK d \in filters : h = [d EXCEPT !.old = TRUE] /\ h.change = d.change
      BY <1>4
    <3>3. f.change = d.change
      BY <2>2, <3>1, <3>2
    <3>4. f = d
      BY <1>2, <3>3 DEF OriginOK
    <3> QED BY <3>1, <3>2, <3>4
  <2> QED BY <1>1, <2>1, <2>2 DEF OriginOK, Of
<1> QED BY <1>1, <1>2, <1>5, <1>6, <1>7, QuietStep

LEMMA FilterStutterStep ==
  ASSUME FilterInv, UNCHANGED filterVars
  PROVE  FilterInv'
<1>1. /\ filtering' = filtering /\ serial' = serial /\ change' = change /\ log' = log /\ open' = open
      /\ handled' = handled /\ limit' = limit /\ flushing' = flushing /\ owed' = owed
      /\ filters' = filters /\ dropped' = dropped /\ expired' = expired
  BY DEF filterVars, serverVars
<1>2. /\ filters \subseteq Filter /\ OriginOK /\ (~filtering => filters = {}) /\ limit \in Nat
      /\ flushing \in BOOLEAN /\ (flushing => limit <= Len(log))
  BY DEF FilterInv, FilterTypeOK, FiltersOK
<1>3. \A w, s : InForce(w, s)' = InForce(w, s)
  BY <1>1 DEF InForce
<1>4. OriginOK'
  BY <1>1, <1>2 DEF OriginOK, Of
<1> QED BY <1>1, <1>2, <1>3, <1>4, QuietStep

-----------------------------------------------------------------------------
(* Theorems about the damage events that are dropped *)

\* The filters that the listener keeps are those that would be in force if each event
\* were handled when it is made, but for those that have aged.
THEOREM FilterInvariant == FilterSpec => []FilterInv
<1>1. FilterInit => FilterInv
  BY FilterInitInv
<1>2. FilterInv /\ [FilterNext]_filterVars => FilterInv'
  <2> SUFFICES ASSUME FilterInv, [FilterNext]_filterVars PROVE FilterInv'
    OBVIOUS
  <2>1. ASSUME NEW w \in Window, NEW n \in 1..MaxBoxes, XDraw(w, n) PROVE FilterInv'
    BY <2>1, XDrawStep
  <2>2. ASSUME NEW w \in Window, NEW n \in 1..MaxBoxes, XResize(w, n) PROVE FilterInv'
    BY <2>2, XResizeStep
  <2>3. ASSUME NEW w \in Window, XMove(w) PROVE FilterInv'
    BY <2>3, XMoveStep
  <2>4. CASE Request
    BY <2>4, RequestStep
  <2>5. CASE Flush
    <3>1. ASSUME NEW n \in handled..Len(log), BeginFlush(n) PROVE FilterInv'
      BY <3>1, BeginFlushStep
    <3>2. CASE OnConfigure
      BY <3>2, OnConfigureStep
    <3>3. CASE DropDamage
      BY <3>3, DropDamageStep
    <3>4. CASE SendDamage
      BY <3>4, SendDamageStep
    <3>5. CASE EndFlush
      BY <3>5, EndFlushStep
    <3> QED BY <2>5, <3>1, <3>2, <3>3, <3>4, <3>5 DEF Flush
  <2>6. CASE SecondPasses
    BY <2>6, SecondPassesStep
  <2>7. CASE UNCHANGED filterVars
    BY <2>7, FilterStutterStep
  <2> QED BY <2>1, <2>2, <2>3, <2>4, <2>5, <2>6, <2>7 DEF FilterNext
<1> QED BY <1>1, <1>2, PTL DEF FilterSpec

\* A damage event is dropped exactly when a filter would have been in force for it when it
\* was made, or one for its window and serial had aged: for any number of windows, changes,
\* requests and boxes, however late and in whatever portions the events are handled.
THEOREM DropsAreExact == FilterSpec => []FilterIsExact
<1>1. FilterInv => FilterIsExact
  BY DEF FilterInv
<1> QED BY <1>1, FilterInvariant, PTL

\* What has changed without the registry being told is still to be handled, or a configure
\* event with the same serial and no other damage since had come before it.
THEOREM NothingElseIsOwed == FilterSpec => []OwedIsAccountedFor
<1>1. FilterInv => OwedIsAccountedFor
  BY DEF FilterInv
<1> QED BY <1>1, FilterInvariant, PTL

-----------------------------------------------------------------------------
(* Images *)

\* What a tile is given up for is a cause, a client and a tile.
LEMMA LostByType ==
  ASSUME NEW cause \in Cause, NEW C \in SUBSET Client, NEW S \in SUBSET Tile
  PROVE  LostBy(cause, C, S) \subseteq Cause \X Client \X Tile
BY DEF LostBy

\* What is lost: the entries that a stale pair of a client and a tile gets.
LEMMA LostByHas ==
  ASSUME NEW cause \in Cause, NEW C \in SUBSET Client, NEW S \in SUBSET Tile,
         NEW c \in C, NEW t \in S, Stale(c, t)
  PROVE  <<cause, c, t>> \in LostBy(cause, C, S)
BY DEF LostBy

\* A regrouping gives every group that has no client a fresh start.
LEMMA RegroupType ==
  ASSUME ImagesTypeOK, NEW c \in Client, NEW q \in Quality \cup {Unknown}, Regroup(c, q)
  PROVE  /\ group' \in [Client -> Quality \cup {Unknown}]
         /\ damage' \in [Quality -> SUBSET Tile]
         /\ checksum' \in [Quality -> [Tile -> Picture \cup {Unknown}]]
         /\ \A r \in Quality \ Groups' : damage'[r] = {} /\ checksum'[r] = NoChecksum
<1>1. NoChecksum \in [Tile -> Picture \cup {Unknown}]
  BY DEF NoChecksum
<1>2. QED
  BY <1>1 DEF ImagesTypeOK, Regroup

\* Groups and their members depend on group alone.
LEMMA GroupsKept ==
  ASSUME group' = group
  PROVE  Groups' = Groups /\ \A q : Members(q)' = Members(q)
BY DEF Groups, Members

\* Every step keeps the types.
LEMMA ImagesTypeStep ==
  ASSUME ImagesTypeOK, [ImagesNext]_imagesVars
  PROVE  ImagesTypeOK'
<1> USE ImagesAssumption
<1>0. \A q : Members(q) \subseteq Client
  BY DEF Members
<1>1. ASSUME NEW t \in Tile, NEW p \in Picture, Draw(t, p)
      PROVE  ImagesTypeOK'
  BY <1>1, GroupsKept DEF ImagesTypeOK, Draw
<1>2. ASSUME NEW t \in Tile, AddWindowDamage(t)
      PROVE  ImagesTypeOK'
  BY <1>2, GroupsKept DEF ImagesTypeOK, AddWindowDamage
<1>3. ASSUME NEW q \in Quality, SendWindow(q)
      PROVE  ImagesTypeOK'
  <2>1. view' \in [Client -> [Tile -> Picture \cup {Unknown}]]
    BY <1>3 DEF ImagesTypeOK, SendWindow, Show, GiveUp
  <2>2. lost' \subseteq Cause \X Client \X Tile
    <3>1. "checksum" \in Cause
      BY DEF Cause
    <3>2. LostBy("checksum", Members(q), Tile) \subseteq Cause \X Client \X Tile
      BY <1>0, <3>1, LostByType
    <3>3. QED
      BY <1>3, <3>2 DEF ImagesTypeOK, SendWindow, Show, GiveUp
  <2>3. checksum' \in [Quality -> [Tile -> Picture \cup {Unknown}]]
    BY <1>3 DEF ImagesTypeOK, SendWindow
  <2>4. \A r \in Quality \ Groups' : damage'[r] = {} /\ checksum'[r] = NoChecksum
    BY <1>3, GroupsKept DEF ImagesTypeOK, SendWindow, ResetDamage
  <2>5. QED
    BY <1>3, <2>1, <2>2, <2>3, <2>4 DEF ImagesTypeOK, SendWindow, ResetDamage
<1>4. ASSUME NEW q \in Quality, SendAreas(q)
      PROVE  ImagesTypeOK'
  BY <1>4, GroupsKept DEF ImagesTypeOK, SendAreas, Show, ResetDamage
<1>5. ASSUME NEW q \in Quality, NEW failed \in SUBSET Tile, GrabFails(q, failed)
      PROVE  ImagesTypeOK'
  <2>1. "grab" \in Cause
    BY DEF Cause
  <2>2. LostBy("grab", Members(q), failed) \subseteq Cause \X Client \X Tile
    BY <1>0, <2>1, LostByType
  <2>3. lost' \subseteq Cause \X Client \X Tile
    BY <1>5, <2>2 DEF ImagesTypeOK, GrabFails
  <2>4. QED
    BY <1>5, <2>3, GroupsKept DEF ImagesTypeOK, GrabFails, ResetDamage
<1>6. ASSUME NEW c \in Client, NEW q \in Quality, Join(c, q)
      PROVE  ImagesTypeOK'
  BY <1>6, RegroupType DEF ImagesTypeOK, Join
<1>7. ASSUME NEW c \in Client, NEW q \in Quality, Move(c, q)
      PROVE  ImagesTypeOK'
  <2>1. "move" \in Cause
    BY DEF Cause
  <2>2. group[c] \in Quality
    BY <1>7 DEF Move, ImagesTypeOK
  <2>3. LostBy("move", {c}, damage[group[c]] \ damage'[q]) \subseteq Cause \X Client \X Tile
    BY <2>1, <2>2, LostByType DEF ImagesTypeOK
  <2>4. QED
    BY <1>7, <2>3, RegroupType DEF ImagesTypeOK, Move
<1>8. ASSUME NEW c \in Client, Leave(c)
      PROVE  ImagesTypeOK'
  BY <1>8, RegroupType DEF ImagesTypeOK, Leave
<1>9. ASSUME NEW c \in Client, RequestImage(c)
      PROVE  ImagesTypeOK'
  BY <1>9, GroupsKept DEF ImagesTypeOK, RequestImage
<1>10. CASE UNCHANGED imagesVars
  BY <1>10, GroupsKept DEF ImagesTypeOK, imagesVars
<1>11. QED
  BY <1>1, <1>2, <1>3, <1>4, <1>5, <1>6, <1>7, <1>8, <1>9, <1>10
     DEF ImagesNext, UpdateGroup

\* A client that is in no group displays nothing: the strengthening that makes
\* StaleIsAccountedFor inductive, as damage is added for the groups only.
OutsidersShowNothing ==
  \A c \in Client : group[c] = Unknown => \A t \in Tile : view[c][t] = Unknown

\* Every step keeps outsiders without images.
LEMMA OutsidersStep ==
  ASSUME ImagesTypeOK, OutsidersShowNothing, [ImagesNext]_imagesVars
  PROVE  OutsidersShowNothing'
<1> USE ImagesAssumption
<1> SUFFICES ASSUME NEW c \in Client, NEW t \in Tile, group'[c] = Unknown
             PROVE  view'[c][t] = Unknown
  BY DEF OutsidersShowNothing
<1>1. ASSUME group[c] = Unknown, NEW q \in Quality
      PROVE  c \notin Members(q)
  BY <1>1 DEF Members
<1>2. ASSUME NEW u \in Tile, AddWindowDamage(u) \/ \E p \in Picture : Draw(u, p)
      PROVE  view'[c][t] = Unknown
  BY <1>2 DEF OutsidersShowNothing, Draw, AddWindowDamage
<1>3. ASSUME NEW q \in Quality, NEW failed \in SUBSET Tile,
             SendWindow(q) \/ SendAreas(q) \/ GrabFails(q, failed)
      PROVE  view'[c][t] = Unknown
  <2>1. group[c] = Unknown
    BY <1>3 DEF SendWindow, SendAreas, GrabFails
  <2>2. view'[c][t] = view[c][t]
    BY <1>1, <1>3, <2>1 DEF SendWindow, SendAreas, GrabFails, Show, GiveUp, ImagesTypeOK
  <2>3. QED
    BY <2>1, <2>2 DEF OutsidersShowNothing
<1>4. ASSUME NEW d \in Client, NEW q \in Quality, Join(d, q) \/ Move(d, q)
      PROVE  view'[c][t] = Unknown
  BY <1>4 DEF OutsidersShowNothing, Join, Move, Regroup, ImagesTypeOK
<1>5. ASSUME NEW d \in Client, Leave(d)
      PROVE  view'[c][t] = Unknown
  BY <1>5 DEF OutsidersShowNothing, Leave, Regroup, ImagesTypeOK
<1>6. ASSUME NEW d \in Client, RequestImage(d)
      PROVE  view'[c][t] = Unknown
  BY <1>6 DEF OutsidersShowNothing, RequestImage, ImagesTypeOK
<1>7. CASE UNCHANGED imagesVars
  BY <1>7 DEF OutsidersShowNothing, imagesVars
<1>8. ASSUME NEW q \in Quality, UpdateGroup(q)
      PROVE  view'[c][t] = Unknown
  <2>1. {} \in SUBSET Tile
    OBVIOUS
  <2>2. QED
    BY <1>3, <1>8, <2>1 DEF UpdateGroup
<1>9. QED
  BY <1>2, <1>3, <1>4, <1>5, <1>6, <1>7, <1>8 DEF ImagesNext

\* What the invariant says of one client and one tile.
Accounted(c, t) ==
  Stale(c, t) => Pending(c, t) \/ \E cause \in Cause : <<cause, c, t>> \in lost

\* Every step keeps every client's stale tiles accounted for.
LEMMA StaleStep ==
  ASSUME ImagesTypeOK, OutsidersShowNothing, StaleIsAccountedFor, [ImagesNext]_imagesVars
  PROVE  StaleIsAccountedFor'
<1> USE ImagesAssumption
<1> SUFFICES ASSUME NEW c \in Client, NEW t \in Tile
             PROVE  Accounted(c, t)'
  BY DEF StaleIsAccountedFor, Accounted
<1>a. Accounted(c, t)
  BY DEF StaleIsAccountedFor, Accounted
<1>u. group[c] = Unknown => ~Stale(c, t)
  BY DEF OutsidersShowNothing, Stale
<1>b. \A q : c \in Members(q) <=> group[c] = q
  BY DEF Members
<1>c. group[c] # Unknown => group[c] \in Groups
  BY <1>b DEF ImagesTypeOK, Groups
<1>1. ASSUME NEW u \in Tile, NEW p \in Picture, Draw(u, p)
      PROVE  Accounted(c, t)'
  BY <1>1, <1>a DEF Accounted, Draw, Stale, Pending, ImagesTypeOK
<1>2. ASSUME NEW u \in Tile, AddWindowDamage(u)
      PROVE  Accounted(c, t)'
  <2>1. group[c] # Unknown /\ t \in damage[group[c]] => t \in damage'[group[c]]
    BY <1>2 DEF AddWindowDamage, ImagesTypeOK
  <2>2. CASE t = u /\ group[c] # Unknown
    <3>1. t \in damage'[group[c]]
      BY <1>2, <1>c, <2>2 DEF AddWindowDamage, ImagesTypeOK
    <3>2. QED
      BY <1>2, <2>2, <3>1 DEF Accounted, AddWindowDamage, Pending
  <2>3. CASE t # u
    BY <1>2, <1>a, <2>1, <2>3 DEF Accounted, AddWindowDamage, Stale, Pending
  <2>4. CASE t = u /\ group[c] = Unknown
    BY <1>2, <1>u, <2>4 DEF Accounted, AddWindowDamage, Stale
  <2>5. QED
    BY <2>2, <2>3, <2>4
<1>3. ASSUME NEW q \in Quality, SendWindow(q)
      PROVE  Accounted(c, t)'
  <2>1. CASE c \notin Members(q)
    <3>1. view'[c][t] = view[c][t]
      BY <1>3, <2>1 DEF SendWindow, Show, GiveUp, ImagesTypeOK
    <3>2. \A cause : <<cause, c, t>> \in lost => <<cause, c, t>> \in lost'
      BY <1>3, <2>1 DEF SendWindow, Show, GiveUp
    <3>3. t \in damage[group[c]] /\ group[c] # Unknown => t \in damage'[group[c]]
      BY <1>3, <1>b, <2>1 DEF SendWindow, ResetDamage, ImagesTypeOK
    <3>4. QED
      BY <1>3, <1>a, <3>1, <3>2, <3>3 DEF Accounted, SendWindow, Stale, Pending
  <2>2. CASE c \in Members(q) /\ Show(q, Tile)
    BY <1>3, <2>2 DEF Accounted, SendWindow, Show, Stale, ImagesTypeOK
  <2>3. CASE c \in Members(q) /\ GiveUp("checksum", q, Tile)
    <3>1. "checksum" \in Cause /\ Members(q) \subseteq Client
      BY DEF Cause, Members
    <3>2. Stale(c, t)' => Stale(c, t)
      BY <1>3, <2>3 DEF Stale, SendWindow, GiveUp
    <3>3. Stale(c, t) => <<"checksum", c, t>> \in LostBy("checksum", Members(q), Tile)
      BY <2>3, <3>1, LostByHas
    <3>4. QED
      BY <2>3, <3>1, <3>2, <3>3 DEF Accounted, GiveUp
  <2>4. QED
    BY <1>3, <2>1, <2>2, <2>3 DEF SendWindow
<1>4. ASSUME NEW q \in Quality, SendAreas(q)
      PROVE  Accounted(c, t)'
  <2>1. CASE c \in Members(q) /\ t \in damage[q]
    BY <1>4, <2>1 DEF Accounted, SendAreas, Show, Stale, ImagesTypeOK
  <2>2. CASE ~(c \in Members(q) /\ t \in damage[q])
    BY <1>4, <1>a, <1>b, <2>2
       DEF Accounted, SendAreas, Show, ResetDamage, Stale, Pending, ImagesTypeOK
  <2>3. QED
    BY <2>1, <2>2
<1>5. ASSUME NEW q \in Quality, NEW failed \in SUBSET Tile, GrabFails(q, failed)
      PROVE  Accounted(c, t)'
  <2>1. CASE c \in Members(q) /\ t \in damage[q] \ failed
    BY <1>5, <2>1 DEF Accounted, GrabFails, Stale, ImagesTypeOK
  <2>2. CASE c \in Members(q) /\ t \in failed
    <3>1. "grab" \in Cause /\ Members(q) \subseteq Client
      BY DEF Cause, Members
    <3>2. Stale(c, t)' => Stale(c, t)
      BY <1>5, <2>2 DEF Stale, GrabFails, ImagesTypeOK
    <3>3. Stale(c, t) => <<"grab", c, t>> \in LostBy("grab", Members(q), failed)
      BY <2>2, <3>1, LostByHas
    <3>4. QED
      BY <1>5, <3>1, <3>2, <3>3 DEF Accounted, GrabFails
  <2>3. CASE ~(c \in Members(q) /\ t \in damage[q])
    BY <1>5, <1>a, <1>b, <2>3
       DEF Accounted, GrabFails, ResetDamage, Stale, Pending, ImagesTypeOK
  <2>4. QED
    BY <2>1, <2>2, <2>3
<1>d. ASSUME NEW d \in Client, NEW q \in Quality \cup {Unknown}, Regroup(d, q),
             c # d, group[c] # Unknown
      PROVE  group'[c] = group[c] /\ damage'[group[c]] = damage[group[c]]
  <2>1. group'[c] = group[c]
    BY <1>d DEF Regroup, ImagesTypeOK
  <2>2. group[c] \in Groups'
    BY <1>d, <2>1 DEF ImagesTypeOK, Groups, Members
  <2>3. QED
    BY <1>d, <1>c, <2>1, <2>2 DEF Regroup, ImagesTypeOK
<1>6. ASSUME NEW d \in Client, NEW q \in Quality, Join(d, q)
      PROVE  Accounted(c, t)'
  <2>1. CASE c = d
    BY <1>6, <1>a, <2>1 DEF Accounted, Join, Stale, Pending
  <2>2. CASE c # d /\ group[c] # Unknown
    BY <1>6, <1>a, <1>d, <2>2 DEF Accounted, Join, Stale, Pending
  <2>3. CASE c # d /\ group[c] = Unknown
    BY <1>6, <1>a, <2>3 DEF Accounted, Join, Stale, Pending
  <2>4. QED
    BY <2>1, <2>2, <2>3
<1>7. ASSUME NEW d \in Client, NEW q \in Quality, Move(d, q)
      PROVE  Accounted(c, t)'
  <2>1. CASE c = d /\ t \in damage[group[c]] \ damage'[q]
    <3>1. "move" \in Cause /\ {d} \subseteq Client
      BY DEF Cause
    <3>2. damage[group[d]] \ damage'[q] \in SUBSET Tile
      BY <1>7 DEF Move, ImagesTypeOK
    <3>3. Stale(c, t) => <<"move", c, t>> \in LostBy("move", {d}, damage[group[d]] \ damage'[q])
      BY <2>1, <3>1, <3>2, LostByHas
    <3>4. QED
      BY <1>7, <3>1, <3>3 DEF Accounted, Move, Stale
  <2>2. CASE c = d /\ t \notin damage[group[c]] \ damage'[q]
    <3>1. group'[c] = q /\ q # Unknown
      BY <1>7, <2>2 DEF Move, Regroup, ImagesTypeOK
    <3>2. QED
      BY <1>7, <1>a, <2>2, <3>1 DEF Accounted, Move, Stale, Pending
  <2>3. CASE c # d /\ group[c] # Unknown
    BY <1>7, <1>a, <1>d, <2>3 DEF Accounted, Move, Stale, Pending
  <2>4. CASE c # d /\ group[c] = Unknown
    BY <1>7, <1>a, <2>4 DEF Accounted, Move, Stale, Pending
  <2>5. QED
    BY <2>1, <2>2, <2>3, <2>4
<1>8. ASSUME NEW d \in Client, Leave(d)
      PROVE  Accounted(c, t)'
  <2>1. CASE c = d
    BY <1>8, <2>1 DEF Accounted, Leave, Stale, ImagesTypeOK
  <2>2. view'[c] = view[c] \/ c = d
    BY <1>8 DEF Leave, ImagesTypeOK
  <2>3. CASE c # d /\ group[c] # Unknown
    BY <1>8, <1>a, <1>d, <2>2, <2>3 DEF Accounted, Leave, Stale, Pending
  <2>4. CASE c # d /\ group[c] = Unknown
    BY <1>8, <1>a, <2>2, <2>4 DEF Accounted, Leave, Stale, Pending
  <2>5. QED
    BY <2>1, <2>3, <2>4
<1>9. ASSUME NEW d \in Client, RequestImage(d)
      PROVE  Accounted(c, t)'
  BY <1>9, <1>a DEF Accounted, RequestImage, Stale, Pending, ImagesTypeOK
<1>10. CASE UNCHANGED imagesVars
  BY <1>10, <1>a DEF Accounted, imagesVars, Stale, Pending
<1>11. QED
  BY <1>1, <1>2, <1>3, <1>4, <1>5, <1>6, <1>7, <1>8, <1>9, <1>10
     DEF ImagesNext, UpdateGroup

\* Every variable stays in its range and a group without clients keeps nothing,
\* however many clients, qualities, tiles and pixel values there are.
THEOREM ImagesTypes == ImagesSpec => []ImagesTypeOK
<1>1. ImagesInit => ImagesTypeOK
  BY ImagesAssumption DEF ImagesInit, ImagesTypeOK, NoChecksum
<1>2. ImagesTypeOK /\ [ImagesNext]_imagesVars => ImagesTypeOK'
  BY ImagesTypeStep
<1>3. QED
  BY <1>1, <1>2, PTL DEF ImagesSpec

\* A client that displays something out of date has an image due, unless its
\* damage was given up by a change of group, a failed grab or the checksum.
THEOREM StaleIsDue == ImagesSpec => []StaleIsAccountedFor
<1>1. ImagesInit => OutsidersShowNothing /\ StaleIsAccountedFor
  BY ImagesAssumption DEF ImagesInit, OutsidersShowNothing, StaleIsAccountedFor, Stale
<1>2. ImagesTypeOK /\ OutsidersShowNothing /\ [ImagesNext]_imagesVars
        => OutsidersShowNothing'
  BY OutsidersStep
<1>3. ImagesTypeOK /\ OutsidersShowNothing /\ StaleIsAccountedFor
        /\ [ImagesNext]_imagesVars => StaleIsAccountedFor'
  BY StaleStep
<1>4. QED
  BY <1>1, <1>2, <1>3, ImagesTypes, PTL DEF ImagesSpec

-----------------------------------------------------------------------------
(* Damaged areas *)

Rects == [left : Int, right : Int, bottom : Int, top : Int]

\* A hull has the pixels of both.
LEMMA HullCovers ==
  ASSUME NEW r \in Rects, NEW s \in Rects
  PROVE  Hull(r, s) \in Rects /\ Pixels(r) \cup Pixels(s) \subseteq Pixels(Hull(r, s))
<1>1. /\ Hull(r, s) \in Rects
      /\ Hull(r, s).left <= r.left /\ Hull(r, s).left <= s.left
      /\ Hull(r, s).bottom <= r.bottom /\ Hull(r, s).bottom <= s.bottom
      /\ r.right <= Hull(r, s).right /\ s.right <= Hull(r, s).right
      /\ r.top <= Hull(r, s).top /\ s.top <= Hull(r, s).top
  BY DEF Hull, Rects, Least, Greatest
<1> DEFINE h == Hull(r, s)
<1> HIDE DEF h
<1>2. /\ r.left .. r.right - 1 \subseteq h.left .. h.right - 1
      /\ s.left .. s.right - 1 \subseteq h.left .. h.right - 1
      /\ r.bottom .. r.top - 1 \subseteq h.bottom .. h.top - 1
      /\ s.bottom .. s.top - 1 \subseteq h.bottom .. h.top - 1
  BY <1>1 DEF h, Rects
<1>3. Pixels(r) \subseteq Pixels(h) /\ Pixels(s) \subseteq Pixels(h)
  BY <1>2 DEF Pixels
<1> QED BY <1>1, <1>3 DEF h

\* Where the pass over the areas a stands after i of them.
Passed(acc, r, a, i) ==
  /\ acc.hull \in Rects /\ acc.apart \in Seq(Rects) /\ Len(acc.apart) <= i
  /\ Pixels(r) \subseteq Pixels(acc.hull)
  /\ \A k \in 1..i : \/ Pixels(a[k]) \subseteq Pixels(acc.hull)
                     \/ \E j \in DOMAIN acc.apart : acc.apart[j] = a[k]
  /\ \E at \in [1..Len(acc.apart) -> 1..i] :
       /\ \A j \in 1..Len(acc.apart) : acc.apart[j] = a[at[j]]
       /\ \A j, l \in 1..Len(acc.apart) : j < l => at[j] < at[l]
  /\ Len(acc.apart) = i => acc.hull = r /\ \A k \in 1..i : ~Touches(a[k], r)

\* The pass is defined: one step of the recursion follows from the one before.
IsPass(f, r, a, n) ==
  f = [i \in 0..n |->
        IF i = 0 THEN [hull |-> r, apart |-> <<>>]
        ELSE LET acc == f[i - 1]
             IN IF Touches(a[i], acc.hull)
                THEN [hull |-> Hull(acc.hull, a[i]), apart |-> acc.apart]
                ELSE [hull |-> acc.hull, apart |-> Append(acc.apart, a[i])]]

LEMMA PassExists ==
  ASSUME NEW r, NEW a, NEW n \in Nat
  PROVE  \E f : IsPass(f, r, a, n)
<1> DEFINE T == {k \in Nat : ~\E f : IsPass(f, r, a, k)}
<1>1. SUFFICES ASSUME T # {} PROVE FALSE
  OBVIOUS
<1>2. PICK k \in T : \A l \in T : k <= l
  <2>1. T \subseteq Nat
    OBVIOUS
  <2> HIDE DEF T
  <2> QED BY <1>1, <2>1, NatMin
<1>3. CASE k = 0
  <2>1. IsPass([i \in 0..0 |-> [hull |-> r, apart |-> <<>>]], r, a, 0)
    BY DEF IsPass
  <2> QED BY <1>2, <1>3, <2>1
<1>4. CASE k # 0
  <2>1. k \in Nat /\ k - 1 \in Nat
    BY <1>2, <1>4
  <2>2. k - 1 \notin T
    BY <1>2, <2>1
  <2>3. PICK f : IsPass(f, r, a, k - 1)
    BY <2>1, <2>2
  <2> DEFINE Next(acc, x) == IF Touches(x, acc.hull)
                             THEN [hull |-> Hull(acc.hull, x), apart |-> acc.apart]
                             ELSE [hull |-> acc.hull, apart |-> Append(acc.apart, x)]
             g == [i \in 0..k |-> IF i = k THEN Next(f[k - 1], a[k]) ELSE f[i]]
  <2>4. \A i \in 0..(k - 1) :
          f[i] = IF i = 0 THEN [hull |-> r, apart |-> <<>>] ELSE Next(f[i - 1], a[i])
    BY <2>3 DEF IsPass
  <2> HIDE DEF Next
  <2>5. g = [i \in 0..k |-> IF i = 0 THEN [hull |-> r, apart |-> <<>>]
                                     ELSE Next(g[i - 1], a[i])]
    BY <2>1, <2>4, <1>4
  <2>6. IsPass(g, r, a, k)
    BY <2>5 DEF IsPass, Next
  <2> QED BY <1>2, <2>6
<1> QED BY <1>3, <1>4

\* An area that touches is merged and one that does not is kept.
LEMMA PassStep ==
  ASSUME NEW a \in Seq(Rects), NEW r \in Rects, NEW i \in 1..Len(a),
         NEW acc, Passed(acc, r, a, i - 1)
  PROVE  Passed(IF Touches(a[i], acc.hull)
                THEN [hull |-> Hull(acc.hull, a[i]), apart |-> acc.apart]
                ELSE [hull |-> acc.hull, apart |-> Append(acc.apart, a[i])], r, a, i)
<1> DEFINE hull == acc.hull
           apart == acc.apart
           n == Len(apart)
<1>1. /\ i \in Nat /\ i - 1 \in Nat /\ a[i] \in Rects
      /\ hull \in Rects /\ apart \in Seq(Rects) /\ n \in Nat /\ n <= i - 1
      /\ Pixels(r) \subseteq Pixels(hull)
      /\ n = i - 1 => hull = r /\ \A k \in 1..(i - 1) : ~Touches(a[k], r)
      /\ DOMAIN apart = 1..n
  BY DEF Passed
<1>2. \A k \in 1..(i - 1) : \/ Pixels(a[k]) \subseteq Pixels(hull)
                            \/ \E j \in DOMAIN apart : apart[j] = a[k]
  BY DEF Passed
<1>3. PICK at \in [1..n -> 1..(i - 1)] :
        /\ \A j \in 1..n : apart[j] = a[at[j]]
        /\ \A j, l \in 1..n : j < l => at[j] < at[l]
  BY DEF Passed
<1> HIDE DEF hull, apart, n
<1>4. CASE Touches(a[i], hull)
  <2> DEFINE new == [hull |-> Hull(hull, a[i]), apart |-> apart]
  <2>1. /\ Hull(hull, a[i]) \in Rects
        /\ Pixels(hull) \subseteq Pixels(Hull(hull, a[i]))
        /\ Pixels(a[i]) \subseteq Pixels(Hull(hull, a[i]))
    BY <1>1, HullCovers
  <2>2. new.hull = Hull(hull, a[i]) /\ new.apart = apart
    OBVIOUS
  <2>3. at \in [1..n -> 1..i]
    BY <1>1, <1>3
  <2>4. \A k \in 1..i : \/ Pixels(a[k]) \subseteq Pixels(Hull(hull, a[i]))
                        \/ \E j \in DOMAIN apart : apart[j] = a[k]
    <3> TAKE k \in 1..i
    <3>1. k \in 1..(i - 1) \/ k = i
      BY <1>1
    <3> QED BY <1>2, <2>1, <3>1
  <2>5. ~(n = i) /\ n <= i
    BY <1>1
  <2>6. \E at0 \in [1..n -> 1..i] :
          /\ \A j \in 1..n : apart[j] = a[at0[j]]
          /\ \A j, l \in 1..n : j < l => at0[j] < at0[l]
    BY <1>3, <2>3
  <2> HIDE DEF new
  <2>7. Passed(new, r, a, i)
    BY <1>1, <2>1, <2>2, <2>4, <2>5, <2>6 DEF Passed, n
  <2> QED BY <1>4, <2>7 DEF new, hull, apart
<1>5. CASE ~Touches(a[i], hull)
  <2> DEFINE longer == Append(apart, a[i])
             new == [hull |-> hull, apart |-> longer]
             at1 == [j \in 1..(n + 1) |-> IF j = n + 1 THEN i ELSE at[j]]
  <2>1. /\ longer \in Seq(Rects) /\ Len(longer) = n + 1 /\ DOMAIN longer = 1..(n + 1)
        /\ \A j \in 1..n : longer[j] = apart[j]
        /\ longer[n + 1] = a[i]
    BY <1>1 DEF n
  <2>2. new.hull = hull /\ new.apart = longer
    OBVIOUS
  <2> HIDE DEF longer, new
  <2>3. \A k \in 1..i : \/ Pixels(a[k]) \subseteq Pixels(hull)
                        \/ \E j \in DOMAIN longer : longer[j] = a[k]
    <3> TAKE k \in 1..i
    <3>1. CASE k = i
      BY <1>1, <2>1, <3>1
    <3>2. CASE k \in 1..(i - 1)
      <4>1. CASE \E j \in DOMAIN apart : apart[j] = a[k]
        <5>1. PICK j \in 1..n : apart[j] = a[k]
          BY <1>1, <4>1
        <5>2. j \in 1..(n + 1) /\ longer[j] = a[k]
          BY <1>1, <2>1, <5>1
        <5> QED BY <2>1, <5>2
      <4> QED BY <1>2, <3>2, <4>1
    <3> QED BY <1>1, <3>1, <3>2
  <2>4. at1 \in [1..(n + 1) -> 1..i]
    BY <1>1, <1>3
  <2>5. \A j \in 1..(n + 1) : longer[j] = a[at1[j]]
    BY <1>1, <1>3, <2>1
  <2>6. \A j, l \in 1..(n + 1) : j < l => at1[j] < at1[l]
    <3> TAKE j, l \in 1..(n + 1)
    <3>1. SUFFICES ASSUME j < l PROVE at1[j] < at1[l]
      OBVIOUS
    <3>2. j \in 1..n /\ at[j] \in 1..(i - 1)
      BY <1>1, <1>3, <3>1
    <3>3. CASE l = n + 1
      BY <1>1, <3>2, <3>3
    <3>4. CASE l \in 1..n
      BY <1>1, <1>3, <3>1, <3>2, <3>4
    <3> QED BY <1>1, <3>3, <3>4
  <2>7. \E at0 \in [1..(n + 1) -> 1..i] :
          /\ \A j \in 1..(n + 1) : longer[j] = a[at0[j]]
          /\ \A j, l \in 1..(n + 1) : j < l => at0[j] < at0[l]
    BY <2>4, <2>5, <2>6
  <2> HIDE DEF at1
  <2>8. n + 1 = i => hull = r /\ \A k \in 1..i : ~Touches(a[k], r)
    BY <1>1, <1>5
  <2>9. Passed(new, r, a, i)
    <3>1. n + 1 = Len(new.apart)
      BY <2>1, <2>2
    <3>2. \E at0 \in [1..Len(new.apart) -> 1..i] :
            /\ \A j \in 1..Len(new.apart) : new.apart[j] = a[at0[j]]
            /\ \A j, l \in 1..Len(new.apart) : j < l => at0[j] < at0[l]
      BY <2>2, <2>7, <3>1
    <3>3. new.hull \in Rects /\ new.apart \in Seq(Rects) /\ Pixels(r) \subseteq Pixels(new.hull)
      BY <1>1, <2>1, <2>2
    <3>4. Len(new.apart) <= i
      BY <1>1, <3>1
    <3>5. ASSUME Len(new.apart) = i PROVE new.hull = r /\ \A k \in 1..i : ~Touches(a[k], r)
      BY <2>2, <2>8, <3>1, <3>5
    <3>6. \A k \in 1..i : \/ Pixels(a[k]) \subseteq Pixels(new.hull)
                          \/ \E j \in DOMAIN new.apart : new.apart[j] = a[k]
      BY <2>2, <2>3
    <3> QED BY <3>2, <3>3, <3>4, <3>5, <3>6 DEF Passed
  <2> QED BY <1>5, <2>9 DEF new, longer, hull, apart
<1> QED BY <1>4, <1>5

\* The pass over all the areas.
LEMMA PassHolds ==
  ASSUME NEW a \in Seq(Rects), NEW r \in Rects, NEW f, IsPass(f, r, a, Len(a))
  PROVE  \A i \in 0..Len(a) : Passed(f[i], r, a, i)
<1> DEFINE T == {i \in 0..Len(a) : ~Passed(f[i], r, a, i)}
<1>1. SUFFICES ASSUME T # {} PROVE FALSE
  OBVIOUS
<1>2. PICK i \in T : \A l \in T : i <= l
  <2>1. T \subseteq Nat
    OBVIOUS
  <2> HIDE DEF T
  <2> QED BY <1>1, <2>1, NatMin
<1>3. Len(a) \in Nat /\ i \in 0..Len(a)
  OBVIOUS
<1>4. CASE i = 0
  <2>1. f[0] = [hull |-> r, apart |-> <<>>]
    BY <1>3 DEF IsPass
  <2>2. f[0].hull = r /\ f[0].apart = <<>>
    BY <2>1
  <2>3. <<>> \in Seq(Rects) /\ Len(<<>>) = 0
    OBVIOUS
  <2> DEFINE acc == f[0]
  <2>4. acc.hull = r /\ acc.apart = <<>> /\ Len(acc.apart) = 0
    BY <2>2, <2>3
  <2> HIDE DEF acc
  <2>5. \E at \in [1..Len(acc.apart) -> 1..0] :
          /\ \A j \in 1..Len(acc.apart) : acc.apart[j] = a[at[j]]
          /\ \A j, l \in 1..Len(acc.apart) : j < l => at[j] < at[l]
    <3>1. [j \in 1..Len(acc.apart) |-> 0] \in [1..Len(acc.apart) -> 1..0]
      BY <2>4
    <3>2. \A j \in 1..Len(acc.apart) : FALSE
      BY <2>4
    <3> QED BY <3>1, <3>2
  <2>6. Passed(acc, r, a, 0)
    <3>1. \A k \in 1..0 : FALSE
      OBVIOUS
    <3>2. acc.hull \in Rects /\ acc.apart \in Seq(Rects) /\ Len(acc.apart) <= 0
      BY <2>3, <2>4
    <3>3. Pixels(r) \subseteq Pixels(acc.hull)
      BY <2>4
    <3> QED BY <2>4, <2>5, <3>1, <3>2, <3>3, Zenon DEF Passed
  <2> QED BY <1>2, <1>4, <2>6 DEF acc
<1>5. CASE i # 0
  <2>1. i \in 1..Len(a) /\ i - 1 \in 0..Len(a)
    BY <1>3, <1>5
  <2>2. i - 1 \notin T
    BY <1>2, <2>1
  <2>3. Passed(f[i - 1], r, a, i - 1)
    BY <2>1, <2>2
  <2>4. f[i] = IF Touches(a[i], f[i - 1].hull)
               THEN [hull |-> Hull(f[i - 1].hull, a[i]), apart |-> f[i - 1].apart]
               ELSE [hull |-> f[i - 1].hull, apart |-> Append(f[i - 1].apart, a[i])]
    BY <1>3, <1>5 DEF IsPass
  <2> DEFINE acc == f[i - 1]
  <2> HIDE DEF acc
  <2>5. Passed(IF Touches(a[i], acc.hull)
               THEN [hull |-> Hull(acc.hull, a[i]), apart |-> acc.apart]
               ELSE [hull |-> acc.hull, apart |-> Append(acc.apart, a[i])], r, a, i)
    BY <2>1, <2>3, PassStep DEF acc
  <2>6. Passed(f[i], r, a, i)
    BY <2>4, <2>5 DEF acc
  <2> QED BY <1>2, <2>6
<1> QED BY <1>4, <1>5

\* What addDamageRecange makes of the areas.
LEMMA MergedIs ==
  ASSUME NEW r \in Rects, areas \in Seq(Rects)
  PROVE  Passed(Merged(r)[Len(areas)], r, areas, Len(areas))
<1>1. Len(areas) \in Nat
  OBVIOUS
<1>2. \E f : IsPass(f, r, areas, Len(areas))
  BY <1>1, PassExists
<1>3. IsPass(Merged(r), r, areas, Len(areas))
  BY <1>2 DEF IsPass, Merged
<1>4. \A i \in 0..Len(areas) : Passed(Merged(r)[i], r, areas, i)
  <2> DEFINE a == areas
             f == Merged(r)
  <2>1. a \in Seq(Rects) /\ IsPass(f, r, a, Len(a))
    BY <1>3
  <2> HIDE DEF a, f
  <2>2. \A i \in 0..Len(a) : Passed(f[i], r, a, i)
    BY <2>1, PassHolds
  <2> QED BY <2>2 DEF a, f
<1> QED BY <1>1, <1>4

-----------------------------------------------------------------------------
(* The damage of a window *)

DamageTypeOK ==
  /\ size \in Size /\ display \in Size
  /\ areas \in Seq(Rects)
  /\ paints \in Nat /\ resizes \in Nat

\* Only pixels of the window wait to be sent: so the whole window covers them.
StaleIsInside == stale \subseteq Pixels(WholeOf(size))

LEMMA SizesAreRects ==
  ASSUME NEW s \in Size
  PROVE  /\ s.width \in Nat \ {0} /\ s.height \in Nat \ {0}
         /\ WholeOf(s) \in Rects
BY DamageAssumption DEF WholeOf, Rectangle, Rects

\* A rectangle within the window has pixels of the window only.
LEMMA PaintedIsInside ==
  ASSUME size \in Size,
         NEW left \in 0 .. size.width - 1, NEW bottom \in 0 .. size.height - 1,
         NEW right \in left + 1 .. size.width, NEW top \in bottom + 1 .. size.height,
         NEW r, r = Rectangle(left, bottom, right - left, top - bottom)
  PROVE  r \in Rects /\ Pixels(r) \subseteq Pixels(WholeOf(size))
<1>1. size.width \in Nat /\ size.height \in Nat
  BY SizesAreRects
<1>2. /\ left \in Int /\ right \in Int /\ 0 <= left /\ right <= size.width
      /\ bottom \in Int /\ top \in Int /\ 0 <= bottom /\ top <= size.height
  BY <1>1
<1>3. r.left = left /\ r.right = right /\ r.bottom = bottom /\ r.top = top /\ r \in Rects
  BY <1>2 DEF Rectangle, Rects
<1>4. /\ WholeOf(size).left = 0 /\ WholeOf(size).right = size.width
      /\ WholeOf(size).bottom = 0 /\ WholeOf(size).top = size.height
  BY <1>1 DEF WholeOf, Rectangle
<1>5. /\ r.left .. r.right - 1 \subseteq 0 .. size.width - 1
      /\ r.bottom .. r.top - 1 \subseteq 0 .. size.height - 1
  BY <1>1, <1>2, <1>3
<1> QED BY <1>3, <1>4, <1>5 DEF Pixels

\* What addDamageRecange leaves: the new area is damaged and what was damaged still is.
LEMMA AddedIsDamaged ==
  ASSUME areas \in Seq(Rects), NEW r \in Rects, AddDamageArea(r)
  PROVE  /\ areas' \in Seq(Rects)
         /\ PixelsOf(ToSet(areas)) \cup Pixels(r) \subseteq PixelsOf(ToSet(areas'))
<1> DEFINE acc == Merged(r)[Len(areas)]
<1>1. Passed(acc, r, areas, Len(areas))
  BY MergedIs
<1>2. areas' = Append(acc.apart, acc.hull)
  BY DEF AddDamageArea
<1> HIDE DEF acc
<1> DEFINE n == Len(acc.apart)
<1>3. /\ acc.hull \in Rects /\ acc.apart \in Seq(Rects)
      /\ Pixels(r) \subseteq Pixels(acc.hull)
      /\ \A k \in 1..Len(areas) : \/ Pixels(areas[k]) \subseteq Pixels(acc.hull)
                                  \/ \E j \in DOMAIN acc.apart : acc.apart[j] = areas[k]
  BY <1>1, Zenon DEF Passed
<1>4. /\ n \in Nat /\ DOMAIN acc.apart = 1..n
      /\ areas' \in Seq(Rects) /\ DOMAIN areas' = 1..(n + 1)
      /\ \A j \in 1..n : areas'[j] = acc.apart[j]
      /\ areas'[n + 1] = acc.hull
  BY <1>2, <1>3
<1> HIDE DEF n
<1>5. \A x \in DOMAIN areas' : Pixels(areas'[x]) \subseteq PixelsOf(ToSet(areas'))
  BY DEF PixelsOf, ToSet
<1>6. Pixels(acc.hull) \subseteq PixelsOf(ToSet(areas'))
  BY <1>4, <1>5
<1>7. ASSUME NEW k \in 1..Len(areas)
      PROVE  Pixels(areas[k]) \subseteq PixelsOf(ToSet(areas'))
  <2>1. CASE Pixels(areas[k]) \subseteq Pixels(acc.hull)
    BY <1>6, <2>1
  <2>2. CASE \E j \in DOMAIN acc.apart : acc.apart[j] = areas[k]
    <3>1. PICK j \in 1..n : acc.apart[j] = areas[k]
      BY <1>4, <2>2
    <3>2. j \in DOMAIN areas' /\ areas'[j] = areas[k]
      BY <1>4, <3>1
    <3> QED BY <1>5, <3>2
  <2> QED BY <1>3, <2>1, <2>2
<1>8. PixelsOf(ToSet(areas)) \subseteq PixelsOf(ToSet(areas'))
  <2>1. DOMAIN areas = 1..Len(areas)
    OBVIOUS
  <2> QED BY <1>7, <2>1 DEF PixelsOf, ToSet
<1> QED BY <1>3, <1>4, <1>6, <1>8

\* What is kept apart keeps its order, so that its areas lie as they did; and the new one
\* touches none of them unless it has grown.
LEMMA AddedIsApart ==
  ASSUME areas \in Seq(Rects), NEW r \in Rects, AddDamageArea(r), ApartUnlessGrown
  PROVE  ApartUnlessGrown'
<1> DEFINE acc == Merged(r)[Len(areas)]
<1>1. Passed(acc, r, areas, Len(areas))
  BY MergedIs
<1>2. /\ areas' = Append(acc.apart, acc.hull)
      /\ grown' = (grown \cap ToSet(acc.apart))
                  \cup (IF Len(acc.apart) < Len(areas) THEN {acc.hull} ELSE {})
  BY DEF AddDamageArea
<1> HIDE DEF acc
<1> DEFINE n == Len(acc.apart)
           m == Len(areas)
<1>3. acc.hull \in Rects /\ acc.apart \in Seq(Rects) /\ n <= m
  BY <1>1, Zenon DEF Passed
<1>4. /\ n \in Nat /\ m \in Nat /\ DOMAIN acc.apart = 1..n /\ DOMAIN areas = 1..m
      /\ DOMAIN areas' = 1..(n + 1)
      /\ \A j \in 1..n : areas'[j] = acc.apart[j]
      /\ areas'[n + 1] = acc.hull
  BY <1>2, <1>3
<1>5. PICK at \in [1..n -> 1..m] :
        /\ \A j \in 1..n : acc.apart[j] = areas[at[j]]
        /\ \A j, l \in 1..n : j < l => at[j] < at[l]
  BY <1>1, Zenon DEF Passed
<1>6. n = m => acc.hull = r /\ \A k \in 1..m : ~Touches(areas[k], r)
  BY <1>1, Zenon DEF Passed
<1> HIDE DEF n, m
<1>7. SUFFICES ASSUME NEW i \in 1..(n + 1), NEW j \in 1..(n + 1), i < j,
                      OverlapOrTouching(areas'[i], areas'[j])
               PROVE  areas'[j] \in grown'
  BY <1>4 DEF ApartUnlessGrown
<1>8. i \in 1..n /\ at[i] \in 1..m /\ areas'[i] = areas[at[i]]
  BY <1>4, <1>5, <1>7
<1>9. CASE j \in 1..n
  <2>1. at[j] \in 1..m /\ areas'[j] = areas[at[j]] /\ at[i] < at[j]
    BY <1>4, <1>5, <1>7, <1>8, <1>9
  <2>2. areas[at[j]] \in grown
    BY <1>4, <1>7, <1>8, <2>1 DEF ApartUnlessGrown
  <2>3. areas'[j] \in ToSet(acc.apart)
    BY <1>4, <1>9 DEF ToSet
  <2> QED BY <1>2, <2>1, <2>2, <2>3
<1>10. CASE j = n + 1
  <2>1. CASE n < m
    BY <1>2, <1>4, <1>10, <2>1 DEF n, m
  <2>2. CASE n = m
    <3>1. OverlapOrTouching(areas[at[i]], r)
      BY <1>4, <1>6, <1>7, <1>8, <1>10, <2>2
    <3> QED BY <1>6, <1>8, <2>2, <3>1 DEF Touches
  <2> QED BY <1>3, <1>4, <2>1, <2>2 DEF n, m
<1> QED BY <1>4, <1>9, <1>10

LEMMA NoAreas ==
  ASSUME areas' = <<>>
  PROVE  areas' \in Seq(Rects) /\ ApartUnlessGrown'
<1>1. DOMAIN areas' = {}
  OBVIOUS
<1> QED BY <1>1 DEF ApartUnlessGrown

\* The sizes are always two of those the window may have.
LEMMA DamageStep ==
  ASSUME DamageTypeOK, StaleIsInside, StaleIsDamaged, ApartUnlessGrown,
         [DamageNext]_damageVars
  PROVE  (DamageTypeOK /\ StaleIsInside /\ StaleIsDamaged /\ ApartUnlessGrown)'
<1>1. size \in Size /\ areas \in Seq(Rects)
  BY DEF DamageTypeOK
<1>2. ASSUME NEW left \in 0 .. size.width - 1, NEW bottom \in 0 .. size.height - 1,
             NEW right \in left + 1 .. size.width, NEW top \in bottom + 1 .. size.height,
             Paint(Rectangle(left, bottom, right - left, top - bottom))
      PROVE  (DamageTypeOK /\ StaleIsInside /\ StaleIsDamaged /\ ApartUnlessGrown)'
  <2> DEFINE r == Rectangle(left, bottom, right - left, top - bottom)
  <2>1. r \in Rects /\ Pixels(r) \subseteq Pixels(WholeOf(size))
    BY <1>1, PaintedIsInside
  <2>2. Paint(r)
    BY <1>2
  <2> HIDE DEF r
  <2>3. AddDamageArea(r)
    BY <2>2 DEF Paint
  <2>4. /\ areas' \in Seq(Rects)
        /\ PixelsOf(ToSet(areas)) \cup Pixels(r) \subseteq PixelsOf(ToSet(areas'))
    BY <1>1, <2>1, <2>3, AddedIsDamaged
  <2>5. ApartUnlessGrown'
    BY <1>1, <2>1, <2>3, AddedIsApart
  <2>6. DamageTypeOK'
    BY <2>2, <2>4 DEF Paint, DamageTypeOK
  <2>7. StaleIsInside'
    BY <2>1, <2>2 DEF Paint, StaleIsInside, WholeOf
  <2>8. StaleIsDamaged'
    BY <2>2, <2>4 DEF Paint, StaleIsDamaged
  <2> QED BY <2>5, <2>6, <2>7, <2>8
<1>3. ASSUME NEW s \in Size, Resize(s)
      PROVE  (DamageTypeOK /\ StaleIsInside /\ StaleIsDamaged /\ ApartUnlessGrown)'
  <2>1. DamageTypeOK'
    BY <1>3 DEF Resize, DamageTypeOK
  <2>2. StaleIsInside'
    BY <1>3 DEF Resize, StaleIsInside, WholeOf
  <2>3. StaleIsDamaged'
    BY <1>3 DEF Resize, StaleIsDamaged
  <2>4. ApartUnlessGrown'
    BY <1>3 DEF Resize, ApartUnlessGrown
  <2> QED BY <2>1, <2>2, <2>3, <2>4
<1>4. CASE UpdateVisibleWindows
  BY <1>4 DEF UpdateVisibleWindows, DamageTypeOK, StaleIsInside, StaleIsDamaged,
     ApartUnlessGrown, WholeOf
<1>5. CASE UpdateClientWindows
  <2> DEFINE sent == IF SendsWhole(display) THEN {WholeOf(size)}
                     ELSE {a \in ToSet(areas) : ContainsRectangle(WholeOf(size), a)}
             outside == IF SendsWhole(display) THEN {} ELSE ToSet(areas) \ sent
  <2>1. /\ display' = size /\ size' = size /\ areas' = <<>>
        /\ stale' = stale \ PixelsOf(sent)
        /\ refused' = (refused \cup (stale \cap PixelsOf(outside))) \ PixelsOf(sent)
        /\ UNCHANGED <<paints, resizes>>
    BY <1>5 DEF UpdateClientWindows
  <2>2. stale \subseteq PixelsOf(sent) \cup PixelsOf(outside) \cup refused
    <3>1. CASE SendsWhole(display)
      <4>1. WholeOf(size) \in sent
        BY <3>1
      <4>2. Pixels(WholeOf(size)) \subseteq PixelsOf(sent)
        BY <4>1 DEF PixelsOf
      <4> QED BY <4>2 DEF StaleIsInside
    <3>2. CASE ~SendsWhole(display)
      <4>1. ToSet(areas) \subseteq sent \cup outside
        BY <3>2
      <4> HIDE DEF sent, outside
      <4>2. PixelsOf(ToSet(areas)) \subseteq PixelsOf(sent) \cup PixelsOf(outside)
        BY <4>1 DEF PixelsOf
      <4> QED BY <4>2 DEF StaleIsDamaged
    <3> QED BY <3>1, <3>2
  <2> HIDE DEF sent, outside
  <2>3. StaleIsDamaged'
    <3>1. stale' \subseteq refused'
      BY <2>1, <2>2
    <3> QED BY <3>1 DEF StaleIsDamaged
  <2>4. StaleIsInside'
    BY <2>1 DEF StaleIsInside, WholeOf
  <2>5. areas' \in Seq(Rects) /\ ApartUnlessGrown'
    BY <2>1, NoAreas
  <2>6. DamageTypeOK'
    BY <1>1, <2>1, <2>5 DEF DamageTypeOK
  <2> QED BY <2>3, <2>4, <2>5, <2>6
<1>6. CASE UNCHANGED damageVars
  BY <1>6 DEF damageVars, DamageTypeOK, StaleIsInside, StaleIsDamaged, ApartUnlessGrown,
     WholeOf
<1> QED BY <1>2, <1>3, <1>4, <1>5, <1>6 DEF DamageNext

LEMMA DamageInitHolds ==
  DamageInit => DamageTypeOK /\ StaleIsInside /\ StaleIsDamaged /\ ApartUnlessGrown
<1>1. SUFFICES ASSUME DamageInit
               PROVE  DamageTypeOK /\ StaleIsInside /\ StaleIsDamaged /\ ApartUnlessGrown
  OBVIOUS
<1>2. DOMAIN areas = {} /\ areas \in Seq(Rects)
  BY <1>1 DEF DamageInit
<1> QED BY <1>1, <1>2
        DEF DamageInit, DamageTypeOK, StaleIsInside, StaleIsDamaged, ApartUnlessGrown

\* Every pixel that has changed is in an area that is kept or was refused for lying
\* outside the window, and the areas lie apart unless one has grown: for any sizes, any
\* rectangles and any number of them.
THEOREM DamageInvariant ==
  DamageSpec => [](DamageTypeOK /\ StaleIsInside /\ StaleIsDamaged /\ ApartUnlessGrown)
<1>1. (DamageTypeOK /\ StaleIsInside /\ StaleIsDamaged /\ ApartUnlessGrown)
        /\ [DamageNext]_damageVars
      => (DamageTypeOK /\ StaleIsInside /\ StaleIsDamaged /\ ApartUnlessGrown)'
  BY DamageStep
<1> QED BY <1>1, DamageInitHolds, PTL DEF DamageSpec

\* Merging the areas of WebXWindowDamage, however they overlap, loses no changed pixel.
THEOREM MergingLosesNothing == DamageSpec => []StaleIsDamaged
BY DamageInvariant, PTL

\* No two areas overlap or touch, unless the area that was merged grew into one that the
\* loop had already passed.
THEOREM AreasLieApart == DamageSpec => []ApartUnlessGrown
BY DamageInvariant, PTL

-----------------------------------------------------------------------------
(* Bounded sets of integers *)

LEMMA IntMin ==
  ASSUME NEW S, S \subseteq Int, S # {}, NEW B \in Int, \A x \in S : B <= x
  PROVE  \E x \in S : \A y \in S : x <= y
<1> DEFINE T == {n \in Nat : B + n \in S}
<1>1. \A x \in S : x - B \in T
  OBVIOUS
<1>2. T \subseteq Nat /\ T # {}
  BY <1>1
<1>3. \A n \in T : n \in Nat /\ B + n \in S
  OBVIOUS
<1> HIDE DEF T
<1>4. PICK n \in T : \A k \in T : n <= k
  BY <1>2, NatMin
<1>5. B + n \in S /\ \A y \in S : B + n <= y
  BY <1>1, <1>3, <1>4
<1> QED BY <1>5

LEMMA IntMax ==
  ASSUME NEW S, S \subseteq Int, S # {}, NEW B \in Int, \A x \in S : x <= B
  PROVE  Max(S) \in S /\ \A y \in S : y <= Max(S)
<1> DEFINE T == {n \in Nat : B - n \in S}
<1>1. \A x \in S : B - x \in T
  OBVIOUS
<1>2. T \subseteq Nat /\ T # {}
  BY <1>1
<1>3. \A n \in T : n \in Nat /\ B - n \in S
  OBVIOUS
<1> HIDE DEF T
<1>4. PICK n \in T : \A k \in T : n <= k
  BY <1>2, NatMin
<1>5. B - n \in S /\ \A y \in S : B - n >= y
  BY <1>1, <1>3, <1>4
<1>6. \E x \in S : \A y \in S : x >= y
  BY <1>5
<1> DEFINE x == CHOOSE x \in S : \A y \in S : x >= y
<1>7. x \in S /\ \A y \in S : x >= y
  BY <1>6
<1>8. Max(S) = x
  BY DEF Max
<1> HIDE DEF x
<1> QED BY <1>7, <1>8

-----------------------------------------------------------------------------
(* The pointer *)

LEMMA ClipIs ==
  ASSUME NEW b \in Rects, NEW r \in Rects
  PROVE  /\ Clip(b, r) \in Rects
         /\ r.left <= Clip(b, r).left /\ b.left <= Clip(b, r).left
         /\ Clip(b, r).right <= r.right /\ Clip(b, r).right <= b.right
         /\ r.bottom <= Clip(b, r).bottom /\ b.bottom <= Clip(b, r).bottom
         /\ Clip(b, r).top <= r.top /\ Clip(b, r).top <= b.top
         /\ Clip(b, r).left = r.left \/ Clip(b, r).left = b.left
         /\ Clip(b, r).right = r.right \/ Clip(b, r).right = b.right
         /\ Clip(b, r).bottom = r.bottom \/ Clip(b, r).bottom = b.bottom
         /\ Clip(b, r).top = r.top \/ Clip(b, r).top = b.top
BY DEF Clip, Rects, Least, Greatest

LEMMA KeyIs ==
  ASSUME NEW b \in Rects, NEW r \in Rects
  PROVE  /\ Key(Clip(b, r), r) \in [1..6 -> Int]
         /\ Key(Clip(b, r), r)[1] = Clip(b, r).bottom
<1> DEFINE c == Clip(b, r)
<1>1. c \in Rects
  BY ClipIs
<1> HIDE DEF c
<1>2. Key(c, r) \in [1..6 -> Int] /\ Key(c, r)[1] = c.bottom
  BY <1>1 DEF Key, Rects
<1> QED BY <1>2 DEF c

LEMMA PrecedesOrder ==
  ASSUME NEW k \in [1..6 -> Int], NEW l \in [1..6 -> Int], NEW m \in [1..6 -> Int]
  PROVE  /\ ~Precedes(k, k)
         /\ Precedes(k, l) /\ Precedes(l, m) => Precedes(k, m)
         /\ Precedes(k, l) => k[1] <= l[1]
<1>1. ~Precedes(k, k)
  BY DEF Precedes
<1>2. ASSUME Precedes(k, l), Precedes(l, m) PROVE Precedes(k, m)
  <2>1. PICK n \in 1..6 : k[n] < l[n] /\ \A o \in 1..(n - 1) : k[o] = l[o]
    BY <1>2 DEF Precedes
  <2>2. PICK p \in 1..6 : l[p] < m[p] /\ \A o \in 1..(p - 1) : l[o] = m[o]
    BY <1>2 DEF Precedes
  <2>3. CASE n < p
    <3>1. k[n] < m[n] /\ \A o \in 1..(n - 1) : k[o] = m[o]
      BY <2>1, <2>2, <2>3
    <3> QED BY <3>1 DEF Precedes
  <2>4. CASE p < n
    <3>1. k[p] < m[p] /\ \A o \in 1..(p - 1) : k[o] = m[o]
      BY <2>1, <2>2, <2>4
    <3> QED BY <3>1 DEF Precedes
  <2>5. CASE p = n
    <3>1. k[p] < m[p] /\ \A o \in 1..(p - 1) : k[o] = m[o]
      BY <2>1, <2>2, <2>5
    <3> QED BY <3>1 DEF Precedes
  <2> QED BY <2>3, <2>4, <2>5
<1>3. ASSUME Precedes(k, l) PROVE k[1] <= l[1]
  <2>1. PICK n \in 1..6 : k[n] < l[n] /\ \A o \in 1..(n - 1) : k[o] = l[o]
    BY <1>3 DEF Precedes
  <2>2. CASE n = 1
    BY <2>1, <2>2
  <2>3. CASE n # 1
    <3>1. 1 \in 1..(n - 1)
      BY <2>3
    <3> QED BY <2>1, <3>1
  <2> QED BY <2>2, <2>3
<1> QED BY <1>1, <1>2, <1>3

LEMMA BeforeOrder ==
  ASSUME NEW b \in Rects, NEW r \in Rects, NEW s \in Rects, NEW t \in Rects
  PROVE  /\ ~Before(b, r, r)
         /\ Before(b, r, s) /\ Before(b, s, t) => Before(b, r, t)
         /\ Before(b, r, s) => Clip(b, r).bottom <= Clip(b, s).bottom
<1> DEFINE k == Key(Clip(b, r), r)
           l == Key(Clip(b, s), s)
           m == Key(Clip(b, t), t)
<1>1. /\ k \in [1..6 -> Int] /\ l \in [1..6 -> Int] /\ m \in [1..6 -> Int]
      /\ k[1] = Clip(b, r).bottom /\ l[1] = Clip(b, s).bottom
  BY KeyIs
<1>2. /\ Before(b, r, r) <=> Precedes(k, k)
      /\ Before(b, r, s) <=> Precedes(k, l)
      /\ Before(b, s, t) <=> Precedes(l, m)
      /\ Before(b, r, t) <=> Precedes(k, m)
  BY DEF Before
<1> HIDE DEF k, l, m
<1> QED BY <1>1, <1>2, PrecedesOrder

\* Among finitely many areas one comes first: no other one comes before it.
LEMMA OneIsFirst ==
  ASSUME NEW b \in Rects, NEW C, C \subseteq Rects, IsFiniteSet(C), C # {}
  PROVE  \E r \in C : \A s \in C : ~Before(b, s, r)
<1> DEFINE P(r) == {s \in C : Before(b, s, r)}
           N == {Cardinality(P(r)) : r \in C}
<1>1. \A r \in C : IsFiniteSet(P(r)) /\ Cardinality(P(r)) \in Nat
  <2> TAKE r \in C
  <2>1. P(r) \subseteq C
    OBVIOUS
  <2> HIDE DEF P
  <2> QED BY <2>1, FS_Subset, FS_CardinalityType
<1>2. N \subseteq Nat /\ N # {}
  BY <1>1
<1>3. PICK n \in N : \A x \in N : n <= x
  <2> HIDE DEF N
  <2> QED BY <1>2, NatMin
<1>4. PICK r \in C : n = Cardinality(P(r))
  OBVIOUS
<1>5. ASSUME NEW s \in C, Before(b, s, r) PROVE FALSE
  <2>1. \A t \in C : Before(b, t, s) => Before(b, t, r)
    BY <1>5, BeforeOrder
  <2>2. ~Before(b, s, s)
    BY <1>5, BeforeOrder
  <2>3. P(s) \subseteq P(r) /\ s \in P(r) /\ s \notin P(s)
    BY <1>5, <2>1, <2>2
  <2>4. Cardinality(P(s)) \in N /\ n <= Cardinality(P(s))
    BY <1>3, <1>5
  <2>5. IsFiniteSet(P(r)) /\ Cardinality(P(r)) \in Nat /\ Cardinality(P(s)) \in Nat
    BY <1>1, <1>5
  <2> HIDE DEF P, N
  <2>6. Cardinality(P(s)) < Cardinality(P(r))
    BY <2>3, <2>5, FS_Subset
  <2> QED BY <1>4, <2>4, <2>5, <2>6
<1> QED BY <1>5

\* Where an interval starts to count: at its own lower end, at height 0, or where the
\* highest of those before it ends.
LEMMA LowerIs ==
  ASSUME NEW b \in Rects, NEW A, A \subseteq Rects, NEW r \in A
  PROVE  LET H == {0, Clip(b, r).bottom} \cup {Clip(b, s).top : s \in {s \in A : Before(b, s, r)}}
         IN Lower(b, A, r) \in H /\ \A h \in H : h \in Int /\ h <= Lower(b, A, r)
<1> DEFINE H == {0, Clip(b, r).bottom} \cup {Clip(b, s).top : s \in {s \in A : Before(b, s, r)}}
           B == IF 0 > b.top THEN (IF 0 > Clip(b, r).bottom THEN 0 ELSE Clip(b, r).bottom)
                ELSE (IF b.top > Clip(b, r).bottom THEN b.top ELSE Clip(b, r).bottom)
<1>1. \A s \in A : Clip(b, s).top \in Int /\ Clip(b, s).bottom \in Int /\ Clip(b, s).top <= b.top
  BY ClipIs DEF Rects
<1>2. b.top \in Int
  BY DEF Rects
<1>3. B \in Int /\ 0 <= B /\ Clip(b, r).bottom <= B /\ b.top <= B
  BY <1>1, <1>2
<1> HIDE DEF B
<1>4. H \subseteq Int /\ 0 \in H
  BY <1>1
<1>5. \A h \in H : h <= B
  BY <1>1, <1>2, <1>3
<1>6. Lower(b, A, r) = Max(H)
  BY DEF Lower
<1> HIDE DEF H
<1>7. Max(H) \in H /\ \A h \in H : h <= Max(H)
  BY <1>3, <1>4, <1>5, IntMax
<1>8. Lower(b, A, r) \in H /\ \A h \in H : h \in Int /\ h <= Lower(b, A, r)
  BY <1>4, <1>6, <1>7
<1> QED BY <1>8 DEF H

\* The intervals of a strip, each measured from where those before it end, hide what the
\* intervals themselves do.
LEMMA LowerHides ==
  ASSUME NEW b \in Rects, NEW A, A \subseteq Rects, IsFiniteSet(A), NEW y \in Nat
  PROVE  (\E r \in A : Lower(b, A, r) <= y /\ y <= Clip(b, r).top)
         <=> (\E r \in A : Clip(b, r).bottom <= y /\ y <= Clip(b, r).top)
<1>1. ASSUME NEW r \in A
      PROVE  LET H == {0, Clip(b, r).bottom} \cup {Clip(b, s).top : s \in {s \in A : Before(b, s, r)}}
             IN Lower(b, A, r) \in H /\ \A h \in H : h \in Int /\ h <= Lower(b, A, r)
  BY LowerIs
<1>2. ASSUME NEW r \in A, Lower(b, A, r) <= y
      PROVE  Clip(b, r).bottom <= y
  <2>1. Clip(b, r).bottom <= Lower(b, A, r) /\ Clip(b, r).bottom \in Int
        /\ Lower(b, A, r) \in Int
    BY <1>1
  <2> QED BY <1>2, <2>1
<1>3. ASSUME NEW q \in A, Clip(b, q).bottom <= y, y <= Clip(b, q).top
      PROVE  \E r \in A : Lower(b, A, r) <= y /\ y <= Clip(b, r).top
  <2> DEFINE C == {r \in A : Clip(b, r).bottom <= y /\ y <= Clip(b, r).top}
  <2>1. C \subseteq A /\ q \in C
    BY <1>3
  <2>2. \A r \in C : Clip(b, r).bottom <= y /\ y <= Clip(b, r).top
    OBVIOUS
  <2>3. \A s \in A : Clip(b, s).bottom <= y /\ y <= Clip(b, s).top => s \in C
    OBVIOUS
  <2> HIDE DEF C
  <2>4. PICK r \in C : \A s \in C : ~Before(b, s, r)
    BY <2>1, FS_Subset, OneIsFirst
  <2>5. \A s \in A : Clip(b, s).top \in Int /\ Clip(b, s).bottom \in Int
    BY ClipIs DEF Rects
  <2>6. ASSUME NEW s \in A, Before(b, s, r) PROVE Clip(b, s).top <= y
    <3>1. Clip(b, s).bottom <= Clip(b, r).bottom
      BY <2>1, <2>6, BeforeOrder
    <3>2. s \notin C
      BY <2>4, <2>6
    <3> QED BY <2>1, <2>2, <2>3, <2>5, <3>1, <3>2
  <2>7. Lower(b, A, r) <= y
    BY <1>1, <2>1, <2>2, <2>6
  <2> QED BY <2>1, <2>2, <2>7
<1> QED BY <1>2, <1>3

EdgesOf(b, S) ==
  {b.left} \cup UNION {{Clip(b, r).left, Clip(b, r).right} : r \in Covers(b, S)}

LEMMA StripsAre ==
  ASSUME NEW b \in Rects, NEW S, S \subseteq Rects
  PROVE  /\ EdgesOf(b, S) \subseteq Int
         /\ \A strip : strip \in Strips(b, S) <=>
              /\ strip \in EdgesOf(b, S) \X EdgesOf(b, S)
              /\ strip[1] < strip[2]
              /\ \A e \in EdgesOf(b, S) : e <= strip[1] \/ strip[2] <= e
<1>1. \A r \in Covers(b, S) : Clip(b, r).left \in Int /\ Clip(b, r).right \in Int
  BY ClipIs DEF Covers, Rects
<1>2. b.left \in Int
  BY DEF Rects
<1>3. EdgesOf(b, S) \subseteq Int
  BY <1>1, <1>2 DEF EdgesOf
<1>4. Strips(b, S) = {strip \in EdgesOf(b, S) \X EdgesOf(b, S) :
                        /\ strip[1] < strip[2]
                        /\ \A e \in EdgesOf(b, S) : e <= strip[1] \/ strip[2] <= e}
  BY DEF Strips, EdgesOf
<1> QED BY <1>3, <1>4, Zenon

\* The sweep comes by every column under a covering window, while that window is active.
LEMMA StripOf ==
  ASSUME NEW b \in Rects, NEW S, S \subseteq Rects, NEW x \in Int,
         NEW r \in Covers(b, S), Clip(b, r).left <= x, x < Clip(b, r).right
  PROVE  \E strip \in Strips(b, S) :
           strip[1] <= x /\ x < strip[2] /\ r \in Active(b, S, strip)
<1> DEFINE E == EdgesOf(b, S)
           c == Clip(b, r)
<1>1. E \subseteq Int /\ c.left \in E /\ c.right \in E
  BY StripsAre DEF EdgesOf
<1>2. \A strip : strip \in Strips(b, S) <=>
                   /\ strip \in E \X E
                   /\ strip[1] < strip[2]
                   /\ \A e \in E : e <= strip[1] \/ strip[2] <= e
  BY StripsAre
<1>3. c.left <= x /\ x < c.right
  OBVIOUS
<1>4. r \in Covers(b, S)
  OBVIOUS
<1> HIDE DEF E
<1>5. \E u \in E : u <= x /\ \A e \in E : e <= x => e <= u
  <2> DEFINE L == {e \in E : e <= x}
  <2>1. L \subseteq Int /\ L # {} /\ \A e \in L : e <= x
    BY <1>1, <1>3
  <2>2. \A e \in E : e <= x => e \in L
    OBVIOUS
  <2>3. L \subseteq E
    OBVIOUS
  <2> HIDE DEF L
  <2>4. Max(L) \in L /\ \A e \in L : e <= Max(L)
    BY <2>1, IntMax
  <2> QED BY <2>1, <2>2, <2>3, <2>4
<1>6. \E v \in E : x < v /\ \A e \in E : x < e => v <= e
  <2> DEFINE H == {e \in E : x < e}
  <2>1. c.right \in H
    BY <1>1, <1>3
  <2>2. \A e \in E : x < e => e \in H
    OBVIOUS
  <2>3. H \subseteq E /\ \A e \in H : x < e
    OBVIOUS
  <2> HIDE DEF H
  <2>4. \A e \in H : e \in Int /\ x <= e
    BY <1>1, <2>3
  <2>5. H \subseteq Int /\ H # {} /\ \A e \in H : x <= e
    BY <2>1, <2>4
  <2>6. \E v \in H : \A e \in H : v <= e
    BY <2>5, IntMin
  <2> QED BY <2>2, <2>3, <2>6
<1>7. PICK u \in E : u <= x /\ \A e \in E : e <= x => e <= u
  BY <1>5
<1>8. PICK v \in E : x < v /\ \A e \in E : x < e => v <= e
  BY <1>6
<1> DEFINE strip == <<u, v>>
<1>9. strip[1] = u /\ strip[2] = v /\ strip \in E \X E
  OBVIOUS
<1> HIDE DEF strip
<1>10. u \in Int /\ v \in Int /\ u < v /\ \A e \in E : e <= u \/ v <= e
  BY <1>1, <1>7, <1>8
<1>11. strip \in Strips(b, S)
  BY <1>2, <1>9, <1>10
<1>12. c.left <= u /\ v <= c.right
  BY <1>1, <1>3, <1>7, <1>8
<1>13. r \in Active(b, S, strip)
  BY <1>4, <1>9, <1>12 DEF Active
<1> QED BY <1>7, <1>8, <1>9, <1>11, <1>13

\* What a position on the window is found to be under, but for the edges.
LEMMA HiddenIsCovered ==
  ASSUME NEW b \in Rects, NEW S, S \subseteq Rects, IsFiniteSet(S),
         NEW m \in Nat \X Nat,
         \A r \in {b} \cup S : m[1] # r.right /\ m[2] # r.top,
         m \in Pixels(b)
  PROVE  MouseHidden(b, S, m) <=> \E r \in S : m \in Pixels(r)
<1> DEFINE x == m[1]
           y == m[2]
<1>1. x \in Nat /\ y \in Nat /\ m = <<x, y>>
  OBVIOUS
<1>2. \A r \in Rects : /\ r.left \in Int /\ r.right \in Int /\ r.bottom \in Int /\ r.top \in Int
                       /\ Clip(b, r) \in Rects
  BY ClipIs DEF Rects
<1>3. \A r \in Rects : m \in Pixels(r) <=> r.left <= x /\ x < r.right /\ r.bottom <= y /\ y < r.top
  BY <1>1, <1>2 DEF Pixels
<1>4. \A strip : Active(b, S, strip) \subseteq Rects /\ IsFiniteSet(Active(b, S, strip))
  <2> TAKE strip
  <2>1. Active(b, S, strip) \subseteq S
    BY DEF Active, Covers
  <2> QED BY <2>1, FS_Subset
<1>5. \A strip : (\E r \in Active(b, S, strip) : Lower(b, Active(b, S, strip), r) <= y
                                                /\ y <= Clip(b, r).top)
                 <=> (\E r \in Active(b, S, strip) : Clip(b, r).bottom <= y /\ y <= Clip(b, r).top)
  BY <1>1, <1>4, LowerHides
<1> HIDE DEF x, y
<1>6. MouseHidden(b, S, m) <=>
        \E strip \in Strips(b, S) :
          /\ strip[1] <= x /\ x <= strip[2]
          /\ \E r \in Active(b, S, strip) : Lower(b, Active(b, S, strip), r) <= y
                                            /\ y <= Clip(b, r).top
  BY DEF MouseHidden, x, y
<1>7. ASSUME MouseHidden(b, S, m) PROVE \E r \in S : m \in Pixels(r)
  <2>1. PICK strip \in Strips(b, S) :
          /\ strip[1] <= x /\ x <= strip[2]
          /\ \E r \in Active(b, S, strip) : Lower(b, Active(b, S, strip), r) <= y
                                            /\ y <= Clip(b, r).top
    BY <1>6, <1>7
  <2>2. PICK r \in Active(b, S, strip) : Clip(b, r).bottom <= y /\ y <= Clip(b, r).top
    BY <1>5, <2>1
  <2>3. r \in S /\ r \in Rects /\ Clip(b, r).left <= strip[1] /\ strip[2] <= Clip(b, r).right
    BY DEF Active, Covers
  <2>4. strip[1] \in Int /\ strip[2] \in Int
    <3>1. strip \in EdgesOf(b, S) \X EdgesOf(b, S) /\ EdgesOf(b, S) \subseteq Int
      BY StripsAre
    <3> QED BY <3>1
  <2>5. /\ r.left <= Clip(b, r).left /\ Clip(b, r).right <= r.right
        /\ r.bottom <= Clip(b, r).bottom /\ Clip(b, r).top <= r.top
    BY <2>3, ClipIs
  <2>6. /\ Clip(b, r).left \in Int /\ Clip(b, r).right \in Int
        /\ Clip(b, r).bottom \in Int /\ Clip(b, r).top \in Int
    BY <1>2, <2>3
  <2>7. x # r.right /\ y # r.top
    BY <2>3 DEF x, y
  <2>8. r.left <= x /\ x < r.right /\ r.bottom <= y /\ y < r.top
    BY <1>1, <1>2, <2>1, <2>2, <2>3, <2>4, <2>5, <2>6, <2>7
  <2> QED BY <1>3, <2>3, <2>8
<1>8. ASSUME NEW r \in S, m \in Pixels(r) PROVE MouseHidden(b, S, m)
  <2>1. /\ r.left <= x /\ x < r.right /\ r.bottom <= y /\ y < r.top
        /\ b.left <= x /\ x < b.right /\ b.bottom <= y /\ y < b.top
        /\ r \in Rects
    BY <1>3, <1>8
  <2>2. r \in Covers(b, S)
    BY <1>1, <1>2, <2>1 DEF Covers, Overlap
  <2>3. /\ Clip(b, r).left <= x /\ x < Clip(b, r).right
        /\ Clip(b, r).bottom <= y /\ y < Clip(b, r).top
        /\ Clip(b, r).top \in Int
    BY <1>2, <2>1, ClipIs
  <2>4. PICK strip \in Strips(b, S) : strip[1] <= x /\ x < strip[2] /\ r \in Active(b, S, strip)
    BY <1>1, <2>2, <2>3, StripOf
  <2>5. strip[2] \in Int
    <3>1. strip \in EdgesOf(b, S) \X EdgesOf(b, S) /\ EdgesOf(b, S) \subseteq Int
      BY StripsAre
    <3> QED BY <3>1
  <2>6. x <= strip[2] /\ y <= Clip(b, r).top
    BY <1>1, <2>3, <2>4, <2>5
  <2> QED BY <1>5, <1>6, <2>3, <2>4, <2>6
<1> QED BY <1>7, <1>8

\* The pointer is on the window and not under another one.
LEMMA MouseOverIs ==
  ASSUME NEW b \in Rects, NEW S, S \subseteq Rects, IsFiniteSet(S),
         NEW m \in Nat \X Nat,
         \A r \in {b} \cup S : m[1] # r.right /\ m[2] # r.top
  PROVE  OverlapCalc(b, S, m).mouseOver
           <=> m \in Pixels(b) /\ ~\E r \in S : m \in Pixels(r)
<1>1. m[1] \in Nat /\ m[2] \in Nat /\ m = <<m[1], m[2]>>
      /\ b.left \in Int /\ b.right \in Int /\ b.bottom \in Int /\ b.top \in Int
  BY DEF Rects
<1>2. m \in Pixels(b) <=> /\ b.left <= m[1] /\ m[1] <= b.right
                          /\ b.bottom <= m[2] /\ m[2] <= b.top
  BY <1>1 DEF Pixels
<1>3. OverlapCalc(b, S, m).mouseOver
        <=> /\ b.left <= m[1] /\ m[1] <= b.right
            /\ b.bottom <= m[2] /\ m[2] <= b.top
            /\ ~MouseHidden(b, S, m)
  BY DEF OverlapCalc
<1>4. m \in Pixels(b) => (MouseHidden(b, S, m) <=> \E r \in S : m \in Pixels(r))
  BY HiddenIsCovered
<1> QED BY <1>2, <1>3, <1>4

-----------------------------------------------------------------------------
(* Sums over finite sets *)

\* Among sets of which one is finite there is one that is no more among them when any
\* element is taken out.
LEMMA Smallest ==
  ASSUME NEW Bad, NEW B \in Bad, IsFiniteSet(B)
  PROVE  \E T \in Bad : IsFiniteSet(T) /\ \A x \in T : T \ {x} \notin Bad
<1> DEFINE N == {Cardinality(T) : T \in {T \in Bad : IsFiniteSet(T)}}
<1>1. N \subseteq Nat /\ N # {}
  BY FS_CardinalityType
<1>2. \A T \in Bad : IsFiniteSet(T) => Cardinality(T) \in N
  OBVIOUS
<1>3. \A n \in N : \E T \in Bad : IsFiniteSet(T) /\ Cardinality(T) = n
  OBVIOUS
<1> HIDE DEF N
<1>4. PICK n \in N : \A k \in N : n <= k
  BY <1>1, NatMin
<1>5. PICK T \in Bad : IsFiniteSet(T) /\ Cardinality(T) = n
  BY <1>3
<1>6. ASSUME NEW x \in T, T \ {x} \in Bad PROVE FALSE
  <2>1. IsFiniteSet(T \ {x}) /\ Cardinality(T \ {x}) = n - 1
    BY <1>5, FS_RemoveElement
  <2>2. n - 1 \in N /\ n \in Nat
    BY <1>1, <1>2, <1>6, <2>1
  <2> QED BY <1>4, <2>2
<1> QED BY <1>5, <1>6

\* The sum of f[x] for the x of S, in the order in which MapThenSumSet takes them.
Chosen(T) == CHOOSE x \in T : TRUE

IsSum(g, f, S) ==
  g = [T \in SUBSET S |-> IF T = {} THEN 0 ELSE f[Chosen(T)] + g[T \ {Chosen(T)}]]

Sum(f, S) == (CHOOSE g : IsSum(g, f, S))[S]

LEMMA SumExists ==
  ASSUME NEW f, NEW S, IsFiniteSet(S)
  PROVE  \E g : IsSum(g, f, S)
<1> DEFINE UpTo(g, n) ==
      g = [T \in SUBSET S |-> IF T = {} \/ Cardinality(T) > n THEN 0
                              ELSE f[Chosen(T)] + g[T \ {Chosen(T)}]]
           Bad == {n \in Nat : ~\E g : UpTo(g, n)}
<1>1. \A T \in SUBSET S : IsFiniteSet(T) /\ Cardinality(T) \in Nat
                          /\ Cardinality(T) <= Cardinality(S)
  BY FS_Subset, FS_CardinalityType
<1>2. \A T \in SUBSET S : Cardinality(T) = 0 => T = {}
  BY <1>1, FS_EmptySet
<1>3. \A T \in SUBSET S : T # {} =>
        T \ {Chosen(T)} \in SUBSET S /\ Cardinality(T \ {Chosen(T)}) = Cardinality(T) - 1
  <2> TAKE T \in SUBSET S
  <2> HAVE T # {}
  <2>1. Chosen(T) \in T
    BY DEF Chosen
  <2> QED BY <1>1, <2>1, FS_RemoveElement
<1>4. Bad = {}
  <2>1. SUFFICES ASSUME Bad # {} PROVE FALSE
    OBVIOUS
  <2>2. PICK n \in Bad : \A k \in Bad : n <= k
    <3>1. Bad \subseteq Nat
      OBVIOUS
    <3> HIDE DEF Bad
    <3> QED BY <2>1, <3>1, NatMin
  <2>3. n \in Nat /\ ~\E g : UpTo(g, n)
    OBVIOUS
  <2>4. CASE n = 0
    <3> DEFINE g == [T \in SUBSET S |-> 0]
    <3>1. \A T \in SUBSET S : T = {} \/ Cardinality(T) > n
      BY <1>1, <1>2, <2>4
    <3>2. UpTo(g, n)
      BY <3>1
    <3> QED BY <2>3, <3>2
  <2>5. CASE n # 0
    <3>1. n - 1 \in Nat /\ n - 1 \notin Bad
      <4>1. n - 1 \in Nat /\ ~(n <= n - 1)
        BY <2>3, <2>5
      <4> HIDE DEF Bad
      <4> QED BY <2>2, <4>1
    <3>2. PICK g : UpTo(g, n - 1)
      BY <3>1
    <3> DEFINE h == [T \in SUBSET S |-> IF T = {} \/ Cardinality(T) > n THEN 0
                                        ELSE f[Chosen(T)] + g[T \ {Chosen(T)}]]
    <3>3. ASSUME NEW T \in SUBSET S, Cardinality(T) <= n - 1 PROVE h[T] = g[T]
      <4>1. ~(Cardinality(T) > n) /\ ~(Cardinality(T) > n - 1)
        BY <1>1, <2>3, <3>3
      <4> QED BY <3>2, <4>1
    <3>4. ASSUME NEW T \in SUBSET S, T # {}, ~(Cardinality(T) > n)
          PROVE  h[T \ {Chosen(T)}] = g[T \ {Chosen(T)}]
      <4>1. T \ {Chosen(T)} \in SUBSET S /\ Cardinality(T \ {Chosen(T)}) <= n - 1
        BY <1>1, <1>3, <2>3, <3>4
      <4> HIDE DEF h
      <4> QED BY <3>3, <4>1
    <3>5. UpTo(h, n)
      BY <3>4
    <3> QED BY <2>3, <3>5
  <2> QED BY <2>4, <2>5
<1>5. Cardinality(S) \in Nat
  BY <1>1
<1>6. PICK g : UpTo(g, Cardinality(S))
  BY <1>4, <1>5
<1>7. \A T \in SUBSET S : ~(Cardinality(T) > Cardinality(S))
  BY <1>1, <1>5
<1>8. IsSum(g, f, S)
  BY <1>6, <1>7 DEF IsSum
<1> QED BY <1>8

LEMMA SumUnique ==
  ASSUME NEW f, NEW S, NEW g, IsSum(g, f, S), NEW T, NEW h, IsSum(h, f, T),
         NEW U \in SUBSET (S \cap T), IsFiniteSet(U)
  PROVE  g[U] = h[U]
<1> DEFINE Bad == {V \in SUBSET (S \cap T) : g[V] # h[V]}
<1>1. SUFFICES ASSUME U \in Bad PROVE FALSE
  OBVIOUS
<1>2. PICK V \in Bad : \A x \in V : V \ {x} \notin Bad
  <2> HIDE DEF Bad
  <2> QED BY <1>1, Smallest
<1>3. g[V] = (IF V = {} THEN 0 ELSE f[Chosen(V)] + g[V \ {Chosen(V)}])
  BY DEF IsSum
<1>4. h[V] = (IF V = {} THEN 0 ELSE f[Chosen(V)] + h[V \ {Chosen(V)}])
  BY DEF IsSum
<1>5. ASSUME V # {} PROVE g[V \ {Chosen(V)}] = h[V \ {Chosen(V)}]
  <2>1. Chosen(V) \in V
    BY <1>5 DEF Chosen
  <2> QED BY <1>2, <2>1
<1> QED BY <1>2, <1>3, <1>4, <1>5

LEMMA SumIs ==
  ASSUME NEW f, NEW S, IsFiniteSet(S), NEW g, NEW T, IsSum(g, f, T), S \subseteq T
  PROVE  g[S] = Sum(f, S)
<1> DEFINE h == CHOOSE h : IsSum(h, f, S)
<1>1. IsSum(h, f, S)
  BY SumExists
<1>2. Sum(f, S) = h[S]
  BY DEF Sum
<1> HIDE DEF h
<1> QED BY <1>1, <1>2, SumUnique

LEMMA SumSteps ==
  ASSUME NEW f, NEW S, IsFiniteSet(S)
  PROVE  Sum(f, S) = IF S = {} THEN 0 ELSE f[Chosen(S)] + Sum(f, S \ {Chosen(S)})
<1>1. PICK g : IsSum(g, f, S)
  BY SumExists
<1>2. Sum(f, S) = g[S]
  BY <1>1, SumIs
<1>3. g[S] = IF S = {} THEN 0 ELSE f[Chosen(S)] + g[S \ {Chosen(S)}]
  BY <1>1 DEF IsSum
<1>4. g[S \ {Chosen(S)}] = Sum(f, S \ {Chosen(S)})
  <2>1. IsFiniteSet(S \ {Chosen(S)}) /\ S \ {Chosen(S)} \subseteq S
    BY FS_RemoveElement
  <2> QED BY <1>1, <2>1, SumIs
<1> QED BY <1>2, <1>3, <1>4

LEMMA SumType ==
  ASSUME NEW f, NEW S, IsFiniteSet(S), \A x \in S : f[x] \in Int
  PROVE  Sum(f, S) \in Int
<1> DEFINE Bad == {T \in SUBSET S : Sum(f, T) \notin Int}
<1>1. SUFFICES ASSUME S \in Bad PROVE FALSE
  OBVIOUS
<1>2. PICK T \in Bad : IsFiniteSet(T) /\ \A x \in T : T \ {x} \notin Bad
  <2> HIDE DEF Bad
  <2> QED BY <1>1, Smallest
<1>3. T \in SUBSET S /\ Sum(f, T) \notin Int
  OBVIOUS
<1>4. Sum(f, T) = IF T = {} THEN 0 ELSE f[Chosen(T)] + Sum(f, T \ {Chosen(T)})
  BY <1>2, SumSteps
<1>5. ASSUME T # {} PROVE f[Chosen(T)] \in Int /\ Sum(f, T \ {Chosen(T)}) \in Int
  <2>1. Chosen(T) \in T
    BY <1>5 DEF Chosen
  <2> QED BY <1>2, <1>3, <2>1
<1> HIDE DEF Bad
<1> QED BY <1>3, <1>4, <1>5

\* The summands may be taken in any order.
LEMMA SumLess ==
  ASSUME NEW f, NEW S, IsFiniteSet(S), \A x \in S : f[x] \in Int, NEW y \in S
  PROVE  Sum(f, S) = f[y] + Sum(f, S \ {y})
<1> DEFINE Bad == {T \in SUBSET S : \E x \in T : Sum(f, T) # f[x] + Sum(f, T \ {x})}
<1>1. SUFFICES ASSUME S \in Bad PROVE FALSE
  OBVIOUS
<1>2. PICK T \in Bad : IsFiniteSet(T) /\ \A x \in T : T \ {x} \notin Bad
  <2> HIDE DEF Bad
  <2> QED BY <1>1, Smallest
<1>3. PICK x \in T : Sum(f, T) # f[x] + Sum(f, T \ {x})
  BY <1>2
<1>4. T \in SUBSET S
  OBVIOUS
<1> DEFINE c == Chosen(T)
<1>5. c \in T /\ Sum(f, T) = f[c] + Sum(f, T \ {c})
  BY <1>2, SumSteps DEF Chosen
<1>6. c # x
  BY <1>3, <1>5
<1>7. T \ {c} \notin Bad /\ T \ {x} \notin Bad
  BY <1>2, <1>5
<1>8. Sum(f, T \ {c}) = f[x] + Sum(f, (T \ {c}) \ {x})
  BY <1>4, <1>6, <1>7
<1>9. Sum(f, T \ {x}) = f[c] + Sum(f, (T \ {x}) \ {c})
  BY <1>4, <1>5, <1>6, <1>7
<1>10. (T \ {c}) \ {x} = (T \ {x}) \ {c}
  OBVIOUS
<1>11. f[x] \in Int /\ f[c] \in Int
  BY <1>4, <1>5
<1>12. Sum(f, (T \ {c}) \ {x}) \in Int
  <2>1. IsFiniteSet((T \ {c}) \ {x}) /\ \A z \in (T \ {c}) \ {x} : f[z] \in Int
    BY <1>2, <1>4, FS_RemoveElement
  <2> QED BY <2>1, SumType
<1> DEFINE z == Sum(f, (T \ {c}) \ {x})
<1>13. Sum(f, T) = f[c] + (f[x] + z) /\ Sum(f, T \ {x}) = f[c] + z /\ z \in Int
  BY <1>5, <1>8, <1>9, <1>10, <1>12
<1> HIDE DEF Bad, c, z
<1>14. f[c] + (f[x] + z) = f[x] + (f[c] + z)
  BY <1>11, <1>13
<1> QED BY <1>3, <1>13, <1>14

\* A sum of numbers of which each is at most the size of a part, the parts being disjoint:
\* it is at most the size of all the parts together, and exact if each number is.
LEMMA SumOfParts ==
  ASSUME NEW f, NEW part, NEW S, IsFiniteSet(S),
         \A x \in S : f[x] \in Int /\ IsFiniteSet(part[x]) /\ f[x] <= Cardinality(part[x]),
         \A x, y \in S : x # y => part[x] \cap part[y] = {}
  PROVE  /\ IsFiniteSet(UNION {part[x] : x \in S})
         /\ Sum(f, S) <= Cardinality(UNION {part[x] : x \in S})
         /\ (\A x \in S : f[x] = Cardinality(part[x]))
              => Sum(f, S) = Cardinality(UNION {part[x] : x \in S})
<1> DEFINE All(T) == UNION {part[x] : x \in T}
           Holds(T) == /\ IsFiniteSet(All(T))
                       /\ Sum(f, T) <= Cardinality(All(T))
                       /\ (\A x \in T : f[x] = Cardinality(part[x]))
                            => Sum(f, T) = Cardinality(All(T))
           Bad == {T \in SUBSET S : ~Holds(T)}
<1>1. SUFFICES ASSUME S \in Bad PROVE FALSE
  OBVIOUS
<1>2. PICK T \in Bad : IsFiniteSet(T) /\ \A x \in T : T \ {x} \notin Bad
  <2> HIDE DEF Bad
  <2> QED BY <1>1, Smallest
<1>3. T \in SUBSET S /\ ~Holds(T)
  OBVIOUS
<1>4. CASE T = {}
  <2>1. All(T) = {} /\ Sum(f, T) = 0
    BY <1>2, <1>4, SumSteps
  <2>2. IsFiniteSet(All(T)) /\ Cardinality(All(T)) = 0
    <3> HIDE DEF All
    <3> QED BY <2>1, FS_EmptySet
  <2> HIDE DEF All
  <2> QED BY <1>3, <2>1, <2>2
<1>5. CASE T # {}
  <2>1. PICK x \in T : TRUE
    BY <1>5
  <2> DEFINE U == T \ {x}
  <2>2. Holds(U)
    BY <1>2, <1>3
  <2>3. All(T) = All(U) \cup part[x]
    OBVIOUS
  <2>4. All(U) \cap part[x] = {}
    BY <1>3
  <2>5. Sum(f, T) = f[x] + Sum(f, U)
    BY <1>2, <1>3, SumLess
  <2>6. /\ f[x] \in Int /\ IsFiniteSet(part[x]) /\ f[x] <= Cardinality(part[x])
        /\ Cardinality(part[x]) \in Nat
    BY <1>3, FS_CardinalityType
  <2>7. Sum(f, U) \in Int
    <3>1. IsFiniteSet(U) /\ \A z \in U : f[z] \in Int
      BY <1>2, <1>3, FS_RemoveElement
    <3> QED BY <3>1, SumType
  <2>8. IsFiniteSet(All(U)) /\ Cardinality(All(U)) \in Nat
    BY <2>2, FS_CardinalityType
  <2>9. \A z \in U : z \in T
    OBVIOUS
  <2> HIDE DEF All, U, Bad
  <2>10. IsFiniteSet(All(T)) /\ Cardinality(All(T)) = Cardinality(All(U)) + Cardinality(part[x])
    <3>1. Cardinality(All(U) \cap part[x]) = 0
      BY <2>4, FS_EmptySet
    <3>2. /\ IsFiniteSet(All(U) \cup part[x])
          /\ Cardinality(All(U) \cup part[x])
               = Cardinality(All(U)) + Cardinality(part[x]) - Cardinality(All(U) \cap part[x])
      BY <2>6, <2>8, FS_Union
    <3> QED BY <2>3, <2>6, <2>8, <3>1, <3>2
  <2>11. Sum(f, T) <= Cardinality(All(T))
    BY <2>2, <2>5, <2>6, <2>7, <2>8, <2>10
  <2>12. ASSUME \A z \in T : f[z] = Cardinality(part[z]) PROVE Sum(f, T) = Cardinality(All(T))
    BY <2>2, <2>5, <2>6, <2>7, <2>8, <2>9, <2>10, <2>12
  <2> QED BY <1>3, <2>10, <2>11, <2>12
<1> QED BY <1>4, <1>5

-----------------------------------------------------------------------------
(* The covered area *)

\* Every row of an interval counts for one of the intervals.
LEMMA LowerCovers ==
  ASSUME NEW b \in Rects, NEW A, A \subseteq Rects, IsFiniteSet(A), NEW y \in Nat,
         NEW q \in A, Clip(b, q).bottom <= y, y < Clip(b, q).top
  PROVE  \E r \in A : Lower(b, A, r) <= y /\ y < Clip(b, r).top
<1> DEFINE C == {r \in A : Clip(b, r).bottom <= y /\ y < Clip(b, r).top}
<1>1. C \subseteq A /\ q \in C
  OBVIOUS
<1>2. \A r \in C : Clip(b, r).bottom <= y /\ y < Clip(b, r).top
  OBVIOUS
<1>3. \A s \in A : Clip(b, s).bottom <= y /\ y < Clip(b, s).top => s \in C
  OBVIOUS
<1> HIDE DEF C
<1>4. PICK r \in C : \A s \in C : ~Before(b, s, r)
  BY <1>1, FS_Subset, OneIsFirst
<1>5. \A s \in A : Clip(b, s).top \in Int /\ Clip(b, s).bottom \in Int
  BY ClipIs DEF Rects
<1>6. ASSUME NEW s \in A, Before(b, s, r) PROVE Clip(b, s).top <= y
  <2>1. Clip(b, s).bottom <= Clip(b, r).bottom
    BY <1>1, <1>6, BeforeOrder
  <2>2. s \notin C
    BY <1>4, <1>6
  <2> QED BY <1>1, <1>2, <1>3, <1>5, <2>1, <2>2
<1>7. Lower(b, A, r) <= y
  BY <1>1, <1>2, <1>6, LowerIs
<1> QED BY <1>1, <1>2, <1>7

LEMMA BeforeTotal ==
  ASSUME NEW b \in Rects, NEW r \in Rects, NEW s \in Rects, r # s
  PROVE  Before(b, r, s) \/ Before(b, s, r)
<1> DEFINE k == Key(Clip(b, r), r)
           l == Key(Clip(b, s), s)
<1>1. k \in [1..6 -> Int] /\ l \in [1..6 -> Int]
  BY KeyIs
<1>2. \E n \in 1..6 : k[n] # l[n]
  <2>1. /\ k[3] = r.left /\ k[4] = r.right /\ k[5] = r.bottom /\ k[6] = r.top
        /\ l[3] = s.left /\ l[4] = s.right /\ l[5] = s.bottom /\ l[6] = s.top
    BY DEF Key
  <2>2. r.left # s.left \/ r.right # s.right \/ r.bottom # s.bottom \/ r.top # s.top
    BY DEF Rects
  <2> HIDE DEF k, l
  <2>3. 3 \in 1..6 /\ 4 \in 1..6 /\ 5 \in 1..6 /\ 6 \in 1..6
    OBVIOUS
  <2> QED BY <2>1, <2>2, <2>3
<1>3. /\ Before(b, r, s) <=> Precedes(k, l)
      /\ Before(b, s, r) <=> Precedes(l, k)
  BY DEF Before
<1> HIDE DEF k, l
<1> DEFINE D == {n \in 1..6 : k[n] # l[n]}
<1>4. D \subseteq Nat /\ D # {}
  BY <1>2
<1>5. \A n \in D : n \in 1..6 /\ k[n] # l[n]
  OBVIOUS
<1>6. \A n \in 1..6 : n \notin D => k[n] = l[n]
  OBVIOUS
<1> HIDE DEF D
<1>7. PICK n \in D : \A o \in D : n <= o
  BY <1>4, NatMin
<1>8. \A o \in 1..(n - 1) : k[o] = l[o]
  <2> TAKE o \in 1..(n - 1)
  <2>1. o \in 1..6 /\ ~(n <= o)
    BY <1>5
  <2> QED BY <1>6, <1>7, <2>1
<1>9. k[n] < l[n] \/ l[n] < k[n]
  BY <1>1, <1>5
<1> QED BY <1>3, <1>5, <1>8, <1>9 DEF Precedes

\* The heights are summed up as Sum does.
LEMMA HeightsAre ==
  ASSUME NEW b, NEW A, IsFiniteSet(A), NEW f,
         \A r \in A : f[r] = Clip(b, r).top - Lower(b, A, r)
  PROVE  CoveredHeight(b, A) = Sum(f, A)
<1> DEFINE Heights(h) ==
      h = [T \in SUBSET A |->
            IF T = {} THEN 0
            ELSE (Clip(b, CHOOSE x \in T : TRUE).top - Lower(b, A, CHOOSE x \in T : TRUE))
                 + h[T \ {CHOOSE x \in T : TRUE}]]
           height == CHOOSE h : Heights(h)
<1>1. ASSUME NEW h PROVE IsSum(h, f, A) <=> Heights(h)
  <2>1. \A T \in SUBSET A : T # {} =>
          f[Chosen(T)] = Clip(b, Chosen(T)).top - Lower(b, A, Chosen(T))
    BY DEF Chosen
  <2> QED BY <2>1 DEF IsSum, Chosen
<1>2. CoveredHeight(b, A) = height[A]
  BY DEF CoveredHeight, MapThenSumSet, MapThenFoldSet
<1>3. Heights(height)
  <2>1. \E h : IsSum(h, f, A)
    BY SumExists
  <2> HIDE DEF Heights
  <2>2. \E h : Heights(h)
    BY <1>1, <2>1
  <2> QED BY <2>2
<1>4. IsSum(height, f, A)
  BY <1>1, <1>3
<1> HIDE DEF height
<1> QED BY <1>2, <1>4, SumIs

LEMMA AreasAre ==
  ASSUME NEW b, NEW S, IsFiniteSet(Strips(b, S)), NEW f,
         \A strip \in Strips(b, S) :
           f[strip] = CoveredHeight(b, Active(b, S, strip)) * (strip[2] - strip[1])
  PROVE  CoveredArea(b, S) = Sum(f, Strips(b, S))
<1> DEFINE A == Strips(b, S)
           Areas(h) ==
      h = [T \in SUBSET A |->
            IF T = {} THEN 0
            ELSE (CoveredHeight(b, Active(b, S, CHOOSE x \in T : TRUE))
                    * ((CHOOSE x \in T : TRUE)[2] - (CHOOSE x \in T : TRUE)[1]))
                 + h[T \ {CHOOSE x \in T : TRUE}]]
           area == CHOOSE h : Areas(h)
<1>1. ASSUME NEW h PROVE IsSum(h, f, A) <=> Areas(h)
  <2>1. \A T \in SUBSET A : T # {} =>
          f[Chosen(T)] = CoveredHeight(b, Active(b, S, Chosen(T))) * (Chosen(T)[2] - Chosen(T)[1])
    BY DEF Chosen
  <2> HIDE DEF A
  <2> QED BY <2>1 DEF IsSum, Chosen
<1>2. CoveredArea(b, S) = area[A]
  BY DEF CoveredArea, MapThenSumSet, MapThenFoldSet
<1>3. Areas(area)
  <2>1. \E h : IsSum(h, f, A)
    BY SumExists
  <2> HIDE DEF Areas
  <2>2. \E h : Areas(h)
    BY <1>1, <2>1
  <2> QED BY <2>2
<1>4. IsSum(area, f, A)
  BY <1>1, <1>3
<1> HIDE DEF area
<1> QED BY <1>2, <1>4, SumIs

\* The rows that the intervals of A cover.
Rows(b, A) == UNION {Clip(b, r).bottom .. Clip(b, r).top - 1 : r \in A}

\* The height counted in a strip is that of the rows that are covered there, or less.
LEMMA HeightIs ==
  ASSUME NEW b \in Rects, NEW A, A \subseteq Rects, IsFiniteSet(A)
  PROVE  /\ IsFiniteSet(Rows(b, A))
         /\ CoveredHeight(b, A) \in Int
         /\ CoveredHeight(b, A) <= Cardinality(Rows(b, A))
         /\ /\ b.bottom >= 0
            /\ \A r \in A : Clip(b, r).bottom < Clip(b, r).top
            /\ \A r, s \in A : Clip(b, r).bottom <= Clip(b, s).bottom
                                 => ~(Clip(b, s).top < Clip(b, r).top)
            => CoveredHeight(b, A) = Cardinality(Rows(b, A))
<1> DEFINE f == [r \in A |-> Clip(b, r).top - Lower(b, A, r)]
           part == [r \in A |-> Lower(b, A, r) .. Clip(b, r).top - 1]
           parts == UNION {part[r] : r \in A}
<1>1. \A r \in A : /\ Clip(b, r).top \in Int /\ Clip(b, r).bottom \in Int
                   /\ b.bottom <= Clip(b, r).bottom /\ Clip(b, r).top <= b.top
  BY ClipIs DEF Rects
<1>2. b.bottom \in Int /\ b.top \in Int
  BY DEF Rects
<1>3. \A r \in A : /\ Lower(b, A, r) \in Int
                   /\ 0 <= Lower(b, A, r) /\ Clip(b, r).bottom <= Lower(b, A, r)
                   /\ \A s \in A : Before(b, s, r) => Clip(b, s).top <= Lower(b, A, r)
  BY LowerIs
<1>4. \A r \in A : \/ Lower(b, A, r) = 0 \/ Lower(b, A, r) = Clip(b, r).bottom
                   \/ \E s \in A : Before(b, s, r) /\ Lower(b, A, r) = Clip(b, s).top
  BY LowerIs
<1>5. IsFiniteSet(Rows(b, A))
  <2>1. Rows(b, A) \subseteq b.bottom .. b.top - 1
    BY <1>1, <1>2 DEF Rows
  <2>2. IsFiniteSet(b.bottom .. b.top - 1)
    BY <1>2, FS_Interval
  <2> QED BY <2>1, <2>2, FS_Subset
<1>6. \A r \in A : /\ f[r] = Clip(b, r).top - Lower(b, A, r)
                   /\ part[r] = Lower(b, A, r) .. Clip(b, r).top - 1
  OBVIOUS
<1>7. CoveredHeight(b, A) = Sum(f, A)
  BY <1>6, HeightsAre
<1> HIDE DEF f, part
<1>8. \A r \in A : /\ IsFiniteSet(part[r])
                   /\ Cardinality(part[r]) = IF Lower(b, A, r) > Clip(b, r).top - 1 THEN 0
                                             ELSE Clip(b, r).top - Lower(b, A, r)
  <2> TAKE r \in A
  <2> DEFINE l == Lower(b, A, r)
             t == Clip(b, r).top
  <2>1. l \in Int /\ t \in Int /\ part[r] = l .. t - 1
    BY <1>1, <1>3, <1>6
  <2> HIDE DEF l, t
  <2>2. IsFiniteSet(l .. t - 1) /\ Cardinality(l .. t - 1) = IF l > t - 1 THEN 0 ELSE (t - 1) - l + 1
    BY <2>1, FS_Interval
  <2>3. (t - 1) - l + 1 = t - l
    BY <2>1
  <2> QED BY <2>1, <2>2, <2>3 DEF l, t
<1>9. \A r \in A : f[r] \in Int /\ f[r] <= Cardinality(part[r])
  BY <1>1, <1>3, <1>6, <1>8
<1>10. ASSUME NEW r \in A, NEW s \in A, r # s PROVE part[r] \cap part[s] = {}
  <2>1. Before(b, r, s) \/ Before(b, s, r)
    BY <1>10, BeforeTotal
  <2>2. Clip(b, r).top <= Lower(b, A, s) \/ Clip(b, s).top <= Lower(b, A, r)
    BY <1>3, <2>1
  <2> QED BY <1>1, <1>3, <1>6, <2>2
<1>11. /\ Sum(f, A) \in Int
       /\ IsFiniteSet(parts)
       /\ Sum(f, A) <= Cardinality(parts)
       /\ (\A r \in A : f[r] = Cardinality(part[r])) => Sum(f, A) = Cardinality(parts)
  BY <1>8, <1>9, <1>10, SumOfParts, SumType
<1>12. parts \subseteq Rows(b, A)
  BY <1>1, <1>3, <1>6 DEF Rows
<1>13. Cardinality(parts) <= Cardinality(Rows(b, A)) /\ Cardinality(parts) \in Int
       /\ Cardinality(Rows(b, A)) \in Int
  <2> HIDE DEF parts
  <2> QED BY <1>5, <1>11, <1>12, FS_Subset, FS_CardinalityType
<1>14. ASSUME b.bottom >= 0,
              \A r \in A : Clip(b, r).bottom < Clip(b, r).top,
              \A r, s \in A : Clip(b, r).bottom <= Clip(b, s).bottom
                                => ~(Clip(b, s).top < Clip(b, r).top)
       PROVE  CoveredHeight(b, A) = Cardinality(Rows(b, A))
  <2>1. ASSUME NEW r \in A PROVE f[r] = Cardinality(part[r])
    <3>1. Lower(b, A, r) <= Clip(b, r).top
      <4>1. CASE Lower(b, A, r) = 0
        BY <1>1, <1>2, <1>14, <4>1
      <4>2. CASE Lower(b, A, r) = Clip(b, r).bottom
        BY <1>1, <1>14, <4>2
      <4>3. CASE \E s \in A : Before(b, s, r) /\ Lower(b, A, r) = Clip(b, s).top
        <5>1. PICK s \in A : Before(b, s, r) /\ Lower(b, A, r) = Clip(b, s).top
          BY <4>3
        <5>2. Clip(b, s).bottom <= Clip(b, r).bottom
          BY <5>1, BeforeOrder
        <5>3. ~(Clip(b, r).top < Clip(b, s).top)
          BY <1>14, <5>2
        <5> QED BY <1>1, <5>1, <5>3
      <4> QED BY <1>4, <4>1, <4>2, <4>3
    <3> QED BY <1>1, <1>3, <1>6, <1>8, <3>1
  <2>2. Rows(b, A) \subseteq parts
    <3>1. SUFFICES ASSUME NEW q \in A, NEW y \in Clip(b, q).bottom .. Clip(b, q).top - 1
                   PROVE  y \in parts
      BY DEF Rows
    <3>2. y \in Nat /\ Clip(b, q).bottom <= y /\ y < Clip(b, q).top
      BY <1>1, <1>2, <1>14
    <3>3. PICK r \in A : Lower(b, A, r) <= y /\ y < Clip(b, r).top
      BY <3>2, LowerCovers
    <3>4. y \in part[r]
      BY <1>1, <1>3, <1>6, <3>2, <3>3
    <3> QED BY <3>4
  <2>3. Rows(b, A) = parts
    BY <1>12, <2>2
  <2> HIDE DEF parts
  <2> QED BY <1>7, <1>11, <2>1, <2>3
<1> HIDE DEF parts
<1> QED BY <1>5, <1>7, <1>11, <1>13, <1>14

\* The pixels between the edges of a strip that lie under a covering window.
Cell(b, S, strip) == (strip[1] .. strip[2] - 1) \X Rows(b, Active(b, S, strip))

\* The edges are finitely many, none outside the window's own.
LEMMA FewStrips ==
  ASSUME NEW b \in Rects, NEW S, S \subseteq Rects
  PROVE  IsFiniteSet(Strips(b, S))
<1> DEFINE E == EdgesOf(b, S)
           low == Least(b.left, b.right)
           high == Greatest(b.left, b.right)
<1>1. b.left \in Int /\ b.right \in Int
  BY DEF Rects
<1>2. low \in Int /\ high \in Int /\ low <= b.left /\ b.left <= high
  BY <1>1 DEF Least, Greatest
<1>3. \A r \in Covers(b, S) : /\ low <= Clip(b, r).left /\ Clip(b, r).left <= high
                              /\ low <= Clip(b, r).right /\ Clip(b, r).right <= high
                              /\ Clip(b, r).left \in Int /\ Clip(b, r).right \in Int
  <2> TAKE r \in Covers(b, S)
  <2>1. r \in Rects /\ b.left < r.right /\ r.left < b.right
    BY DEF Covers, Overlap
  <2> QED BY <1>1, <2>1 DEF Clip, Rects, Least, Greatest
<1>4. E \subseteq low .. high
  <2>1. SUFFICES ASSUME NEW e \in E PROVE e \in low .. high
    OBVIOUS
  <2>2. e = b.left \/ \E r \in Covers(b, S) : e = Clip(b, r).left \/ e = Clip(b, r).right
    BY DEF EdgesOf
  <2> HIDE DEF E, low, high
  <2>3. e \in Int /\ low <= e /\ e <= high
    BY <1>1, <1>2, <1>3, <2>2
  <2> QED BY <1>2, <2>3
<1>5. Strips(b, S) \subseteq E \X E
  BY StripsAre
<1> HIDE DEF E, low, high
<1>6. IsFiniteSet(E)
  BY <1>2, <1>4, FS_Interval, FS_Subset
<1>7. IsFiniteSet(E \X E)
  BY <1>6, FS_Product
<1> QED BY <1>5, <1>7, FS_Subset

LEMMA StripsLieApart ==
  ASSUME NEW b \in Rects, NEW S, S \subseteq Rects,
         NEW p \in Strips(b, S), NEW q \in Strips(b, S), p # q
  PROVE  Cell(b, S, p) \cap Cell(b, S, q) = {}
<1> DEFINE E == EdgesOf(b, S)
<1>1. E \subseteq Int
  BY StripsAre
<1>2. /\ p \in E \X E /\ q \in E \X E
      /\ \A e \in E : (e <= p[1] \/ p[2] <= e) /\ (e <= q[1] \/ q[2] <= e)
  BY StripsAre
<1> HIDE DEF E
<1>3. /\ p[1] \in E /\ p[2] \in E /\ q[1] \in E /\ q[2] \in E
      /\ p[1] \in Int /\ p[2] \in Int /\ q[1] \in Int /\ q[2] \in Int
  BY <1>1, <1>2
<1>4. p[1] # q[1] \/ p[2] # q[2]
  BY <1>2
<1>5. ASSUME NEW x \in Int, p[1] <= x, x < p[2], q[1] <= x, x < q[2] PROVE FALSE
  <2>1. q[1] <= p[1] /\ p[1] <= q[1]
    BY <1>2, <1>3, <1>5
  <2>2. p[2] <= q[2] /\ q[2] <= p[2]
    BY <1>2, <1>3, <1>5
  <2> QED BY <1>3, <1>4, <2>1, <2>2
<1>6. (p[1] .. p[2] - 1) \cap (q[1] .. q[2] - 1) = {}
  BY <1>3, <1>5
<1> QED BY <1>6 DEF Cell

\* The cells are what is covered of the window.
LEMMA CellsCover ==
  ASSUME NEW b \in Rects, NEW S, S \subseteq Rects
  PROVE  UNION {Cell(b, S, strip) : strip \in Strips(b, S)}
           = Pixels(b) \cap UNION {Pixels(r) : r \in S}
<1>1. \A r \in Rects : /\ r.left \in Int /\ r.right \in Int /\ r.bottom \in Int /\ r.top \in Int
                       /\ Clip(b, r) \in Rects
  BY ClipIs DEF Rects
<1>2. \A r \in Rects : \A x, y : <<x, y>> \in Pixels(r)
        <=> /\ x \in Int /\ y \in Int
            /\ r.left <= x /\ x < r.right /\ r.bottom <= y /\ y < r.top
  BY <1>1 DEF Pixels
<1>3. ASSUME NEW strip \in Strips(b, S), NEW pixel \in Cell(b, S, strip)
      PROVE  pixel \in Pixels(b) /\ \E r \in S : pixel \in Pixels(r)
  <2>1. strip[1] \in Int /\ strip[2] \in Int
    <3>1. strip \in EdgesOf(b, S) \X EdgesOf(b, S) /\ EdgesOf(b, S) \subseteq Int
      BY StripsAre
    <3> QED BY <3>1
  <2>2. PICK x \in strip[1] .. strip[2] - 1, y \in Rows(b, Active(b, S, strip)) : pixel = <<x, y>>
    BY DEF Cell
  <2>3. PICK r \in Active(b, S, strip) : y \in Clip(b, r).bottom .. Clip(b, r).top - 1
    BY DEF Rows
  <2>4. r \in S /\ r \in Rects /\ Clip(b, r).left <= strip[1] /\ strip[2] <= Clip(b, r).right
    BY DEF Active, Covers
  <2>5. /\ x \in Int /\ Clip(b, r).left <= x /\ x < Clip(b, r).right
        /\ y \in Int /\ Clip(b, r).bottom <= y /\ y < Clip(b, r).top
    <3>1. Clip(b, r).left \in Int /\ Clip(b, r).right \in Int
          /\ Clip(b, r).bottom \in Int /\ Clip(b, r).top \in Int
      BY <1>1, <2>4 DEF Rects
    <3> QED BY <2>1, <2>3, <2>4, <3>1
  <2>6. /\ r.left <= x /\ x < r.right /\ r.bottom <= y /\ y < r.top
        /\ b.left <= x /\ x < b.right /\ b.bottom <= y /\ y < b.top
    <3>1. Clip(b, r).left \in Int /\ Clip(b, r).right \in Int
          /\ Clip(b, r).bottom \in Int /\ Clip(b, r).top \in Int
      BY <1>1, <2>4 DEF Rects
    <3> QED BY <1>1, <2>4, <2>5, <3>1, ClipIs
  <2> QED BY <1>2, <2>2, <2>4, <2>5, <2>6
<1>4. ASSUME NEW pixel \in Pixels(b), NEW r \in S, pixel \in Pixels(r)
      PROVE  \E strip \in Strips(b, S) : pixel \in Cell(b, S, strip)
  <2>1. PICK x, y : pixel = <<x, y>>
    BY DEF Pixels
  <2>2. /\ x \in Int /\ y \in Int /\ r \in Rects
        /\ r.left <= x /\ x < r.right /\ r.bottom <= y /\ y < r.top
        /\ b.left <= x /\ x < b.right /\ b.bottom <= y /\ y < b.top
    BY <1>2, <1>4, <2>1
  <2>3. r \in Covers(b, S)
    BY <1>1, <2>2 DEF Covers, Overlap
  <2>4. /\ Clip(b, r).left <= x /\ x < Clip(b, r).right
        /\ Clip(b, r).bottom <= y /\ y < Clip(b, r).top
        /\ Clip(b, r).top \in Int /\ Clip(b, r).bottom \in Int
    BY <1>1, <2>2, ClipIs
  <2>5. PICK strip \in Strips(b, S) : strip[1] <= x /\ x < strip[2] /\ r \in Active(b, S, strip)
    BY <2>2, <2>3, <2>4, StripOf
  <2>6. strip[1] \in Int /\ strip[2] \in Int
    <3>1. strip \in EdgesOf(b, S) \X EdgesOf(b, S) /\ EdgesOf(b, S) \subseteq Int
      BY StripsAre
    <3> QED BY <3>1
  <2>7. x \in strip[1] .. strip[2] - 1
    BY <2>2, <2>5, <2>6
  <2>8. y \in Rows(b, Active(b, S, strip))
    BY <2>2, <2>4, <2>5 DEF Rows
  <2> QED BY <2>1, <2>7, <2>8 DEF Cell
<1> QED BY <1>3, <1>4

\* A height that is too small gives an area that is too small.
LEMMA Product ==
  ASSUME NEW h \in Int, NEW n \in Nat, NEW w \in Nat, h <= n
  PROVE  h * w \in Int /\ h * w <= w * n
<1>1. n - h \in Nat
  OBVIOUS
<1>2. (n - h) * w >= 0
  BY <1>1
<1>3. (n - h) * w = n * w - h * w
  OBVIOUS
<1> QED BY <1>2, <1>3

\* No two of the windows are nested beside each other.
NoneNested(b, S) ==
  \A r, s \in Covers(b, S) :
    LET i == Clip(b, r)
        j == Clip(b, s)
    IN ~(/\ i.left < j.right /\ j.left < i.right
         /\ i.bottom <= j.bottom /\ j.top < i.top)

\* The area counted is that of the pixels that are covered, or less.
LEMMA AreaIs ==
  ASSUME NEW b \in Rects, NEW S, S \subseteq Rects, IsFiniteSet(S)
  PROVE  /\ CoveredArea(b, S) <= Cardinality(Pixels(b) \cap UNION {Pixels(r) : r \in S})
         /\ /\ b.bottom >= 0 /\ NoneNested(b, S)
            /\ \A r \in S \cup {b} : r.bottom < r.top
            => CoveredArea(b, S) = Cardinality(Pixels(b) \cap UNION {Pixels(r) : r \in S})
<1> DEFINE A(strip) == Active(b, S, strip)
           f == [strip \in Strips(b, S) |-> CoveredHeight(b, A(strip)) * (strip[2] - strip[1])]
           part == [strip \in Strips(b, S) |-> Cell(b, S, strip)]
<1>1. \A strip \in Strips(b, S) :
        /\ f[strip] = CoveredHeight(b, A(strip)) * (strip[2] - strip[1])
        /\ part[strip] = Cell(b, S, strip)
  OBVIOUS
<1> HIDE DEF f, part
<1>2. \A strip \in Strips(b, S) : /\ A(strip) \subseteq Covers(b, S) /\ Covers(b, S) \subseteq S
                                  /\ A(strip) \subseteq Rects /\ IsFiniteSet(A(strip))
  <2>1. \A strip : A(strip) \subseteq Covers(b, S) /\ Covers(b, S) \subseteq S
    BY DEF Active, Covers
  <2> HIDE DEF A
  <2> QED BY <2>1, FS_Subset
<1>3. \A strip \in Strips(b, S) : strip[1] \in Int /\ strip[2] \in Int /\ strip[1] < strip[2]
  BY StripsAre
<1>4. ASSUME NEW strip \in Strips(b, S)
      PROVE  /\ IsFiniteSet(part[strip])
             /\ Cardinality(part[strip]) = (strip[2] - strip[1]) * Cardinality(Rows(b, A(strip)))
             /\ Cardinality(Rows(b, A(strip))) \in Nat
             /\ f[strip] \in Int /\ f[strip] <= Cardinality(part[strip])
  <2> DEFINE X == strip[1] .. strip[2] - 1
             Y == Rows(b, A(strip))
             w == strip[2] - strip[1]
             h == CoveredHeight(b, A(strip))
  <2> HIDE DEF A
  <2>1. IsFiniteSet(X) /\ Cardinality(X) = w /\ w \in Nat
    <3>1. strip[1] \in Int /\ strip[2] - 1 \in Int /\ ~(strip[1] > strip[2] - 1)
          /\ (strip[2] - 1) - strip[1] + 1 = w /\ w \in Nat
      BY <1>3
    <3> QED BY <3>1, FS_Interval
  <2>2. IsFiniteSet(Y) /\ Cardinality(Y) \in Nat /\ h \in Int /\ h <= Cardinality(Y)
    BY <1>2, HeightIs, FS_CardinalityType
  <2>3. part[strip] = X \X Y
    BY <1>1 DEF Cell, A
  <2>4. f[strip] = h * w
    BY <1>1
  <2> HIDE DEF X, Y, w, h
  <2>5. IsFiniteSet(X \X Y) /\ Cardinality(X \X Y) = w * Cardinality(Y)
    BY <2>1, <2>2, FS_Product
  <2>6. h * w \in Int /\ h * w <= w * Cardinality(Y)
    BY <2>1, <2>2, Product
  <2>7. /\ IsFiniteSet(part[strip]) /\ Cardinality(part[strip]) = w * Cardinality(Y)
        /\ Cardinality(Y) \in Nat /\ f[strip] \in Int /\ f[strip] <= Cardinality(part[strip])
    BY <2>2, <2>3, <2>4, <2>5, <2>6
  <2> QED BY <2>7 DEF w, Y
<1>5. \A p, q \in Strips(b, S) : p # q => part[p] \cap part[q] = {}
  BY <1>1, StripsLieApart
<1>6. CoveredArea(b, S) = Sum(f, Strips(b, S))
  BY <1>1, FewStrips, AreasAre
<1>7. UNION {part[strip] : strip \in Strips(b, S)} = Pixels(b) \cap UNION {Pixels(r) : r \in S}
  <2>1. {part[strip] : strip \in Strips(b, S)} = {Cell(b, S, strip) : strip \in Strips(b, S)}
    BY <1>1
  <2> QED BY <2>1, CellsCover
<1>8. /\ Sum(f, Strips(b, S)) <= Cardinality(UNION {part[strip] : strip \in Strips(b, S)})
      /\ (\A strip \in Strips(b, S) : f[strip] = Cardinality(part[strip]))
           => Sum(f, Strips(b, S)) = Cardinality(UNION {part[strip] : strip \in Strips(b, S)})
  <2> DEFINE T == Strips(b, S)
  <2>1. IsFiniteSet(T)
    BY FewStrips
  <2>2. \A x \in T : f[x] \in Int /\ IsFiniteSet(part[x]) /\ f[x] <= Cardinality(part[x])
    BY <1>4
  <2>3. \A x, y \in T : x # y => part[x] \cap part[y] = {}
    BY <1>5
  <2> HIDE DEF T
  <2>4. /\ Sum(f, T) <= Cardinality(UNION {part[x] : x \in T})
        /\ (\A x \in T : f[x] = Cardinality(part[x]))
             => Sum(f, T) = Cardinality(UNION {part[x] : x \in T})
    BY <2>1, <2>2, <2>3, SumOfParts
  <2> QED BY <2>4 DEF T
<1>9. ASSUME b.bottom >= 0, NoneNested(b, S), \A r \in S \cup {b} : r.bottom < r.top,
             NEW strip \in Strips(b, S)
      PROVE  f[strip] = Cardinality(part[strip])
  <2>1. \A r \in A(strip) : Clip(b, r).bottom < Clip(b, r).top
    <3> TAKE r \in A(strip)
    <3>1. /\ r \in S /\ r \in Rects /\ b.bottom < r.top /\ r.bottom < b.top
          /\ r.bottom < r.top /\ b.bottom < b.top
      BY <1>9 DEF Active, Covers, Overlap
    <3> QED BY <3>1 DEF Clip, Rects, Least, Greatest
  <2>2. \A r, s \in A(strip) : Clip(b, r).bottom <= Clip(b, s).bottom
                                 => ~(Clip(b, s).top < Clip(b, r).top)
    <3> TAKE r, s \in A(strip)
    <3>1. /\ r \in Covers(b, S) /\ s \in Covers(b, S)
          /\ Clip(b, r).left <= strip[1] /\ strip[2] <= Clip(b, r).right
          /\ Clip(b, s).left <= strip[1] /\ strip[2] <= Clip(b, s).right
      BY DEF Active
    <3>2. /\ Clip(b, r).left \in Int /\ Clip(b, r).right \in Int
          /\ Clip(b, s).left \in Int /\ Clip(b, s).right \in Int
      BY <3>1, ClipIs DEF Covers, Rects
    <3>3. Clip(b, r).left < Clip(b, s).right /\ Clip(b, s).left < Clip(b, r).right
      BY <1>3, <3>1, <3>2
    <3> QED BY <1>9, <3>1, <3>3 DEF NoneNested
  <2> HIDE DEF A
  <2>3. CoveredHeight(b, A(strip)) = Cardinality(Rows(b, A(strip)))
    BY <1>2, <1>9, <2>1, <2>2, HeightIs
  <2>4. strip[2] - strip[1] \in Int
    BY <1>3
  <2> QED BY <1>1, <1>4, <2>3, <2>4
<1> QED BY <1>6, <1>7, <1>8, <1>9

-----------------------------------------------------------------------------
(* The coverage *)

CoverageInv ==
  /\ base \in Base
  /\ above \subseteq Covering /\ IsFiniteSet(above)
  /\ mouse \in Position
  /\ ~polled => coverage = OverlapCalc(base, above, mouse)
  /\ coverage.area = CoveredArea(base, above)

LEMMA CoverageStep ==
  ASSUME CoverageInv, [CoverageNext]_coverageVars
  PROVE  CoverageInv'
<1>0. \A b, S, m : OverlapCalc(b, S, m).area = CoveredArea(b, S)
  BY DEF OverlapCalc
<1>1. ASSUME NEW r \in Covering, Restack(above \cup {r}) PROVE CoverageInv'
  <2>1. IsFiniteSet(above \cup {r})
    BY FS_AddElement DEF CoverageInv
  <2> QED BY <1>0, <1>1, <2>1 DEF CoverageInv, Restack, UpdateWindowCoverage
<1>2. ASSUME NEW r \in above, Restack(above \ {r}) PROVE CoverageInv'
  <2>1. IsFiniteSet(above \ {r})
    BY FS_Subset DEF CoverageInv
  <2> QED BY <1>0, <1>2, <2>1 DEF CoverageInv, Restack, UpdateWindowCoverage
<1>3. ASSUME NEW m \in Position, SendClientMouseInstruction(m) PROVE CoverageInv'
  BY <1>0, <1>3 DEF CoverageInv, SendClientMouseInstruction, UpdateWindowCoverage
<1>4. ASSUME NEW m \in Position, UpdatePosition(m) PROVE CoverageInv'
  BY <1>4 DEF CoverageInv, UpdatePosition
<1>5. CASE UNCHANGED coverageVars
  BY <1>5 DEF CoverageInv, coverageVars
<1> QED BY <1>1, <1>2, <1>3, <1>4, <1>5 DEF CoverageNext

\* The coverage kept is that of the window and of those above it, at the position last set
\* by a client: only a poll of the pointer leaves it behind.
THEOREM CoverageInvariant == CoverageSpec => []CoverageInv
<1>1. CoverageInit => CoverageInv
  BY FS_EmptySet DEF CoverageInit, CoverageInv, OverlapCalc
<1>2. CoverageInv /\ [CoverageNext]_coverageVars => CoverageInv'
  BY CoverageStep
<1> QED BY <1>1, <1>2, PTL DEF CoverageSpec

\* The strips of OverlapCalc find the pointer on a window exactly when no window above
\* covers it: for any rectangles and any number of them, right and top edges apart.
THEOREM PointerIsAlwaysFound == CoverageSpec => []PointerIsFound
<1>1. ASSUME CoverageInv PROVE PointerIsFound
  <2>1. SUFFICES ASSUME ~polled,
                        ~\E r \in {base} \cup above : mouse[1] = r.right \/ mouse[2] = r.top
                 PROVE  coverage.mouseOver = (mouse \in Pixels(base) \ CoveredPixels)
    BY DEF PointerIsFound
  <2>2. /\ base \in Rects /\ above \subseteq Rects /\ IsFiniteSet(above)
        /\ mouse \in Nat \X Nat
        /\ coverage = OverlapCalc(base, above, mouse)
    BY <1>1, <2>1, CoverageAssumption DEF CoverageInv, Rects
  <2>3. OverlapCalc(base, above, mouse).mouseOver
          <=> mouse \in Pixels(base) /\ ~\E r \in above : mouse \in Pixels(r)
    BY <2>1, <2>2, MouseOverIs
  <2>4. mouse \in Pixels(base) \ CoveredPixels
          <=> mouse \in Pixels(base) /\ ~\E r \in above : mouse \in Pixels(r)
    BY DEF CoveredPixels
  <2>5. OverlapCalc(base, above, mouse).mouseOver \in BOOLEAN
    BY DEF OverlapCalc
  <2>6. OverlapCalc(base, above, mouse).mouseOver = (mouse \in Pixels(base) \ CoveredPixels)
    BY <2>3, <2>4, <2>5
  <2> QED BY <2>2, <2>6
<1> QED BY <1>1, CoverageInvariant, PTL

\* The area found to be covered is at most the number of pixels that are, and exact but
\* for the nested windows and those above the screen: for any rectangles and any number
\* of them.
THEOREM CoverageIsNotOverrated == CoverageSpec => []CoverageNotOverrated
<1>1. ASSUME CoverageInv PROVE CoverageNotOverrated
  <2>1. /\ base \in Rects /\ above \subseteq Rects /\ IsFiniteSet(above)
        /\ \A r \in above \cup {base} : r.bottom < r.top
        /\ coverage.area = CoveredArea(base, above)
    BY <1>1, CoverageAssumption DEF CoverageInv, Rects
  <2>2. ~Nested => NoneNested(base, above)
    BY DEF Nested, NoneNested
  <2>3. CoveredPixels = Pixels(base) \cap UNION {Pixels(r) : r \in above}
    BY DEF CoveredPixels
  <2> QED BY <2>1, <2>2, <2>3, AreaIs DEF CoverageNotOverrated
<1> QED BY <1>1, CoverageInvariant, PTL

=============================================================================
