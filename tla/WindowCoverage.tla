--------------------------- MODULE WindowCoverage ---------------------------
(***************************************************************************)
(* WebXWindowCoverage: how much of one visible window lies under others,   *)
(* and whether the pointer is on what is left of it.  The quality of the   *)
(* window's images goes down as it is covered and up as the pointer enters.*)
(*                                                                         *)
(* A sweep from left to right adds, between any two vertical edges of the  *)
(* covering windows, the height of the intervals that are active there.    *)
(***************************************************************************)
EXTENDS Rectangles, FiniteSets, SequencesExt

CONSTANTS
  Base,        \* rectangles that the window may have
  Covering,    \* rectangles that windows above it may have
  Position,    \* positions of the pointer: <<x, y>>
  MaxAbove     \* bound on the windows above

ASSUME CoverageAssumption ==
  /\ Base \subseteq [left : Int, right : Int, bottom : Int, top : Int]
  /\ Covering \subseteq [left : Int, right : Int, bottom : Int, top : Int]
  /\ \A r \in Base \cup Covering : r.left < r.right /\ r.bottom < r.top
  /\ Position \subseteq Nat \X Nat
  /\ MaxAbove \in Nat

VARIABLES
  base,        \* the window
  above,       \* the windows above it
  mouse,       \* the pointer's position as the engine knows it
  coverage,    \* WebXWindowCoverage, with the covered area for its share of the window
  polled       \* history: the position was read from the X server since the coverage was
               \* calculated

coverageVars == <<base, above, mouse, coverage, polled>>

-----------------------------------------------------------------------------
(* OverlapCalc *)

Covers(b, S) == {r \in S : Overlap(b, r)}

\* What r covers of b.
Clip(b, r) ==
  [left |-> Greatest(r.left, b.left), right |-> Least(r.right, b.right),
   bottom |-> Greatest(r.bottom, b.bottom), top |-> Least(r.top, b.top)]

\* The strips between consecutive edges: the first starts at the window's left edge.
Strips(b, S) ==
  LET edges == {b.left} \cup UNION {{Clip(b, r).left, Clip(b, r).right} : r \in Covers(b, S)}
  IN {strip \in edges \X edges : /\ strip[1] < strip[2]
                                /\ \A e \in edges : e <= strip[1] \/ strip[2] <= e}

Active(b, S, strip) ==
  {r \in Covers(b, S) : Clip(b, r).left <= strip[1] /\ strip[2] <= Clip(b, r).right}

\* The intervals are ordered by their ends.  Equal ones follow each other, in whichever order.
Key(c, r) == <<c.bottom, c.top, r.left, r.right, r.bottom, r.top>>
Precedes(k, l) == \E n \in 1..6 : k[n] < l[n] /\ \A o \in 1..(n - 1) : k[o] = l[o]
Before(b, r, s) == Precedes(Key(Clip(b, r), r), Key(Clip(b, s), s))

\* An interval adds what lies above those before it; the first is measured from height 0.
Lower_Whole(b, A, r) == Clip(b, r).bottom

Lower(b, A, r) ==
  Max({0, Clip(b, r).bottom} \cup {Clip(b, s).top : s \in {s \in A : Before(b, s, r)}})

CoveredHeight(b, A) == MapThenSumSet(LAMBDA r : Clip(b, r).top - Lower(b, A, r), A)

CoveredArea(b, S) ==
  MapThenSumSet(LAMBDA strip : CoveredHeight(b, Active(b, S, strip)) * (strip[2] - strip[1]),
                Strips(b, S))

\* All edges count as inside.
MouseHidden_AnyStrip(b, S, m) ==
  \E strip \in Strips(b, S) : \E r \in Active(b, S, strip) :
    Lower(b, Active(b, S, strip), r) <= m[2] /\ m[2] <= Clip(b, r).top

MouseHidden(b, S, m) ==
  \E strip \in Strips(b, S) : \E r \in Active(b, S, strip) :
    /\ strip[1] <= m[1] /\ m[1] <= strip[2]
    /\ Lower(b, Active(b, S, strip), r) <= m[2] /\ m[2] <= Clip(b, r).top

OverlapCalc(b, S, m) ==
  [area |-> CoveredArea(b, S),
   mouseOver |-> /\ b.left <= m[1] /\ m[1] <= b.right
                 /\ b.bottom <= m[2] /\ m[2] <= b.top
                 /\ ~MouseHidden(b, S, m)]

-----------------------------------------------------------------------------

CoverageInit ==
  /\ base \in Base
  /\ above = {}
  /\ mouse \in Position
  /\ coverage = OverlapCalc(base, {}, mouse)
  /\ polled = FALSE

UpdateWindowCoverage ==
  /\ coverage' = OverlapCalc(base, above', mouse')
  /\ polled' = FALSE
  /\ UNCHANGED base

\* Windows come to stand above the window, and go or are lowered.
Restack(S) ==
  /\ above' = S
  /\ mouse' = mouse
  /\ UpdateWindowCoverage

\* A client moves the pointer.
SendClientMouseInstruction(m) ==
  /\ mouse' = m
  /\ above' = above
  /\ UpdateWindowCoverage

\* The loop reads the pointer's position, and calculates nothing anew.
UpdatePosition(m) ==
  /\ m # mouse
  /\ mouse' = m
  /\ polled' = TRUE
  /\ UNCHANGED <<base, above, coverage>>

CoverageNext ==
  \/ \E r \in Covering \ above :
       Cardinality(above) < MaxAbove /\ Restack(above \cup {r})
  \/ \E r \in above : Restack(above \ {r})
  \/ \E m \in Position : SendClientMouseInstruction(m) \/ UpdatePosition(m)

CoverageSpec == CoverageInit /\ [][CoverageNext]_coverageVars

-----------------------------------------------------------------------------
(* Properties *)

CoveredPixels == Pixels(base) \cap UNION {Pixels(r) : r \in above}

\* Two intervals of one strip, one inside the other.
Nested ==
  \E r, s \in Covers(base, above) :
    LET i == Clip(base, r)
        j == Clip(base, s)
    IN /\ i.left < j.right /\ j.left < i.right
       /\ i.bottom <= j.bottom /\ j.top < i.top

\* The area found to be covered is never more than what is covered, so that no window
\* loses quality for windows that do not hide it; and it is exact unless a covering window
\* spans the heights of another one beside it, or the window reaches above the screen.
CoverageNotOverrated ==
  /\ coverage.area <= Cardinality(CoveredPixels)
  /\ ~Nested /\ base.bottom >= 0 => coverage.area = Cardinality(CoveredPixels)

\* The pointer is found on the window when its pixel is one of the window's that is not
\* covered: unless it is just outside an edge, or was moved by other means than a client's
\* instruction since.
PointerIsFound ==
  \/ polled
  \/ \E r \in {base} \cup above : mouse[1] = r.right \/ mouse[2] = r.top
  \/ coverage.mouseOver = (mouse \in Pixels(base) \ CoveredPixels)
=============================================================================
