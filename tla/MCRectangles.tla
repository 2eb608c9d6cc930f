---------------------------- MODULE MCRectangles ----------------------------
(* A small instance of WindowDamage and of WindowCoverage, which share         *)
(* Rectangles.  One window is damaged, or another one is covered; neither step *)
(* touches the state of the other, so that the two are not interleaved.        *)
EXTENDS WindowDamage, WindowCoverage

MCSize == {[width |-> 3, height |-> 3], [width |-> 2, height |-> 3]}

\* The covered window is two pixels wide and three high, or reaches one above the screen.
MCBase == {Rectangle(0, 0, 2, 3), Rectangle(0, -1, 2, 3)}
MCCovering ==
  {r \in {Rectangle(x, y, 2, h) : x \in {-1, 0, 1}, y \in -1..2, h \in {1, 2, 4}} : r.top <= 3}
MCPosition == {<<0, 0>>, <<0, 1>>, <<1, 1>>, <<1, 2>>}

CoverageUntouched == base.bottom = 0 /\ above = {} /\ mouse = <<0, 0>> /\ ~polled
DamageUntouched == paints = 0 /\ resizes = 0

RectanglesInit == DamageInit /\ CoverageInit
RectanglesNext ==
  \/ CoverageUntouched /\ DamageNext /\ UNCHANGED coverageVars
  \/ DamageUntouched /\ CoverageNext /\ UNCHANGED damageVars
RectanglesSpec == RectanglesInit /\ [][RectanglesNext]_<<damageVars, coverageVars>>
=============================================================================
