----------------------------- MODULE Rectangles -----------------------------
(* WebXRectangle: rectangles by their four edges; the right and the top edge   *)
(* are not part of them.                                                       *)
EXTENDS Integers

Rectangle(x, y, width, height) ==
  [left |-> x, right |-> x + width, bottom |-> y, top |-> y + height]

\* They overlap, or share an edge or a corner.
OverlapOrTouching(r, s) ==
  /\ r.left <= s.right /\ s.left <= r.right
  /\ r.bottom <= s.top /\ s.bottom <= r.top

Overlap(r, s) ==
  /\ r.left < s.right /\ s.left < r.right
  /\ r.bottom < s.top /\ s.bottom < r.top

ContainsRectangle(r, s) ==
  /\ r.left <= s.left /\ s.right <= r.right
  /\ r.bottom <= s.bottom /\ s.top <= r.top

Least(a, b) == IF a < b THEN a ELSE b
Greatest(a, b) == IF a > b THEN a ELSE b

\* r += s
Hull_KeepsTop(r, s) ==
  [left |-> Least(r.left, s.left), right |-> Greatest(r.right, s.right),
   bottom |-> Least(r.bottom, s.bottom), top |-> r.top]

Hull(r, s) ==
  [left |-> Least(r.left, s.left), right |-> Greatest(r.right, s.right),
   bottom |-> Least(r.bottom, s.bottom), top |-> Greatest(r.top, s.top)]

Area(r) == (r.right - r.left) * (r.top - r.bottom)

Pixels(r) == (r.left .. r.right - 1) \X (r.bottom .. r.top - 1)
=============================================================================
