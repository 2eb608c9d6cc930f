---------------------------- MODULE WindowDamage ----------------------------
(***************************************************************************)
(* WebXWindowDamage: the damaged areas of one window as rectangles, in one *)
(* group of clients.                                                       *)
(*                                                                         *)
(* An area is merged with those it touches.  When the images are due, the  *)
(* whole window is sent if most of it is damaged by the size the engine    *)
(* knows; otherwise each area is, if it lies in the window as it is then.  *)
(* The window's size changes before the engine is told.  WindowImages has  *)
(* the rest of the way of an image: the groups, the checksums and the      *)
(* grabs that fail.                                                        *)
(***************************************************************************)
EXTENDS Rectangles, SequencesExt

CONSTANTS
  Size,        \* the sizes that the window may have: [width, height]
  MaxPaints,    \* bound on the changes of the window's pixels
  MaxResizes   \* bound on the changes of its size

ASSUME DamageAssumption ==
  /\ Size \subseteq [width : Nat \ {0}, height : Nat \ {0}]
  /\ MaxPaints \in Nat /\ MaxResizes \in Nat

VARIABLES
  size,        \* the window's size
  display,     \* the size as the display knows it, and the group's window takes it
  areas,       \* _damageAreas
  stale,       \* pixels that have changed since they were last sent
  refused,     \* history: those of them whose area was refused
  grown,       \* history: the areas that were merged from several
  paints, resizes

damageVars == <<size, display, areas, stale, refused, grown, paints, resizes>>

WholeOf(s) == Rectangle(0, 0, s.width, s.height)
PixelsOf(S) == UNION {Pixels(r) : r \in S}

-----------------------------------------------------------------------------

DamageInit ==
  /\ size \in Size
  /\ display = size
  /\ areas = <<>>
  /\ stale = {} /\ refused = {} /\ grown = {}
  /\ paints = 0 /\ resizes = 0

Touches_OnlyOverlap(r, s) == Overlap(r, s)
Touches(r, s) == OverlapOrTouching(r, s)

\* One pass over the areas: those that touch the new one, as it has grown by then, are
\* merged into it.
Merged(r) ==
  LET after[i \in 0 .. Len(areas)] ==
        IF i = 0 THEN [hull |-> r, apart |-> <<>>]
        ELSE LET acc == after[i - 1]
             IN IF Touches(areas[i], acc.hull)
                THEN [hull |-> Hull(acc.hull, areas[i]), apart |-> acc.apart]
                ELSE [hull |-> acc.hull, apart |-> Append(acc.apart, areas[i])]
  IN after

\* addDamageRecange
AddDamageArea(r) ==
  LET merged == Merged(r)[Len(areas)]
      others == ToSet(merged.apart)
  IN /\ areas' = Append(merged.apart, merged.hull)
     /\ grown' = (grown \cap others)
                 \cup (IF Len(merged.apart) < Len(areas) THEN {merged.hull} ELSE {})

\* The application changes the pixels of r.
Paint(r) ==
  /\ paints < MaxPaints /\ paints' = paints + 1
  /\ stale' = stale \cup Pixels(r)
  /\ AddDamageArea(r)
  /\ UNCHANGED <<size, display, refused, resizes>>

Resize(s) ==
  /\ s # size /\ resizes < MaxResizes /\ resizes' = resizes + 1
  /\ size' = s
  /\ stale' = stale \cap Pixels(WholeOf(s))
  /\ refused' = refused \cap Pixels(WholeOf(s))
  /\ UNCHANGED <<display, areas, grown, paints>>

\* The engine reads the sizes anew when a configure event has come, or any other window
\* has changed.  The size is compared with the event's once it has been set to it, so that
\* no change is ever seen and the whole window never taken as damaged.
UpdateVisibleWindows ==
  /\ display # size
  /\ display' = size
  /\ UNCHANGED <<size, areas, stale, refused, grown, paints, resizes>>

DamagedArea == FoldLeft(LAMBDA sum, a : sum + Area(a), 0, areas)

IsFullWindow(s) ==
  Len(areas) = 1 /\ WholeOf(s) = Rectangle(0, 0, areas[1].right - areas[1].left,
                                                 areas[1].top - areas[1].bottom)

SendsWhole(s) == IsFullWindow(s) \/ 10 * DamagedArea > 9 * Area(WholeOf(s))

\* Images are due: the group's window takes the size that the display has, which takes
\* the window's own as the image is grabbed.
UpdateClientWindows ==
  LET sent == IF SendsWhole(display) THEN {WholeOf(size)}
              ELSE {a \in ToSet(areas) : ContainsRectangle(WholeOf(size), a)}
      outside == IF SendsWhole(display) THEN {} ELSE ToSet(areas) \ sent
  IN /\ areas # <<>>
     /\ display' = size
     /\ stale' = stale \ PixelsOf(sent)
     /\ refused' = (refused \cup (stale \cap PixelsOf(outside))) \ PixelsOf(sent)
     /\ areas' = <<>> /\ grown' = {}
     /\ UNCHANGED <<size, paints, resizes>>

DamageNext ==
  \/ \E left \in 0 .. size.width - 1, bottom \in 0 .. size.height - 1 :
       \E right \in left + 1 .. size.width, top \in bottom + 1 .. size.height :
         Paint(Rectangle(left, bottom, right - left, top - bottom))
  \/ \E s \in Size : Resize(s)
  \/ UpdateVisibleWindows
  \/ UpdateClientWindows

DamageSpec == DamageInit /\ [][DamageNext]_damageVars

-----------------------------------------------------------------------------
(* Properties *)

\* A pixel that has changed and has not been sent lies in a damaged area, however the
\* areas were merged and the window resized: or it was in an area that reached out of the
\* window when images were due, and was given up with it.
StaleIsDamaged == stale \subseteq PixelsOf(ToSet(areas)) \cup refused

\* Areas that touch each other are merged: but for an area passed over before the new
\* one had grown to touch it, the areas lie apart, and each pixel is sent once.
ApartUnlessGrown ==
  \A i, j \in DOMAIN areas :
    i < j /\ OverlapOrTouching(areas[i], areas[j]) => areas[j] \in grown
=============================================================================
