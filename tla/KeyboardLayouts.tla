--------------------------- MODULE KeyboardLayouts ---------------------------
(***************************************************************************)
(* Two of the tables of WebXKeyboardSymbolMapping.h, with a key of each    *)
(* kind that they hold: for a keysym its keycode, the modifiers to be set  *)
(* and to be cleared when it is pressed, and whether it needs Num Lock.    *)
(* The other rows differ from these in their numbers only.  End has the    *)
(* keycode of KP_1, as Home, Insert and others have those of the keypad.   *)
(***************************************************************************)
EXTENDS Naturals

Def(code, set, clear, numlock) ==
  [code |-> code, set |-> set, clear |-> clear, numlock |-> numlock]

\* The keys that have the same row in every table.
Common ==
  [Shift_L          |-> Def(50, {}, {}, FALSE),
   Shift_R          |-> Def(62, {}, {}, FALSE),
   Alt_L            |-> Def(64, {}, {}, FALSE),
   Alt_R            |-> Def(64, {}, {}, FALSE),
   ISO_Level3_Shift |-> Def(92, {}, {}, FALSE),
   Num_Lock         |-> Def(77, {}, {}, FALSE),
   Caps_Lock        |-> Def(66, {}, {}, FALSE),
   KP_1             |-> Def(87, {}, {"Shift"}, TRUE),
   End              |-> Def(87, {}, {}, FALSE),
   KP_Decimal       |-> Def(91, {}, {}, TRUE),
   a                |-> Def(38, {}, {"Shift", "AltGr"}, FALSE),
   A                |-> Def(38, {"Shift"}, {"AltGr"}, FALSE)]

\* With a plain key, a shifted one, one with AltGr and one with both.
Gb ==
  [at        |-> Def(48, {"Shift"}, {"AltGr"}, FALSE),
   exclam    |-> Def(10, {"Shift"}, {"AltGr"}, FALSE),
   brokenbar |-> Def(49, {"AltGr"}, {"Shift"}, FALSE),
   Eacute    |-> Def(26, {"Shift", "AltGr"}, {}, FALSE)]

\* brokenbar is not in this table.
Hu ==
  [at        |-> Def(55, {"AltGr"}, {"Shift"}, FALSE),
   exclam    |-> Def(13, {"Shift"}, {"AltGr"}, FALSE),
   Eacute    |-> Def(47, {"Shift"}, {"AltGr"}, FALSE)]

KeyMaps(l) == IF l = "gb" THEN Gb ELSE Hu
=============================================================================
