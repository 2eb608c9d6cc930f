------------------------------ MODULE Keyboard ------------------------------
(***************************************************************************)
(* WebXKeyboard: the key instructions of all the clients become key events *)
(* of one keyboard.                                                        *)
(*                                                                         *)
(* A client sends keysyms.  The engine has a table for the layout: a       *)
(* keysym's keycode and the modifiers and Num Lock it needs.  To press a   *)
(* key it first presses and releases the keys of the modifiers, and taps   *)
(* Num Lock; to release it, it releases the modifiers that were needed and *)
(* taps Num Lock again.  The X server knows the keys that are down, and    *)
(* makes a keysym of a keycode by its own layout.                          *)
(*                                                                         *)
(* Of one instruction all the events are sent at once, so that instructions*)
(* are the steps.                                                          *)
(***************************************************************************)
EXTENDS Naturals, FiniteSets

CONSTANTS
  Client,
  Layout,
  Keysym,
  Mapping,     \* Mapping[l][k]: the row of keysym k in the table of layout l, if any
  Sent,        \* bound on the keysyms that clients send
  MaxHeld,     \* bound on the keys that are held
  MaxUpsets    \* bound on the changes of the layout and the clients that go

Rows == [code : Nat, set : SUBSET {"Shift", "AltGr"}, clear : SUBSET {"Shift", "AltGr"},
         numlock : BOOLEAN]
ModifierKeysym ==
  {"Shift_L", "Shift_R", "ISO_Level3_Shift", "Alt_L", "Alt_R", "Num_Lock"}

\* No row has a modifier to set and to clear.  The keys of the modifiers have the same
\* keycode in every layout, need no modifier, and share it with no other key, but for the
\* two Alt keys, which have one keycode.
ASSUME KeyboardAssumption ==
  /\ Sent \subseteq Keysym
  /\ MaxHeld \in Nat /\ MaxUpsets \in Nat
  /\ \A l \in Layout : /\ DOMAIN Mapping[l] \subseteq Keysym
                       /\ ModifierKeysym \subseteq DOMAIN Mapping[l]
                       /\ \A k \in DOMAIN Mapping[l] :
                            Mapping[l][k] \in Rows /\ Mapping[l][k].set \cap Mapping[l][k].clear = {}
  /\ \A l, m \in Layout, k \in ModifierKeysym :
       /\ Mapping[l][k] = Mapping[m][k]
       /\ Mapping[l][k].set = {} /\ Mapping[l][k].clear = {} /\ ~Mapping[l][k].numlock
       /\ \A n \in DOMAIN Mapping[l] \ ModifierKeysym : Mapping[l][n].code # Mapping[l][k].code
       /\ \A n \in ModifierKeysym \ {k} : Mapping[l][n].code = Mapping[l][k].code
                                          => {k, n} = {"Alt_L", "Alt_R"}

VARIABLES
  layout,      \* _keyboardMapping
  locksSet,    \* _locksSet: the engine has switched Num Lock
  xlayout,     \* the layout of the X server
  x,           \* the X server: the keys that are down, and Num Lock
  held,        \* the keys that clients hold, with the layout they were pressed in
  upsets,      \* number of changes of the layout and of clients that went
  stuck,       \* history: keys of which a client has gone, or that were released in another
               \* layout
  muddled,     \* history: the engine tapped Num Lock while a client held it
  switched,    \* history: Num Lock as the clients have switched it, until then
  unreturned   \* history: a key that needs Num Lock was let go without its release, and
               \* none that needs it has been released since

keyboardVars == <<layout, locksSet, xlayout, x, held, upsets, stuck, switched, muddled,
                  unreturned>>

-----------------------------------------------------------------------------
(* The X server *)

Code(k) == Mapping[layout][k].code
NumLockCode == Code("Num_Lock")

\* Num Lock goes on when its key is pressed; when it was on it goes off as the key is
\* released.
XPress(s, c) ==
  IF c \in s.down THEN s
  ELSE [down |-> s.down \cup {c},
        numlock |-> s.numlock \/ c = NumLockCode,
        unlocks |-> IF c = NumLockCode THEN s.numlock ELSE s.unlocks]

XRelease(s, c) ==
  IF c \notin s.down THEN s
  ELSE [s EXCEPT !.down = @ \ {c},
                 !.numlock = @ /\ ~(c = NumLockCode /\ s.unlocks)]

Modifiers(s) ==
  LET isDown(k) == Code(k) \in s.down
  IN {m \in {"Shift", "AltGr"} :
        \/ m = "Shift" /\ (isDown("Shift_L") \/ isDown("Shift_R"))
        \/ m = "AltGr" /\ isDown("ISO_Level3_Shift")}

\* The keypad gives digits, and the other keys are those that share its keycodes.
GivesDigits(s) == s.numlock # ("Shift" \in Modifiers(s))
OnKeypad(l, c) == \E k \in DOMAIN Mapping[l] : Mapping[l][k].code = c /\ Mapping[l][k].numlock

\* What the X server makes of keycode c: the keysyms of its layout that the modifiers
\* which are down give.
XMakes(s, c) ==
  {k \in DOMAIN Mapping[xlayout] :
     LET row == Mapping[xlayout][k]
     IN  /\ row.code = c
         /\ row.set \subseteq Modifiers(s)
         /\ row.clear \cap Modifiers(s) = {}
         /\ OnKeypad(xlayout, c) => row.numlock = GivesDigits(s)}

-----------------------------------------------------------------------------
(* WebXKeyboard *)

KeyboardInit ==
  /\ layout \in Layout /\ xlayout = layout
  /\ locksSet = FALSE
  /\ x = [down |-> {}, numlock |-> FALSE, unlocks |-> FALSE]
  /\ held = {}
  /\ upsets = 0
  /\ stuck = {}
  /\ switched = FALSE
  /\ muddled = FALSE
  /\ unreturned = FALSE

\* A keysym that is not in the table is left aside, and so is Caps Lock.
Known(k) == k \in DOMAIN Mapping[layout] /\ k # "Caps_Lock"

Tap(s) == XRelease(XPress(s, NumLockCode), NumLockCode)

UpdateModifiers_LeftShift(s, row) ==
  LET t == IF "Shift" \in row.set THEN XPress(s, Code("Shift_L"))
           ELSE IF "Shift" \in row.clear THEN XRelease(s, Code("Shift_L")) ELSE s
  IN IF "AltGr" \in row.set THEN XPress(t, Code("ISO_Level3_Shift"))
     ELSE IF "AltGr" \in row.clear THEN XRelease(t, Code("ISO_Level3_Shift")) ELSE t

UpdateModifiers(s, row) ==
  LET t == IF "Shift" \in row.set THEN XPress(s, Code("Shift_L"))
           ELSE IF "Shift" \in row.clear
                THEN XRelease(XRelease(s, Code("Shift_L")), Code("Shift_R"))
                ELSE s
  IN IF "AltGr" \in row.set THEN XPress(t, Code("ISO_Level3_Shift"))
     ELSE IF "AltGr" \in row.clear
          THEN XRelease(XRelease(XRelease(t, Code("ISO_Level3_Shift")), Code("Alt_L")),
                        Code("Alt_R"))
          ELSE t

ReleaseModifiers_Shift(s, row) ==
  IF "Shift" \in row.set THEN XRelease(s, Code("Shift_L")) ELSE s

ReleaseModifiers(s, row) ==
  LET t == IF "Shift" \in row.set THEN XRelease(s, Code("Shift_L")) ELSE s
  IN IF "AltGr" \in row.set THEN XRelease(t, Code("ISO_Level3_Shift")) ELSE t

\* updateLocks and releaseLocks
NeedsLock(row) == row.numlock /\ ~locksSet
GivesLockBack_Unset(row) == row.numlock
GivesLockBack(row) == row.numlock /\ locksSet

NumLockHeld == NumLockCode \in x.down

SwitchedBy(k) == IF k = "Num_Lock" THEN switched # (x.numlock # x'.numlock) ELSE switched

PressKey(c, k) ==
  LET row == Mapping[layout][k]
      ready == UpdateModifiers(x, row)
      locked == IF NeedsLock(row) THEN Tap(ready) ELSE ready
  IN /\ Known(k)
     /\ x' = XPress(locked, row.code)
     /\ locksSet' = (locksSet \/ row.numlock)
     /\ muddled' = (muddled \/ (NeedsLock(row) /\ NumLockHeld))
     /\ switched' = (~muddled' /\ SwitchedBy(k))
     /\ held' = held \cup {[client |-> c, key |-> k, layout |-> layout]}
     /\ stuck' = stuck \cap x'.down
     /\ UNCHANGED <<layout, xlayout, upsets, unreturned>>

CodesOf(h) ==
  LET row == Mapping[h.layout][h.key]
  IN {row.code} \cup (IF "Shift" \in row.set THEN {Code("Shift_L")} ELSE {})
                \cup (IF "AltGr" \in row.set THEN {Code("ISO_Level3_Shift")} ELSE {})

\* The keys that c holds as k, and those of them that were pressed in another layout.
Holds(c, k) == {h \in held : h.client = c /\ h.key = k}
Foreign(S) == {h \in S : h.layout # layout}
NeedsNumLock(h) == Mapping[h.layout][h.key].numlock
SomeNeeds(S) == \E h \in S : NeedsNumLock(h)

ReleaseKey(c, k) ==
  LET row == Mapping[layout][k]
      freed == ReleaseModifiers(XRelease(x, row.code), row)
  IN /\ Known(k)
     /\ x' = IF GivesLockBack(row) THEN Tap(freed) ELSE freed
     /\ locksSet' = (locksSet /\ ~row.numlock)
     /\ muddled' = (muddled \/ (GivesLockBack(row) /\ NumLockHeld))
     /\ switched' = (~muddled' /\ SwitchedBy(k))
     /\ held' = held \ Holds(c, k)
     /\ stuck' = (stuck \cup UNION {CodesOf(h) : h \in Foreign(Holds(c, k))}) \cap x'.down
     /\ unreturned' = (~row.numlock /\ (unreturned \/ SomeNeeds(Holds(c, k))))
     /\ UNCHANGED <<layout, xlayout, upsets>>

\* A keysym that the present table does not hold: nothing is sent.
ReleaseUnknown(c, k) ==
  /\ ~Known(k)
  /\ held' = held \ Holds(c, k)
  /\ stuck' = (stuck \cup UNION {CodesOf(h) : h \in Holds(c, k)}) \cap x.down
  /\ unreturned' = (unreturned \/ SomeNeeds(Holds(c, k)))
  /\ UNCHANGED <<layout, locksSet, xlayout, x, upsets, switched, muddled>>

\* The table is taken at once; the X server may fail to load the layout.
LoadKeyboardLayout(l, loaded) ==
  /\ upsets < MaxUpsets
  /\ upsets' = upsets + 1
  /\ layout' = l
  /\ xlayout' = IF loaded THEN l ELSE xlayout
  /\ UNCHANGED <<locksSet, x, held, stuck, switched, muddled, unreturned>>

\* A client goes: nobody releases its keys.
Vanish(c) ==
  LET its == {h \in held : h.client = c}
  IN /\ its # {} /\ upsets < MaxUpsets
     /\ upsets' = upsets + 1
     /\ held' = held \ its
     /\ stuck' = (stuck \cup UNION {CodesOf(h) : h \in its}) \cap x.down
     /\ unreturned' = (unreturned \/ SomeNeeds(its))
     /\ UNCHANGED <<layout, locksSet, xlayout, x, switched, muddled>>

\* Clients release the keys that they hold.
HandleKeySym(c, k) ==
  \/ Cardinality(held) < MaxHeld /\ PressKey(c, k)
  \/ Holds(c, k) # {} /\ (ReleaseKey(c, k) \/ ReleaseUnknown(c, k))

KeyboardNext ==
  \/ \E c \in Client, k \in Sent : HandleKeySym(c, k)
  \/ \E l \in Layout, loaded \in BOOLEAN : LoadKeyboardLayout(l, loaded)
  \/ \E c \in Client : Vanish(c)

KeyboardSpec == KeyboardInit /\ [][KeyboardNext]_keyboardVars

-----------------------------------------------------------------------------
(* Properties *)

\* Every variable stays in its range.
KeyboardTypeOK ==
  /\ layout \in Layout /\ xlayout \in Layout
  /\ locksSet \in BOOLEAN
  /\ x \in [down : SUBSET Nat, numlock : BOOLEAN, unlocks : BOOLEAN]
  /\ held \subseteq [client : Client, key : Keysym, layout : Layout]
  /\ \A h \in held : h.key \in DOMAIN Mapping[h.layout]
  /\ upsets \in 0..MaxUpsets
  /\ stuck \subseteq x.down
  /\ switched \in BOOLEAN /\ muddled \in BOOLEAN /\ unreturned \in BOOLEAN

\* No key is down that nobody holds: neither one that was pressed by a client nor a
\* modifier that the engine pressed for it.  The exceptions are the keys of a client
\* that has gone, and those that were released in another layout than pressed.
NothingStuck == x.down \subseteq stuck \cup UNION {CodesOf(h) : h \in held}

\* Num Lock is as the clients have switched it, when no key is held that needs it;
\* however many such keys were held together, by whichever clients.  A client that went
\* with such a key leaves Num Lock as it is, until another such key is released.
NumLockRestored ==
  ~muddled /\ ~unreturned /\ ~SomeNeeds(held) => x.numlock = switched

\* The X server makes of a key the keysym that the client asked for, whatever keys the
\* clients hold: unless the key was down already, the X server did not load the layout,
\* the key needs Num Lock and a client has switched that or holds Shift with a key that
\* the table does not clear it for, or it shares its keycode with such a key (End and
\* KP_1) while the keypad gives digits.
TypedIsAsked ==
  [][\A c \in Client, k \in Sent :
       LET row == Mapping[layout][k]
       IN  /\ Known(k) /\ row.code \in x'.down \ x.down
           /\ PressKey(c, k)
           /\ xlayout = layout
           /\ row.numlock => ~switched /\ ~muddled /\ "Shift" \in row.clear
           /\ ~row.numlock /\ OnKeypad(layout, row.code) => ~GivesDigits(x')
           => k \in XMakes(x', row.code)]_keyboardVars
=============================================================================
