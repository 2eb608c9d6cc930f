--------------------------- MODULE KeyboardProofs ---------------------------
(***************************************************************************)
(* Proofs about Keyboard, for any tables, clients and bounds.              *)
(*                                                                         *)
(* What a press adds to the keys that are down are the codes of the key    *)
(* that is held from then on; what a release leaves down it held in        *)
(* another layout, or another key that is held needs it.  The modifiers    *)
(* have the same codes in all layouts, so that a change of the layout does *)
(* not change what a held key needs.                                       *)
(*                                                                         *)
(* Num Lock differs from what the clients have switched as long as the     *)
(* engine has it switched, and the engine has it switched only for a key   *)
(* that is held and needs it, or was let go without its release.  So a key *)
(* that needs Num Lock finds it on, and every key finds the modifiers that *)
(* its row asks for.                                                       *)
(***************************************************************************)
EXTENDS Keyboard, TLAPS

XState == [down : SUBSET Nat, numlock : BOOLEAN, unlocks : BOOLEAN]

\* Num Lock is what the clients have made of it, switched over while the engine has it
\* switched; its key is down only while it is on; and the engine has it switched for a key
\* that is held.
NumLockInv ==
  /\ ~muddled => (x.numlock <=> ~(switched <=> locksSet))
  /\ ~muddled /\ NumLockHeld => x.numlock
  /\ locksSet => unreturned \/ SomeNeeds(held)

KeyboardInv == KeyboardTypeOK /\ NothingStuck /\ NumLockInv

\* The modifiers that are pressed for a row.
ModifierCodes(row) ==
  (IF "Shift" \in row.set THEN {Code("Shift_L")} ELSE {})
    \cup (IF "AltGr" \in row.set THEN {Code("ISO_Level3_Shift")} ELSE {})

-----------------------------------------------------------------------------
(* The X server *)

LEMMA XPressDown ==
  ASSUME NEW s \in XState, NEW c \in Nat
  PROVE  XPress(s, c) \in XState /\ XPress(s, c).down = s.down \cup {c}
<1>1. CASE c \in s.down
  BY <1>1 DEF XPress
<1>2. CASE c \notin s.down
  <2>1. s.numlock \in BOOLEAN /\ s.unlocks \in BOOLEAN /\ s.down \cup {c} \in SUBSET Nat
    BY DEF XState
  <2>2. (s.numlock \/ c = NumLockCode) \in BOOLEAN
    OBVIOUS
  <2>3. (IF c = NumLockCode THEN s.numlock ELSE s.unlocks) \in BOOLEAN
    BY <2>1
  <2> QED BY <1>2, <2>1, <2>2, <2>3 DEF XPress, XState
<1> QED BY <1>1, <1>2

LEMMA XReleaseDown ==
  ASSUME NEW s \in XState, NEW c
  PROVE  XRelease(s, c) \in XState /\ XRelease(s, c).down = s.down \ {c}
<1>1. CASE c \notin s.down
  BY <1>1 DEF XRelease
<1>2. CASE c \in s.down
  <2>1. /\ s.numlock \in BOOLEAN /\ s.unlocks \in BOOLEAN /\ s.down \ {c} \in SUBSET Nat
        /\ (s.numlock /\ ~(c = NumLockCode /\ s.unlocks)) \in BOOLEAN
    BY DEF XState
  <2> QED BY <1>2, <2>1 DEF XRelease, XState
<1> QED BY <1>1, <1>2

LEMMA XPressNumLock ==
  ASSUME NEW s \in XState, NEW c \in Nat
  PROVE  XPress(s, c).numlock <=> s.numlock \/ (c = NumLockCode /\ c \notin s.down)
<1>1. CASE c \in s.down
  BY <1>1 DEF XPress
<1>2. CASE c \notin s.down
  BY <1>2 DEF XPress
<1> QED BY <1>1, <1>2

LEMMA XReleaseNumLock ==
  ASSUME NEW s \in XState, NEW c, c # NumLockCode
  PROVE  XRelease(s, c).numlock <=> s.numlock
<1>1. CASE c \notin s.down
  BY <1>1 DEF XRelease
<1>2. CASE c \in s.down
  BY <1>2 DEF XRelease, XState
<1> QED BY <1>1, <1>2

-----------------------------------------------------------------------------
(* The table *)

LEMMA CodesAreNumbers ==
  ASSUME layout \in Layout
  PROVE  /\ Code("Shift_L") \in Nat
         /\ Code("ISO_Level3_Shift") \in Nat
         /\ NumLockCode \in Nat
         /\ \A k \in DOMAIN Mapping[layout] : Mapping[layout][k] \in Rows
BY KeyboardAssumption DEF Code, NumLockCode, ModifierKeysym, Rows

LEMMA CodesDiffer ==
  ASSUME layout \in Layout
  PROVE  /\ Code("Shift_L") \in Nat /\ Code("Shift_R") \in Nat /\ NumLockCode \in Nat
         /\ Code("ISO_Level3_Shift") \in Nat /\ Code("Alt_L") \in Nat /\ Code("Alt_R") \in Nat
         /\ \A k, n \in ModifierKeysym :
               Code(k) = Code(n) => k = n \/ {k, n} = {"Alt_L", "Alt_R"}
         /\ \A k \in ModifierKeysym, n \in DOMAIN Mapping[layout] \ ModifierKeysym :
               Code(n) # Code(k)
         /\ \A k \in ModifierKeysym :
               /\ k \in DOMAIN Mapping[layout]
               /\ Mapping[layout][k].set = {} /\ Mapping[layout][k].clear = {}
               /\ ~Mapping[layout][k].numlock
<1>1. \A k \in ModifierKeysym : k \in DOMAIN Mapping[layout] /\ Code(k) \in Nat
  BY KeyboardAssumption DEF Code, Rows
<1>2. \A k \in ModifierKeysym, n \in DOMAIN Mapping[layout] \ ModifierKeysym : Code(n) # Code(k)
  BY KeyboardAssumption DEF Code
<1>3. \A k, n \in ModifierKeysym : Code(k) = Code(n) => k = n \/ {k, n} = {"Alt_L", "Alt_R"}
  BY KeyboardAssumption DEF Code
<1>4. \A k \in ModifierKeysym : /\ Mapping[layout][k].set = {} /\ Mapping[layout][k].clear = {}
                                /\ ~Mapping[layout][k].numlock
  BY KeyboardAssumption
<1> QED BY <1>1, <1>2, <1>3, <1>4 DEF ModifierKeysym, NumLockCode

\* What a held key needs does not depend on the layout of the moment.
LEMMA CodesStay ==
  ASSUME layout \in Layout, layout' \in Layout
  PROVE  \A h : CodesOf(h)' = CodesOf(h)
<1>1. /\ Mapping[layout']["Shift_L"] = Mapping[layout]["Shift_L"]
      /\ Mapping[layout']["ISO_Level3_Shift"] = Mapping[layout]["ISO_Level3_Shift"]
  BY KeyboardAssumption DEF ModifierKeysym
<1> QED BY <1>1 DEF CodesOf, Code

LEMMA TapDown ==
  ASSUME layout \in Layout, NEW s \in XState
  PROVE  Tap(s) \in XState /\ Tap(s).down \subseteq s.down
<1>1. NumLockCode \in Nat
  BY CodesAreNumbers
<1>2. XPress(s, NumLockCode) \in XState /\ XPress(s, NumLockCode).down = s.down \cup {NumLockCode}
  BY <1>1, XPressDown
<1>3. /\ Tap(s) \in XState
      /\ Tap(s).down = XPress(s, NumLockCode).down \ {NumLockCode}
  BY <1>2, XReleaseDown DEF Tap
<1> QED BY <1>2, <1>3

\* A tap switches Num Lock, unless its key is down already.
LEMMA TapSwitches ==
  ASSUME layout \in Layout, NEW s \in XState
  PROVE  /\ Tap(s).down = s.down \ {NumLockCode}
         /\ NumLockCode \notin s.down => (Tap(s).numlock <=> ~s.numlock)
<1> DEFINE t == XPress(s, NumLockCode)
<1>1. NumLockCode \in Nat
  BY CodesAreNumbers
<1>2. t \in XState /\ t.down = s.down \cup {NumLockCode}
  BY <1>1, XPressDown
<1>3. Tap(s) = XRelease(t, NumLockCode)
  BY DEF Tap
<1>4. ASSUME NumLockCode \notin s.down
      PROVE  Tap(s).numlock <=> ~s.numlock
  <2>1. t = [down |-> s.down \cup {NumLockCode}, numlock |-> TRUE, unlocks |-> s.numlock]
    BY <1>4 DEF XPress, XState
  <2>2. Tap(s) = [t EXCEPT !.down = @ \ {NumLockCode}, !.numlock = @ /\ ~t.unlocks]
    BY <1>2, <1>3 DEF XRelease
  <2> HIDE DEF t
  <2>3. t.numlock = TRUE /\ (t.unlocks <=> s.numlock)
    BY <2>1
  <2>4. Tap(s).numlock <=> (t.numlock /\ ~t.unlocks)
    BY <2>1, <2>2
  <2> QED BY <2>3, <2>4
<1>5. Tap(s).down = s.down \ {NumLockCode}
  <2> HIDE DEF t
  <2> QED BY <1>2, <1>3, XReleaseDown
<1> QED BY <1>4, <1>5

LEMMA UpdateModifiersDown ==
  ASSUME layout \in Layout, NEW s \in XState, NEW row \in Rows
  PROVE  /\ UpdateModifiers(s, row) \in XState
         /\ UpdateModifiers(s, row).down \subseteq s.down \cup ModifierCodes(row)
<1> DEFINE t == IF "Shift" \in row.set THEN XPress(s, Code("Shift_L"))
                ELSE IF "Shift" \in row.clear
                     THEN XRelease(XRelease(s, Code("Shift_L")), Code("Shift_R"))
                     ELSE s
           u == IF "AltGr" \in row.set THEN XPress(t, Code("ISO_Level3_Shift"))
                ELSE IF "AltGr" \in row.clear
                     THEN XRelease(XRelease(XRelease(t, Code("ISO_Level3_Shift")), Code("Alt_L")),
                                   Code("Alt_R"))
                     ELSE t
<1>1. UpdateModifiers(s, row) = u
  BY DEF UpdateModifiers
<1>2. /\ t \in XState
      /\ t.down \subseteq s.down \cup (IF "Shift" \in row.set THEN {Code("Shift_L")} ELSE {})
  <2>1. XPress(s, Code("Shift_L")) \in XState
        /\ XPress(s, Code("Shift_L")).down = s.down \cup {Code("Shift_L")}
    BY CodesAreNumbers, XPressDown
  <2>2. /\ XRelease(s, Code("Shift_L")) \in XState
        /\ XRelease(s, Code("Shift_L")).down \subseteq s.down
    BY XReleaseDown
  <2>3. /\ XRelease(XRelease(s, Code("Shift_L")), Code("Shift_R")) \in XState
        /\ XRelease(XRelease(s, Code("Shift_L")), Code("Shift_R")).down \subseteq s.down
    BY <2>2, XReleaseDown
  <2> QED BY <2>1, <2>3
<1> HIDE DEF t
<1>3. /\ u \in XState
      /\ u.down \subseteq t.down \cup (IF "AltGr" \in row.set THEN {Code("ISO_Level3_Shift")} ELSE {})
  <2> DEFINE v == XRelease(t, Code("ISO_Level3_Shift"))
             w == XRelease(v, Code("Alt_L"))
  <2>1. /\ XPress(t, Code("ISO_Level3_Shift")) \in XState
        /\ XPress(t, Code("ISO_Level3_Shift")).down = t.down \cup {Code("ISO_Level3_Shift")}
    BY <1>2, CodesAreNumbers, XPressDown
  <2>2. v \in XState /\ v.down \subseteq t.down
    BY <1>2, XReleaseDown
  <2> HIDE DEF v
  <2>3. w \in XState /\ w.down \subseteq t.down
    BY <2>2, XReleaseDown
  <2> HIDE DEF w
  <2>4. XRelease(w, Code("Alt_R")) \in XState /\ XRelease(w, Code("Alt_R")).down \subseteq t.down
    BY <2>3, XReleaseDown
  <2> QED BY <1>2, <2>1, <2>4 DEF v, w
<1> QED BY <1>1, <1>2, <1>3 DEF ModifierCodes

\* Setting the modifiers leaves Num Lock alone, and they are as the row wants them.
LEMMA UpdateModifiersGives ==
  ASSUME layout \in Layout, NEW s \in XState, NEW row \in Rows
  PROVE  LET u == UpdateModifiers(s, row) IN
         /\ u.numlock <=> s.numlock
         /\ NumLockCode \in u.down <=> NumLockCode \in s.down
         /\ "Shift" \in row.set => Code("Shift_L") \in u.down
         /\ "Shift" \in row.clear \ row.set =>
              Code("Shift_L") \notin u.down /\ Code("Shift_R") \notin u.down
         /\ "AltGr" \in row.set => Code("ISO_Level3_Shift") \in u.down
         /\ "AltGr" \in row.clear \ row.set => Code("ISO_Level3_Shift") \notin u.down
<1> DEFINE L == Code("Shift_L")
           R == Code("Shift_R")
           G == Code("ISO_Level3_Shift")
           A == Code("Alt_L")
           B == Code("Alt_R")
           N == NumLockCode
           s1 == XRelease(s, L)
           s2 == XRelease(s1, R)
           t == IF "Shift" \in row.set THEN XPress(s, L)
                ELSE IF "Shift" \in row.clear THEN s2 ELSE s
           t1 == XRelease(t, G)
           t2 == XRelease(t1, A)
           t3 == XRelease(t2, B)
           u == IF "AltGr" \in row.set THEN XPress(t, G)
                ELSE IF "AltGr" \in row.clear THEN t3 ELSE t
<1>1. UpdateModifiers(s, row) = u
  BY DEF UpdateModifiers
<1>2. /\ L \in Nat /\ R \in Nat /\ G \in Nat /\ A \in Nat /\ B \in Nat /\ N \in Nat
      /\ L # N /\ R # N /\ G # N /\ A # N /\ B # N
      /\ L # G /\ R # G /\ L # A /\ L # B
  BY CodesDiffer DEF ModifierKeysym, NumLockCode
<1> HIDE DEF L, R, G, A, B, N
<1>3. \A r \in XState, c \in Nat :
         c # N => /\ XPress(r, c) \in XState /\ XRelease(r, c) \in XState
                  /\ XPress(r, c).down = r.down \cup {c}
                  /\ XRelease(r, c).down = r.down \ {c}
                  /\ XPress(r, c).numlock <=> r.numlock
                  /\ XRelease(r, c).numlock <=> r.numlock
  BY XPressDown, XReleaseDown, XPressNumLock, XReleaseNumLock DEF N
<1>4. /\ t \in XState /\ (t.numlock <=> s.numlock) /\ (N \in t.down <=> N \in s.down)
      /\ "Shift" \in row.set => L \in t.down
      /\ "Shift" \in row.clear \ row.set => L \notin t.down /\ R \notin t.down
  <2>1. s1 \in XState /\ s1.down = s.down \ {L} /\ (s1.numlock <=> s.numlock)
    BY <1>2, <1>3
  <2> HIDE DEF s1
  <2>2. s2 \in XState /\ s2.down = (s.down \ {L}) \ {R} /\ (s2.numlock <=> s.numlock)
    <3>1. s2 \in XState /\ s2.down = s1.down \ {R} /\ (s2.numlock <=> s1.numlock)
      BY <1>2, <1>3, <2>1
    <3> HIDE DEF s2
    <3> QED BY <2>1, <3>1
  <2> HIDE DEF s2
  <2>3. XPress(s, L) \in XState /\ XPress(s, L).down = s.down \cup {L}
        /\ (XPress(s, L).numlock <=> s.numlock)
    BY <1>2, <1>3
  <2>4. CASE "Shift" \in row.set
    BY <1>2, <2>3, <2>4
  <2>5. CASE "Shift" \in row.clear \ row.set
    BY <1>2, <2>2, <2>5
  <2>6. CASE "Shift" \notin row.set \cup row.clear
    BY <2>6
  <2> QED BY <2>4, <2>5, <2>6
<1> HIDE DEF t
<1>5. /\ u.numlock <=> t.numlock
      /\ u.down \ {G, A, B} = t.down \ {G, A, B}
      /\ "AltGr" \in row.set => G \in u.down /\ u.down = t.down \cup {G}
      /\ "AltGr" \in row.clear \ row.set => G \notin u.down /\ u.down = t.down \ {G, A, B}
      /\ "AltGr" \notin row.set \cup row.clear => u.down = t.down
  <2>1. t1 \in XState /\ t1.down = t.down \ {G} /\ (t1.numlock <=> t.numlock)
    BY <1>2, <1>3, <1>4
  <2> HIDE DEF t1
  <2>2. t2 \in XState /\ t2.down = (t.down \ {G}) \ {A} /\ (t2.numlock <=> t.numlock)
    <3>1. t2 \in XState /\ t2.down = t1.down \ {A} /\ (t2.numlock <=> t1.numlock)
      BY <1>2, <1>3, <2>1
    <3> HIDE DEF t2
    <3> QED BY <2>1, <3>1
  <2> HIDE DEF t2
  <2>3. t3.down = ((t.down \ {G}) \ {A}) \ {B} /\ (t3.numlock <=> t.numlock)
    <3>1. t3.down = t2.down \ {B} /\ (t3.numlock <=> t2.numlock)
      BY <1>2, <1>3, <2>2
    <3> HIDE DEF t3
    <3> QED BY <2>2, <3>1
  <2> HIDE DEF t3
  <2>4. XPress(t, G).down = t.down \cup {G} /\ (XPress(t, G).numlock <=> t.numlock)
    BY <1>2, <1>3, <1>4
  <2>5. CASE "AltGr" \in row.set
    BY <2>4, <2>5
  <2>6. CASE "AltGr" \in row.clear \ row.set
    BY <2>3, <2>6
  <2>7. CASE "AltGr" \notin row.set \cup row.clear
    BY <2>7
  <2> QED BY <2>5, <2>6, <2>7
<1> HIDE DEF u
<1>6. /\ N \in u.down <=> N \in t.down
      /\ "Shift" \in row.set => L \in u.down
      /\ "Shift" \in row.clear \ row.set => L \notin u.down /\ R \notin u.down
  BY <1>2, <1>4, <1>5
<1> QED BY <1>1, <1>4, <1>5, <1>6 DEF L, R, G, N

LEMMA ReleaseModifiersDown ==
  ASSUME layout \in Layout, NEW s \in XState, NEW row \in Rows
  PROVE  /\ ReleaseModifiers(s, row) \in XState
         /\ ReleaseModifiers(s, row).down = s.down \ ModifierCodes(row)
<1> DEFINE t == IF "Shift" \in row.set THEN XRelease(s, Code("Shift_L")) ELSE s
<1>1. /\ t \in XState
      /\ t.down = s.down \ (IF "Shift" \in row.set THEN {Code("Shift_L")} ELSE {})
  BY XReleaseDown
<1>2. ReleaseModifiers(s, row)
        = IF "AltGr" \in row.set THEN XRelease(t, Code("ISO_Level3_Shift")) ELSE t
  BY DEF ReleaseModifiers
<1> HIDE DEF t
<1>3. /\ XRelease(t, Code("ISO_Level3_Shift")) \in XState
      /\ XRelease(t, Code("ISO_Level3_Shift")).down = t.down \ {Code("ISO_Level3_Shift")}
  BY <1>1, XReleaseDown
<1> QED BY <1>1, <1>2, <1>3 DEF ModifierCodes

LEMMA ReleaseModifiersGives ==
  ASSUME layout \in Layout, NEW s \in XState, NEW row \in Rows
  PROVE  LET u == ReleaseModifiers(s, row) IN
         /\ u \in XState
         /\ u.numlock <=> s.numlock
         /\ NumLockCode \in u.down <=> NumLockCode \in s.down
<1> DEFINE L == Code("Shift_L")
           G == Code("ISO_Level3_Shift")
           t == IF "Shift" \in row.set THEN XRelease(s, L) ELSE s
           u == IF "AltGr" \in row.set THEN XRelease(t, G) ELSE t
<1>1. ReleaseModifiers(s, row) = u
  BY DEF ReleaseModifiers
<1>2. L # NumLockCode /\ G # NumLockCode
  BY CodesDiffer DEF ModifierKeysym, NumLockCode
<1> HIDE DEF L, G
<1>3. t \in XState /\ (t.numlock <=> s.numlock) /\ (NumLockCode \in t.down <=> NumLockCode \in s.down)
  BY <1>2, XReleaseDown, XReleaseNumLock
<1> HIDE DEF t
<1>4. u \in XState /\ (u.numlock <=> t.numlock) /\ (NumLockCode \in u.down <=> NumLockCode \in t.down)
  BY <1>2, <1>3, XReleaseDown, XReleaseNumLock
<1> HIDE DEF u
<1> QED BY <1>1, <1>3, <1>4

-----------------------------------------------------------------------------
(* The steps *)

LEMMA KeyboardInit_Inv == KeyboardInit => KeyboardInv
<1> SUFFICES ASSUME KeyboardInit PROVE KeyboardInv
  OBVIOUS
<1>1. x \in XState /\ x.down = {}
  BY DEF KeyboardInit, XState
<1>2. layout \in Layout /\ xlayout \in Layout /\ held = {} /\ stuck = {} /\ upsets = 0
      /\ locksSet = FALSE /\ switched = FALSE /\ muddled = FALSE /\ unreturned = FALSE
  BY DEF KeyboardInit
<1>3. KeyboardTypeOK
  <2>1. 0 \in 0..MaxUpsets
    BY KeyboardAssumption
  <2>2. /\ held \subseteq [client : Client, key : Keysym, layout : Layout]
        /\ \A h \in held : h.key \in DOMAIN Mapping[h.layout]
    BY <1>2
  <2>3. x \in [down : SUBSET Nat, numlock : BOOLEAN, unlocks : BOOLEAN] /\ stuck \subseteq x.down
    BY <1>1, <1>2 DEF XState
  <2>4. locksSet \in BOOLEAN /\ switched \in BOOLEAN /\ muddled \in BOOLEAN
        /\ unreturned \in BOOLEAN
    BY <1>2
  <2> QED BY <1>2, <2>1, <2>2, <2>3, <2>4 DEF KeyboardTypeOK
<1>4. NothingStuck
  BY <1>1 DEF NothingStuck
<1>5. NumLockInv
  BY <1>1, <1>2 DEF KeyboardInit, NumLockInv, NumLockHeld
<1> QED BY <1>3, <1>4, <1>5 DEF KeyboardInv

LEMMA SwitchedIs ==
  ASSUME x \in XState, x' \in XState, switched \in BOOLEAN, NEW k
  PROVE  /\ SwitchedBy(k) \in BOOLEAN
         /\ k # "Num_Lock" => (SwitchedBy(k) <=> switched)
         /\ k = "Num_Lock" => (SwitchedBy(k) <=> ~(switched <=> ~(x.numlock <=> x'.numlock)))
<1>1. x.numlock \in BOOLEAN /\ x'.numlock \in BOOLEAN
  BY DEF XState
<1> QED BY <1>1 DEF SwitchedBy

\* Only the key of Num Lock itself has its keycode.
LEMMA OnlyNumLock ==
  ASSUME layout \in Layout, NEW k \in DOMAIN Mapping[layout]
  PROVE  /\ Code(k) = NumLockCode <=> k = "Num_Lock"
         /\ k = "Num_Lock" => ~Mapping[layout][k].numlock
<1>1. CASE k \in ModifierKeysym
  BY <1>1, CodesDiffer DEF ModifierKeysym, NumLockCode
<1>2. CASE k \notin ModifierKeysym
  BY <1>2, CodesDiffer DEF ModifierKeysym, NumLockCode
<1> QED BY <1>1, <1>2

\* A press leaves Num Lock as the clients have switched it or, if the key needs it, switched
\* over.
LEMMA PressNumLock ==
  ASSUME KeyboardInv, NEW c, NEW k, PressKey(c, k)
  PROVE  NumLockInv'
<1> DEFINE row == Mapping[layout][k]
           N == NumLockCode
           ready == UpdateModifiers(x, row)
           locked == IF NeedsLock(row) THEN Tap(ready) ELSE ready
           new == [client |-> c, key |-> k, layout |-> layout]
<1>1. /\ layout \in Layout /\ x \in XState /\ switched \in BOOLEAN
      /\ k \in DOMAIN Mapping[layout] /\ row \in Rows /\ row.code \in Nat /\ row.code = Code(k)
      /\ N \in Nat
  BY CodesAreNumbers DEF KeyboardInv, KeyboardTypeOK, XState, PressKey, Known, Rows, Code
<1>2. /\ ready \in XState /\ (ready.numlock <=> x.numlock) /\ (N \in ready.down <=> N \in x.down)
  BY <1>1, UpdateModifiersDown, UpdateModifiersGives
<1>3. x' = XPress(locked, row.code)
  BY DEF PressKey
<1> HIDE DEF ready
<1>4. /\ locked \in XState
      /\ NeedsLock(row) /\ N \notin x.down => N \notin locked.down /\ (locked.numlock <=> ~x.numlock)
      /\ ~NeedsLock(row) => (locked.numlock <=> x.numlock) /\ (N \in locked.down <=> N \in x.down)
  <2>1. Tap(ready) \in XState /\ Tap(ready).down = ready.down \ {N}
        /\ (N \notin ready.down => (Tap(ready).numlock <=> ~ready.numlock))
    BY <1>1, <1>2, TapDown, TapSwitches
  <2>2. CASE NeedsLock(row)
    BY <2>1, <2>2, <1>2
  <2>3. CASE ~NeedsLock(row)
    BY <2>3, <1>2
  <2> QED BY <2>2, <2>3
<1> HIDE DEF locked
<1>5. /\ x' \in XState /\ x'.down = locked.down \cup {row.code}
      /\ x'.numlock <=> locked.numlock \/ (row.code = N /\ N \notin locked.down)
  BY <1>1, <1>3, <1>4, XPressDown, XPressNumLock
<1>6. /\ row.code = N <=> k = "Num_Lock"
      /\ k = "Num_Lock" => ~row.numlock
  BY <1>1, OnlyNumLock
<1>7. /\ locksSet' <=> locksSet \/ row.numlock
      /\ muddled' <=> muddled \/ (NeedsLock(row) /\ N \in x.down)
      /\ ~muddled' => (switched' <=> SwitchedBy(k))
      /\ unreturned' = unreturned /\ held' = held \cup {new}
      /\ NumLockCode' = N
  BY DEF PressKey, NumLockHeld, NumLockCode, Code
<1>8. /\ ~muddled => (x.numlock <=> ~(switched <=> locksSet))
      /\ ~muddled /\ N \in x.down => x.numlock
      /\ locksSet => unreturned \/ SomeNeeds(held)
  BY DEF KeyboardInv, NumLockInv, NumLockHeld
<1>9. NeedsLock(row) <=> row.numlock /\ ~locksSet
  BY DEF NeedsLock
<1>10. ~muddled' => (x'.numlock <=> ~(switched' <=> locksSet'))
  <2>1. CASE k = "Num_Lock"
    <3>1. SwitchedBy(k) <=> ~(switched <=> ~(x.numlock <=> x'.numlock))
      BY <1>1, <1>5, <2>1, SwitchedIs
    <3> QED BY <1>6, <1>7, <1>8, <2>1, <3>1
  <2>2. CASE k # "Num_Lock"
    <3>1. SwitchedBy(k) <=> switched
      BY <1>1, <1>5, <2>2, SwitchedIs
    <3>2. x'.numlock <=> locked.numlock
      BY <1>5, <1>6, <2>2
    <3>3. CASE NeedsLock(row)
      BY <1>4, <1>7, <1>8, <1>9, <3>1, <3>2, <3>3
    <3>4. CASE ~NeedsLock(row)
      BY <1>4, <1>7, <1>8, <1>9, <3>1, <3>2, <3>4
    <3> QED BY <3>3, <3>4
  <2> QED BY <2>1, <2>2
<1>11. ~muddled' /\ N \in x'.down => x'.numlock
  <2>1. CASE k = "Num_Lock"
    <3>1. N \notin locked.down \/ locked.numlock \/ muddled'
      BY <1>4, <1>6, <1>7, <1>8, <1>9, <2>1
    <3> QED BY <1>5, <1>6, <2>1, <3>1
  <2>2. CASE k # "Num_Lock"
    <3>1. N \in x'.down <=> N \in locked.down
      BY <1>5, <1>6, <2>2
    <3> QED BY <1>4, <1>5, <1>7, <1>8, <3>1
  <2> QED BY <2>1, <2>2
<1>12. locksSet' => unreturned' \/ SomeNeeds(held')
  <2>1. row.numlock => NeedsNumLock(new)
    BY DEF NeedsNumLock
  <2> HIDE DEF new
  <2> QED BY <1>7, <1>8, <2>1 DEF SomeNeeds
<1> QED BY <1>7, <1>10, <1>11, <1>12 DEF NumLockInv, NumLockHeld, SomeNeeds, NeedsNumLock

\* A release switches Num Lock back, if the engine had switched it and the key needs it.
LEMMA ReleaseNumLock ==
  ASSUME KeyboardInv, NEW c, NEW k, ReleaseKey(c, k)
  PROVE  NumLockInv'
<1> DEFINE row == Mapping[layout][k]
           N == NumLockCode
           up == XRelease(x, row.code)
           freed == ReleaseModifiers(up, row)
<1>1. /\ layout \in Layout /\ x \in XState /\ switched \in BOOLEAN
      /\ k \in DOMAIN Mapping[layout] /\ row \in Rows /\ row.code = Code(k)
  BY CodesAreNumbers DEF KeyboardInv, KeyboardTypeOK, XState, ReleaseKey, Known, Code
<1>2. up \in XState /\ up.down = x.down \ {row.code}
      /\ (row.code # N => (up.numlock <=> x.numlock))
  BY <1>1, XReleaseDown, XReleaseNumLock
<1>3. x' = IF GivesLockBack(row) THEN Tap(freed) ELSE freed
  BY DEF ReleaseKey
<1> HIDE DEF up
<1>4. /\ freed \in XState /\ (freed.numlock <=> up.numlock) /\ (N \in freed.down <=> N \in up.down)
  BY <1>1, <1>2, ReleaseModifiersGives
<1> HIDE DEF freed
<1>5. /\ x' \in XState
      /\ GivesLockBack(row) => N \notin x'.down
      /\ GivesLockBack(row) /\ N \notin freed.down => (x'.numlock <=> ~freed.numlock)
      /\ ~GivesLockBack(row) => x' = freed
  BY <1>1, <1>3, <1>4, TapDown, TapSwitches
<1>6. /\ row.code = N <=> k = "Num_Lock"
      /\ k = "Num_Lock" => ~row.numlock
  BY <1>1, OnlyNumLock
<1>7. /\ locksSet' <=> locksSet /\ ~row.numlock
      /\ muddled' <=> muddled \/ (GivesLockBack(row) /\ N \in x.down)
      /\ ~muddled' => (switched' <=> SwitchedBy(k))
      /\ unreturned' <=> ~row.numlock /\ (unreturned \/ SomeNeeds(Holds(c, k)))
      /\ held' = held \ Holds(c, k)
      /\ NumLockCode' = N
  BY DEF ReleaseKey, NumLockHeld, NumLockCode, Code
<1>8. /\ ~muddled => (x.numlock <=> ~(switched <=> locksSet))
      /\ ~muddled /\ N \in x.down => x.numlock
      /\ locksSet => unreturned \/ SomeNeeds(held)
  BY DEF KeyboardInv, NumLockInv, NumLockHeld
<1>9. GivesLockBack(row) <=> row.numlock /\ locksSet
  BY DEF GivesLockBack
<1>10. ~muddled' => (x'.numlock <=> ~(switched' <=> locksSet'))
  <2>1. CASE k = "Num_Lock"
    <3>1. SwitchedBy(k) <=> ~(switched <=> ~(x.numlock <=> x'.numlock))
      BY <1>1, <1>5, <2>1, SwitchedIs
    <3> QED BY <1>6, <1>7, <1>8, <2>1, <3>1
  <2>2. CASE k # "Num_Lock"
    <3>1. SwitchedBy(k) <=> switched
      BY <1>1, <1>5, <2>2, SwitchedIs
    <3>2. (freed.numlock <=> x.numlock) /\ (N \in freed.down <=> N \in x.down)
      BY <1>2, <1>4, <1>6, <2>2
    <3>3. CASE GivesLockBack(row)
      BY <1>5, <1>7, <1>8, <1>9, <3>1, <3>2, <3>3
    <3>4. CASE ~GivesLockBack(row)
      BY <1>5, <1>7, <1>8, <1>9, <3>1, <3>2, <3>4
    <3> QED BY <3>3, <3>4
  <2> QED BY <2>1, <2>2
<1>11. ~muddled' /\ N \in x'.down => x'.numlock
  <2>1. N \in x'.down => ~GivesLockBack(row) /\ x' = freed /\ N \in x.down /\ row.code # N
    BY <1>2, <1>4, <1>5
  <2> QED BY <1>2, <1>4, <1>7, <1>8, <2>1
<1>12. locksSet' => unreturned' \/ SomeNeeds(held')
  BY <1>7, <1>8 DEF SomeNeeds
<1> QED BY <1>7, <1>10, <1>11, <1>12 DEF NumLockInv, NumLockHeld, SomeNeeds, NeedsNumLock

LEMMA PressStep ==
  ASSUME KeyboardInv, NEW c \in Client, NEW k \in Sent, PressKey(c, k)
  PROVE  KeyboardInv'
<1> DEFINE row == Mapping[layout][k]
           new == [client |-> c, key |-> k, layout |-> layout]
           ready == UpdateModifiers(x, row)
           locked == IF NeedsLock(row) THEN Tap(ready) ELSE ready
<1> USE KeyboardAssumption
<1>1. /\ layout \in Layout /\ x \in XState
      /\ k \in DOMAIN Mapping[layout] /\ row \in Rows /\ row.code \in Nat /\ row.numlock \in BOOLEAN
  BY CodesAreNumbers DEF KeyboardInv, KeyboardTypeOK, XState, PressKey, Known, Rows
<1>2. ready \in XState /\ ready.down \subseteq x.down \cup ModifierCodes(row)
  BY <1>1, UpdateModifiersDown
<1> HIDE DEF ready
<1>3. locked \in XState /\ locked.down \subseteq x.down \cup ModifierCodes(row)
  BY <1>1, <1>2, TapDown
<1>4. x' = XPress(locked, row.code)
  BY DEF PressKey, ready
<1> HIDE DEF locked
<1>5. x' \in XState /\ x'.down \subseteq x.down \cup CodesOf(new)
  <2>1. x' \in XState /\ x'.down = locked.down \cup {row.code}
    BY <1>1, <1>3, <1>4, XPressDown
  <2>2. CodesOf(new) = {row.code} \cup ModifierCodes(row)
    BY DEF CodesOf, ModifierCodes
  <2> QED BY <1>3, <2>1, <2>2
<1>6. layout' = layout /\ xlayout' = xlayout /\ upsets' = upsets
      /\ held' = held \cup {new} /\ stuck' = stuck \cap x'.down
  BY DEF PressKey
<1>7. KeyboardTypeOK'
  <2>1. /\ locksSet' \in BOOLEAN /\ muddled' \in BOOLEAN /\ switched' \in BOOLEAN
        /\ unreturned' \in BOOLEAN
    BY <1>1 DEF PressKey, KeyboardInv, KeyboardTypeOK
  <2>2. /\ held' \subseteq [client : Client, key : Keysym, layout : Layout]
        /\ \A h \in held' : h.key \in DOMAIN Mapping[h.layout]
    BY <1>1, <1>6 DEF KeyboardInv, KeyboardTypeOK
  <2> QED BY <1>5, <1>6, <2>1, <2>2 DEF KeyboardInv, KeyboardTypeOK, XState
<1>8. NothingStuck'
  <2>1. \A h : CodesOf(h)' = CodesOf(h)
    BY <1>1, <1>6, CodesStay
  <2>2. x.down \subseteq stuck \cup UNION {CodesOf(h) : h \in held}
    BY DEF KeyboardInv, NothingStuck
  <2>3. SUFFICES ASSUME NEW d \in x'.down, d \notin stuck'
                 PROVE  \E h \in held' : d \in CodesOf(h)
    BY <2>1 DEF NothingStuck
  <2>4. CASE d \in CodesOf(new)
    BY <2>4, <1>6
  <2>5. CASE d \in x.down
    BY <2>2, <2>3, <2>5, <1>6
  <2> QED BY <2>4, <2>5, <1>5
<1>9. NumLockInv'
  BY PressNumLock
<1> QED BY <1>7, <1>8, <1>9 DEF KeyboardInv

LEMMA ReleaseStep ==
  ASSUME KeyboardInv, NEW c \in Client, NEW k \in Sent, ReleaseKey(c, k)
  PROVE  KeyboardInv'
<1> DEFINE row == Mapping[layout][k]
           up == XRelease(x, row.code)
           freed == ReleaseModifiers(up, row)
<1> USE KeyboardAssumption
<1>1. /\ layout \in Layout /\ x \in XState
      /\ k \in DOMAIN Mapping[layout] /\ row \in Rows /\ row.numlock \in BOOLEAN
  BY CodesAreNumbers DEF KeyboardInv, KeyboardTypeOK, XState, ReleaseKey, Known, Rows
<1>2. up \in XState /\ up.down = x.down \ {row.code}
  BY <1>1, XReleaseDown
<1> HIDE DEF up
<1>3. freed \in XState /\ freed.down = x.down \ ({row.code} \cup ModifierCodes(row))
  BY <1>1, <1>2, ReleaseModifiersDown
<1>4. x' = IF GivesLockBack(row) THEN Tap(freed) ELSE freed
  BY DEF ReleaseKey, up
<1> HIDE DEF freed
<1>5. x' \in XState /\ x'.down \subseteq x.down \ ({row.code} \cup ModifierCodes(row))
  BY <1>1, <1>3, <1>4, TapDown
<1>6. /\ layout' = layout /\ xlayout' = xlayout /\ upsets' = upsets
      /\ held' = held \ Holds(c, k)
      /\ stuck' = (stuck \cup UNION {CodesOf(h) : h \in Foreign(Holds(c, k))}) \cap x'.down
  BY DEF ReleaseKey
<1>7. KeyboardTypeOK'
  <2>1. /\ locksSet' \in BOOLEAN /\ muddled' \in BOOLEAN /\ switched' \in BOOLEAN
        /\ unreturned' \in BOOLEAN
    BY <1>1 DEF ReleaseKey, KeyboardInv, KeyboardTypeOK
  <2> QED BY <1>5, <1>6, <2>1 DEF KeyboardInv, KeyboardTypeOK, XState
<1>8. NothingStuck'
  <2>1. \A h : CodesOf(h)' = CodesOf(h)
    BY <1>1, <1>6, CodesStay
  <2>2. SUFFICES ASSUME NEW d \in x'.down, d \notin stuck'
                 PROVE  \E h \in held' : d \in CodesOf(h)
    BY <2>1 DEF NothingStuck
  <2>3. PICK h \in held : d \in CodesOf(h)
    BY <2>2, <1>5, <1>6 DEF KeyboardInv, NothingStuck
  <2>4. h \notin Holds(c, k)
    <3>1. SUFFICES ASSUME h \in Holds(c, k) PROVE FALSE
      OBVIOUS
    <3>2. h.layout = layout
      BY <2>2, <2>3, <3>1, <1>6 DEF Foreign
    <3>3. CodesOf(h) = {row.code} \cup ModifierCodes(row)
      BY <3>1, <3>2 DEF Holds, CodesOf, ModifierCodes
    <3> QED BY <2>2, <2>3, <3>3, <1>5
  <2> QED BY <2>3, <2>4, <1>6
<1>9. NumLockInv'
  BY ReleaseNumLock
<1> QED BY <1>7, <1>8, <1>9 DEF KeyboardInv

\* Keys are no longer held, and what is down stays down.
LEMMA LetGo ==
  ASSUME KeyboardInv, NEW H, UNCHANGED <<layout, xlayout, x>>, held' = held \ H,
         stuck' = (stuck \cup UNION {CodesOf(h) : h \in H}) \cap x.down,
         unreturned' = (unreturned \/ SomeNeeds(H)), H \subseteq held,
         UNCHANGED <<locksSet, switched, muddled>>, upsets' \in 0..MaxUpsets
  PROVE  KeyboardInv'
<1>1. KeyboardTypeOK'
  BY DEF KeyboardInv, KeyboardTypeOK
<1>2. \A h : CodesOf(h)' = CodesOf(h)
  BY CodesStay DEF KeyboardInv, KeyboardTypeOK
<1>3. NothingStuck'
  <2>1. SUFFICES ASSUME NEW d \in x.down, d \notin stuck'
                 PROVE  \E h \in held' : d \in CodesOf(h)
    BY <1>2 DEF NothingStuck
  <2>2. PICK h \in held : d \in CodesOf(h)
    BY <2>1 DEF KeyboardInv, NothingStuck
  <2>3. h \notin H
    BY <2>1, <2>2
  <2> QED BY <2>2, <2>3
<1>4. NumLockInv'
  <2>1. locksSet => unreturned' \/ SomeNeeds(held')
    BY DEF KeyboardInv, NumLockInv, SomeNeeds
  <2>2. /\ NumLockCode' = NumLockCode
        /\ SomeNeeds(held)' <=> SomeNeeds(held')
    BY DEF NumLockCode, Code, SomeNeeds, NeedsNumLock
  <2> QED BY <2>1, <2>2 DEF KeyboardInv, NumLockInv, NumLockHeld
<1> QED BY <1>1, <1>3, <1>4 DEF KeyboardInv

LEMMA LoadStep ==
  ASSUME KeyboardInv, NEW l \in Layout, NEW loaded \in BOOLEAN, LoadKeyboardLayout(l, loaded)
  PROVE  KeyboardInv'
<1>1. KeyboardTypeOK'
  BY KeyboardAssumption DEF LoadKeyboardLayout, KeyboardInv, KeyboardTypeOK
<1>2. \A h : CodesOf(h)' = CodesOf(h)
  BY <1>1, CodesStay DEF KeyboardInv, KeyboardTypeOK
<1>3. NothingStuck'
  BY <1>2 DEF LoadKeyboardLayout, KeyboardInv, NothingStuck
<1>4. NumLockInv'
  <2>1. NumLockCode' = NumLockCode
    BY <1>1, KeyboardAssumption DEF KeyboardInv, KeyboardTypeOK, NumLockCode, Code, ModifierKeysym
  <2> QED BY <2>1 DEF LoadKeyboardLayout, KeyboardInv, NumLockInv, NumLockHeld, SomeNeeds, NeedsNumLock
<1> QED BY <1>1, <1>3, <1>4 DEF KeyboardInv

LEMMA KeyboardStep ==
  ASSUME KeyboardInv, [KeyboardNext]_keyboardVars
  PROVE  KeyboardInv'
<1> USE KeyboardAssumption
<1>1. upsets \in 0..MaxUpsets /\ (upsets < MaxUpsets => upsets + 1 \in 0..MaxUpsets)
  BY DEF KeyboardInv, KeyboardTypeOK
<1>2. ASSUME NEW c \in Client, NEW k \in Sent, HandleKeySym(c, k)
      PROVE  KeyboardInv'
  <2>1. CASE PressKey(c, k)
    BY <2>1, PressStep
  <2>2. CASE ReleaseKey(c, k)
    BY <2>2, ReleaseStep
  <2>3. CASE ReleaseUnknown(c, k)
    BY <2>3, <1>1, LetGo DEF ReleaseUnknown, Holds
  <2> QED BY <1>2, <2>1, <2>2, <2>3 DEF HandleKeySym
<1>3. ASSUME NEW l \in Layout, NEW loaded \in BOOLEAN, LoadKeyboardLayout(l, loaded)
      PROVE  KeyboardInv'
  BY <1>3, LoadStep
<1>4. ASSUME NEW c \in Client, Vanish(c)
      PROVE  KeyboardInv'
  BY <1>4, <1>1, LetGo DEF Vanish
<1>5. CASE UNCHANGED keyboardVars
  <2>1. KeyboardTypeOK'
    BY <1>5 DEF keyboardVars, KeyboardInv, KeyboardTypeOK
  <2>2. \A h : CodesOf(h)' = CodesOf(h)
    BY <2>1, CodesStay DEF KeyboardInv, KeyboardTypeOK
  <2>3. NothingStuck'
    BY <1>5, <2>2 DEF keyboardVars, KeyboardInv, NothingStuck
  <2>4. NumLockInv'
    BY <1>5 DEF keyboardVars, KeyboardInv, NumLockInv, NumLockHeld, NumLockCode, Code, SomeNeeds,
                NeedsNumLock
  <2> QED BY <2>1, <2>3, <2>4 DEF KeyboardInv
<1> QED BY <1>2, <1>3, <1>4, <1>5 DEF KeyboardNext

-----------------------------------------------------------------------------
(* What a key press types *)

LEMMA ModifiersAre ==
  ASSUME NEW s
  PROVE  /\ "Shift" \in Modifiers(s) <=> Code("Shift_L") \in s.down \/ Code("Shift_R") \in s.down
         /\ "AltGr" \in Modifiers(s) <=> Code("ISO_Level3_Shift") \in s.down
         /\ Modifiers(s) \subseteq {"Shift", "AltGr"}
BY DEF Modifiers

LEMMA PressTypes ==
  ASSUME KeyboardInv, NEW c \in Client, NEW k \in Sent, PressKey(c, k), xlayout = layout,
         Mapping[layout][k].numlock
           => ~switched /\ ~muddled /\ "Shift" \in Mapping[layout][k].clear,
         ~Mapping[layout][k].numlock /\ OnKeypad(layout, Mapping[layout][k].code)
           => ~GivesDigits(x')
  PROVE  k \in XMakes(x', Mapping[layout][k].code)
<1> DEFINE row == Mapping[layout][k]
           N == NumLockCode
           ready == UpdateModifiers(x, row)
           locked == IF NeedsLock(row) THEN Tap(ready) ELSE ready
           M == {Code("Shift_L"), Code("Shift_R"), Code("ISO_Level3_Shift")}
<1>1. /\ layout \in Layout /\ x \in XState
      /\ k \in DOMAIN Mapping[layout] /\ row \in Rows /\ row.code \in Nat /\ row.code = Code(k)
      /\ row.set \cap row.clear = {} /\ row.numlock \in BOOLEAN
      /\ row.set \subseteq {"Shift", "AltGr"} /\ row.clear \subseteq {"Shift", "AltGr"}
  <2>1. layout \in Layout /\ x \in XState /\ k \in DOMAIN Mapping[layout]
    BY DEF KeyboardInv, KeyboardTypeOK, XState, PressKey, Known
  <2>2. row \in Rows /\ row.set \cap row.clear = {}
    BY <2>1, KeyboardAssumption
  <2> QED BY <2>1, <2>2 DEF Rows, Code
<1>2. N \in Nat /\ N \notin M
  BY <1>1, CodesDiffer DEF ModifierKeysym, NumLockCode
<1>3. /\ ready \in XState /\ (ready.numlock <=> x.numlock) /\ (N \in ready.down <=> N \in x.down)
      /\ "Shift" \in row.set => Code("Shift_L") \in ready.down
      /\ "Shift" \in row.clear =>
           Code("Shift_L") \notin ready.down /\ Code("Shift_R") \notin ready.down
      /\ "AltGr" \in row.set => Code("ISO_Level3_Shift") \in ready.down
      /\ "AltGr" \in row.clear => Code("ISO_Level3_Shift") \notin ready.down
  <2>1. /\ "Shift" \in row.clear => "Shift" \in row.clear \ row.set
        /\ "AltGr" \in row.clear => "AltGr" \in row.clear \ row.set
    BY <1>1
  <2> QED BY <1>1, <2>1, UpdateModifiersDown, UpdateModifiersGives
<1>4. x' = XPress(locked, row.code)
  BY DEF PressKey
<1> HIDE DEF ready
<1>5. /\ locked \in XState /\ locked.down \cap M = ready.down \cap M
      /\ NeedsLock(row) /\ N \notin x.down => (locked.numlock <=> ~x.numlock)
      /\ ~NeedsLock(row) => (locked.numlock <=> x.numlock)
  <2>1. /\ Tap(ready) \in XState /\ Tap(ready).down = ready.down \ {N}
        /\ N \notin ready.down => (Tap(ready).numlock <=> ~ready.numlock)
    BY <1>1, <1>3, TapDown, TapSwitches
  <2> HIDE DEF M
  <2>2. CASE NeedsLock(row)
    BY <2>1, <2>2, <1>2, <1>3
  <2>3. CASE ~NeedsLock(row)
    BY <2>3, <1>3
  <2> QED BY <2>2, <2>3
<1> HIDE DEF locked
<1>6. /\ x'.down = locked.down \cup {row.code}
      /\ x'.numlock <=> locked.numlock \/ (row.code = N /\ N \notin locked.down)
  BY <1>1, <1>4, <1>5, XPressDown, XPressNumLock
\* The key itself is a modifier only if its row clears none.
<1>7. row.clear # {} \/ row.numlock => row.code \notin M /\ row.code # N
  <2>1. CASE k \in ModifierKeysym
    BY <1>1, <2>1, CodesDiffer
  <2>2. CASE k \notin ModifierKeysym
    BY <1>1, <2>2, CodesDiffer DEF ModifierKeysym, NumLockCode
  <2> QED BY <2>1, <2>2
<1>8. row.set \subseteq Modifiers(x')
  BY <1>1, <1>3, <1>5, <1>6, ModifiersAre
<1>9. row.clear \cap Modifiers(x') = {}
  <2>1. SUFFICES ASSUME NEW m \in row.clear, m \in Modifiers(x') PROVE FALSE
    OBVIOUS
  <2>2. row.code \notin M /\ x'.down \cap M = ready.down \cap M
    BY <1>5, <1>6, <1>7, <2>1
  <2>3. CASE m = "Shift"
    BY <1>3, <2>1, <2>2, <2>3, ModifiersAre
  <2>4. CASE m = "AltGr"
    BY <1>3, <2>1, <2>2, <2>4, ModifiersAre
  <2> QED BY <1>1, <2>1, <2>3, <2>4
<1>10. ASSUME row.numlock PROVE GivesDigits(x')
  <2>1. /\ x.numlock <=> ~(switched <=> locksSet)
        /\ N \in x.down => x.numlock
        /\ ~switched /\ "Shift" \in row.clear
    BY <1>10 DEF KeyboardInv, NumLockInv, NumLockHeld
  <2>2. NeedsLock(row) <=> ~locksSet
    BY <1>10 DEF NeedsLock
  <2>3. locked.numlock
    BY <1>5, <2>1, <2>2
  <2>4. x'.numlock /\ "Shift" \notin Modifiers(x')
    BY <1>6, <1>9, <2>1, <2>3
  <2>5. x'.numlock \in BOOLEAN
    BY <1>1, <1>4, <1>5, XPressDown DEF XState
  <2> QED BY <2>4, <2>5 DEF GivesDigits
<1>11. OnKeypad(layout, row.code) => (row.numlock = GivesDigits(x'))
  <2>1. GivesDigits(x') \in BOOLEAN
    BY DEF GivesDigits
  <2> QED BY <1>1, <1>10, <2>1
<1> QED BY <1>1, <1>8, <1>9, <1>11 DEF XMakes

-----------------------------------------------------------------------------
(* The theorems *)

\* Types and NothingStuck are inductive together.
THEOREM KeyboardInvariant == KeyboardSpec => []KeyboardInv
BY KeyboardInit_Inv, KeyboardStep, PTL DEF KeyboardSpec

\* Every variable stays in its range, and a key that is held has a row in the table of
\* the layout in which it was pressed.
THEOREM KeyboardTypes == KeyboardSpec => []KeyboardTypeOK
<1>1. KeyboardInv => KeyboardTypeOK
  BY DEF KeyboardInv
<1> QED BY KeyboardInvariant, <1>1, PTL

\* No key is down that nobody holds, but for clients that have gone and keys released in
\* another layout than pressed (handleKeySym, updateModifiers, releaseModifiers).
THEOREM NothingIsStuck == KeyboardSpec => []NothingStuck
<1>1. KeyboardInv => NothingStuck
  BY DEF KeyboardInv
<1> QED BY KeyboardInvariant, <1>1, PTL

\* Num Lock is as the clients have switched it when no key is held that needs it, however
\* many clients held such keys together (updateLocks, releaseLocks).
THEOREM NumLockIsRestored == KeyboardSpec => []NumLockRestored
<1>1. KeyboardInv => NumLockRestored
  <2> SUFFICES ASSUME KeyboardInv, ~muddled, ~unreturned, ~SomeNeeds(held)
               PROVE  x.numlock = switched
    BY DEF NumLockRestored
  <2>1. x.numlock <=> switched
    BY DEF KeyboardInv, NumLockInv
  <2>2. x.numlock \in BOOLEAN /\ switched \in BOOLEAN
    BY DEF KeyboardInv, KeyboardTypeOK
  <2> QED BY <2>1, <2>2
<1> QED BY KeyboardInvariant, <1>1, PTL

\* The X server makes of a key that is pressed the keysym that the client asked for,
\* whatever keys the clients hold (handleKeySym, updateModifiers, updateLocks), but for the
\* exceptions of TypedIsAsked.
THEOREM WhatIsTypedIsAsked == KeyboardSpec => TypedIsAsked
<1> DEFINE Typed ==
      \A c \in Client, k \in Sent :
        LET row == Mapping[layout][k]
        IN  /\ Known(k) /\ row.code \in x'.down \ x.down
            /\ PressKey(c, k)
            /\ xlayout = layout
            /\ row.numlock => ~switched /\ ~muddled /\ "Shift" \in row.clear
            /\ ~row.numlock /\ OnKeypad(layout, row.code) => ~GivesDigits(x')
            => k \in XMakes(x', row.code)
<1>1. KeyboardInv => Typed
  BY PressTypes
<1>2. KeyboardInv /\ [KeyboardNext]_keyboardVars => [Typed]_keyboardVars
  BY <1>1
<1> QED BY KeyboardInvariant, <1>2, PTL DEF KeyboardSpec, TypedIsAsked
=============================================================================
