---------------------------- MODULE WindowImages ----------------------------
(***************************************************************************)
(* How the pixels of a window reach the clients.  The X server reports     *)
(* damage, the registry adds it to the window of every client group        *)
(* (WebXClientWindow), and each group, at its own pace, turns the damage   *)
(* it has collected into an image of the whole window or of the damaged    *)
(* areas, for all its clients at once.                                     *)
(*                                                                         *)
(* One window, always visible, cut into tiles; what a tile shows is one of *)
(* a few pixel values.  Published images are taken in order and none is    *)
(* lost (MessageQueue), so a client's view changes when its image is sent. *)
(* The moment at which a group refreshes, and the quality a client is      *)
(* moved to, depend on measured times and rates: here they are open.       *)
(*                                                                         *)
(* The history variable lost names the tiles that a client shows out of    *)
(* date although their damage is gone, and why it is gone; new damage of   *)
(* the tile, or an image of it, takes the entry away.                      *)
(***************************************************************************)
EXTENDS Naturals

CONSTANTS
  Client,
  Quality,               \* one group for each quality
  Tile,                  \* parts of the window
  Picture,               \* what a tile may show
  Unknown,               \* a tile of which a client has no image
  ImageChecksumEnabled,  \* _settings.controller.imageChecksumEnabled
  MaxDraws               \* bound on the changes of the window

ASSUME ImagesAssumption ==
  /\ Unknown \notin Picture
  /\ Unknown \notin Quality
  /\ ImageChecksumEnabled \in BOOLEAN
  /\ MaxDraws \in Nat

VARIABLES
  content,   \* content[t]: what the window shows
  draws,     \* number of changes so far
  xDamage,   \* tiles with a damage event on its way to the engine
  group,     \* group[c]: quality of c's group, or Unknown
  damage,    \* damage[q]: the _damage of the window in the group of quality q
  checksum,  \* checksum[q]: its _rgbChecksum, as the pixels it is the sum of
  view,      \* view[c][t]: what c displays
  lost       \* history: <<cause, c, t>>

imagesVars == <<content, draws, xDamage, group, damage, checksum, view, lost>>

Cause == {"move", "grab", "checksum"}

\* The initial checksum, 0, is that of no image.
NoChecksum == [t \in Tile |-> Unknown]

Members(q) == {c \in Client : group[c] = q}
Groups == {q \in Quality : Members(q) # {}}

Stale(c, t) == view[c][t] # Unknown /\ view[c][t] # content[t]

ImagesInit ==
  /\ content \in [Tile -> Picture]
  /\ draws = 0
  /\ xDamage = {}
  /\ group = [c \in Client |-> Unknown]
  /\ damage = [q \in Quality |-> {}]
  /\ checksum = [q \in Quality |-> NoChecksum]
  /\ view = [c \in Client |-> [t \in Tile |-> Unknown]]
  /\ lost = {}

-----------------------------------------------------------------------------
(* The X server, and the damage events the engine takes from it *)

Draw(t, p) ==
  /\ draws < MaxDraws
  /\ draws' = draws + 1
  /\ content' = [content EXCEPT ![t] = p]
  /\ xDamage' = xDamage \cup {t}
  /\ lost' = {l \in lost : l[3] # t}
  /\ UNCHANGED <<group, damage, checksum, view>>

\* addWindowDamage: every group that exists gets the damage.
AddWindowDamage_LargestGroup(t) ==
  /\ t \in xDamage
  /\ xDamage' = xDamage \ {t}
  /\ damage' = [q \in Quality |-> IF q \in Groups /\ \A r \in Groups : r <= q
                                  THEN damage[q] \cup {t} ELSE damage[q]]
  /\ UNCHANGED <<content, draws, group, checksum, view, lost>>
AddWindowDamage(t) ==
  /\ t \in xDamage
  /\ xDamage' = xDamage \ {t}
  /\ damage' = [q \in Quality |-> IF q \in Groups THEN damage[q] \cup {t} ELSE damage[q]]
  /\ UNCHANGED <<content, draws, group, checksum, view, lost>>

-----------------------------------------------------------------------------
(* The group's windows (handleWindowGraphicalUpdates) *)

\* The clients of a group get an image of the tiles S.
Show(q, S) ==
  /\ view' = [c \in Client |-> [t \in Tile |->
                IF c \in Members(q) /\ t \in S THEN content[t] ELSE view[c][t]]]
  /\ lost' = {l \in lost : ~(l[2] \in Members(q) /\ l[3] \in S)}

\* The damage of the tiles S is given up without an image: a loss for the clients
\* C that show something else.
LostBy(cause, C, S) == {l \in {cause} \X C \X S : Stale(l[2], l[3])}

GiveUp(cause, q, S) ==
  /\ lost' = lost \cup LostBy(cause, Members(q), S)
  /\ UNCHANGED view

ResetDamage(q) == damage' = [damage EXCEPT ![q] = {}]

\* The whole window is damaged: grab and send all of it, unless the checksum is
\* that of the last whole image (verifyImageUpdate).
SendWindow(q) ==
  /\ q \in Groups
  /\ damage[q] = Tile
  /\ \/ /\ ImageChecksumEnabled => content # checksum[q]
        /\ checksum' = [checksum EXCEPT ![q] = IF ImageChecksumEnabled THEN content ELSE @]
        /\ Show(q, Tile)
     \/ /\ ImageChecksumEnabled /\ content = checksum[q]
        /\ GiveUp("checksum", q, Tile)
        /\ UNCHANGED checksum
  /\ ResetDamage(q)
  /\ UNCHANGED <<content, draws, xDamage, group>>

\* Some tiles are damaged: grab and send those.
SendAreas(q) ==
  /\ q \in Groups
  /\ damage[q] \notin {{}, Tile}
  /\ Show(q, damage[q])
  /\ ResetDamage(q)
  /\ UNCHANGED <<content, draws, xDamage, group, checksum>>

\* The grab of the image fails (of one of the areas, at least): the damage is
\* reset as if it had been sent.
GrabFails(q, failed) ==
  /\ q \in Groups
  /\ failed # {} /\ failed \subseteq damage[q]
  /\ damage[q] = Tile => failed = Tile
  /\ view' = [c \in Client |-> [t \in Tile |->
                IF c \in Members(q) /\ t \in damage[q] \ failed THEN content[t] ELSE view[c][t]]]
  /\ lost' = {l \in lost : ~(l[2] \in Members(q) /\ l[3] \in damage[q] \ failed)}
               \cup LostBy("grab", Members(q), failed)
  /\ ResetDamage(q)
  /\ UNCHANGED <<content, draws, xDamage, group, checksum>>

\* Each group in turn.
UpdateGroup_FirstOnly(q) == (\A r \in Groups : q <= r) /\ (SendWindow(q) \/ SendAreas(q))
UpdateGroup(q) == SendWindow(q) \/ SendAreas(q)

-----------------------------------------------------------------------------
(* The clients *)

\* A group whose last client leaves is erased with its windows; created anew, it
\* has no damage and no checksum.
Regroup(c, q) ==
  /\ group' = [group EXCEPT ![c] = q]
  /\ damage' = [r \in Quality |-> IF r \in Groups /\ r \in Groups' THEN damage[r] ELSE {}]
  /\ checksum' = [r \in Quality |->
                    IF r \in Groups /\ r \in Groups' THEN checksum[r] ELSE NoChecksum]

\* addClient: the client has no image yet.
Join(c, q) ==
  /\ group[c] = Unknown
  /\ Regroup(c, q)
  /\ UNCHANGED <<content, draws, xDamage, view, lost>>

\* removeClient
Leave(c) ==
  /\ group[c] # Unknown
  /\ Regroup(c, Unknown)
  /\ view' = [view EXCEPT ![c] = [t \in Tile |-> Unknown]]
  /\ lost' = {l \in lost : l[2] # c}
  /\ UNCHANGED <<content, draws, xDamage>>

\* setClientQuality: the new group may not have the damage that the old one has.
Move(c, q) ==
  /\ group[c] \notin {Unknown, q}
  /\ Regroup(c, q)
  /\ lost' = lost \cup LostBy("move", {c}, damage[group[c]] \ damage'[q])
  /\ UNCHANGED <<content, draws, xDamage, view>>

\* An image instruction: the client gets the whole window, its group does not.
RequestImage(c) ==
  /\ group[c] # Unknown
  /\ view' = [view EXCEPT ![c] = content]
  /\ lost' = {l \in lost : l[2] # c}
  /\ UNCHANGED <<content, draws, xDamage, group, damage, checksum>>

ImagesNext ==
  \/ \E t \in Tile, p \in Picture : Draw(t, p)
  \/ \E t \in Tile : AddWindowDamage(t)
  \/ \E q \in Quality : UpdateGroup(q)
  \/ \E q \in Quality, failed \in SUBSET Tile : GrabFails(q, failed)
  \/ \E c \in Client, q \in Quality : Join(c, q) \/ Move(c, q)
  \/ \E c \in Client : Leave(c) \/ RequestImage(c)

ImagesSpec == ImagesInit /\ [][ImagesNext]_imagesVars

\* In every turn the controller loop takes the events and updates each group
\* that is due.
ImagesFairness ==
  /\ \A t \in Tile : WF_imagesVars(AddWindowDamage(t))
  /\ \A q \in Quality : WF_imagesVars(UpdateGroup(q))

-----------------------------------------------------------------------------
(* Properties *)

\* Every variable stays in its range, and nothing is kept for a group that has
\* no client.
ImagesTypeOK ==
  /\ content \in [Tile -> Picture]
  /\ draws \in 0..MaxDraws
  /\ xDamage \subseteq Tile
  /\ group \in [Client -> Quality \cup {Unknown}]
  /\ damage \in [Quality -> SUBSET Tile]
  /\ checksum \in [Quality -> [Tile -> Picture \cup {Unknown}]]
  /\ view \in [Client -> [Tile -> Picture \cup {Unknown}]]
  /\ lost \subseteq Cause \X Client \X Tile
  /\ \A q \in Quality \ Groups : damage[q] = {} /\ checksum[q] = NoChecksum

\* An image of the tile is due for the client.
Pending(c, t) ==
  \/ t \in xDamage
  \/ group[c] # Unknown /\ t \in damage[group[c]]

\* A client that displays something out of date will be told: the damage is on
\* its way to the engine or collected by the client's group, unless the code gave
\* it up for one of three reasons (moved to another group, image not grabbed,
\* checksum equal to that of an older image).
StaleIsAccountedFor ==
  \A c \in Client, t \in Tile :
    Stale(c, t) => Pending(c, t) \/ \E cause \in Cause : <<cause, c, t>> \in lost

\* What a client displays catches up with the window, or the damage was given up.
ViewCatchesUp ==
  \A c \in Client, t \in Tile :
    Stale(c, t) ~> ~Stale(c, t) \/ \E cause \in Cause : <<cause, c, t>> \in lost

=============================================================================
