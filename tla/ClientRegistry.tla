--------------------------- MODULE ClientRegistry ---------------------------
(***************************************************************************)
(* WebXClientRegistry: the connected clients, the bit each of them holds   *)
(* in the 64-bit client index mask, and their partition into groups of     *)
(* equal quality (WebXClientGroup).                                        *)
(*                                                                         *)
(* Every public method locks the registry's recursive mutex for its whole  *)
(* duration, so each method is one action.  The connector thread (connect, *)
(* disconnect) and the controller loop (everything else) interleave freely *)
(* at that granularity, which is why Next is a plain disjunction.          *)
(*                                                                         *)
(* The messages a call hands to _clientMessageHandler are in sent; the     *)
(* module Engine takes them from there into the publisher's queue.         *)
(*                                                                         *)
(* X_What, above a definition X, is a plausible mistake in X: replacing X  *)
(* by it breaks a property.  The specification itself never uses it.       *)
(***************************************************************************)
EXTENDS Integers, FiniteSets

CONSTANTS
  ClientId,    \* the 32-bit ids that addClient draws at random
  MaxIndex,    \* number of bits of the index mask (64 in the code)
  MaxQuality,  \* WebXQuality::MaxQuality().index
  PingWait,    \* PING_WAIT_INTERVAL_MS, in ticks
  PongWait     \* clientPingResponseTimeoutMs, in ticks

ASSUME RegistryAssumption ==
  /\ MaxIndex \in Nat \ {0}
  /\ MaxQuality \in Nat \ {0}
  /\ PingWait \in Nat
  /\ PongWait \in Nat

Index   == 1..MaxIndex
NoIndex == 0
Quality == 1..MaxQuality

\* Elapsed times beyond both timeouts are not told apart.
TimeCap == PingWait + PongWait + 1
Time    == 0..TimeCap

VARIABLES
  clients,          \* ids of the clients in _clients
  index,            \* index[c]: the bit of c's _index
  clientIndexMask,  \* the bits set in _clientIndexMask
  maxQuality,       \* maxQuality[c]: index of c's _maxQuality
  pingStatus,       \* pingStatus[c], between two calls of handleClientPings
  elapsed,          \* ticks since c's last pong, or ping while one is awaited
  groups,           \* qualities that have a group in _groups
  groupClients,     \* groupClients[q]: the _clients of the group of quality q
  groupMask,        \* groupMask[q]: the _clientIndexMask of that group
  sent,             \* messages the last call handed to the message handler
  told,             \* history: the quality last announced to c
  closed            \* history: disconnectAll has been called

clientVars == <<clients, index, clientIndexMask, maxQuality>>
pingVars   == <<pingStatus, elapsed>>
groupVars  == <<groups, groupClients, groupMask>>
registryVars == <<clientVars, pingVars, groupVars, sent, told, closed>>

Message == [type : {"Ping", "Disconnect", "Quality"},
            index : Index,
            quality : Quality \cup {0}]

Ping(c)       == [type |-> "Ping",       index |-> index[c], quality |-> 0]
Disconnect(c) == [type |-> "Disconnect", index |-> index[c], quality |-> 0]
QualityMessage(c, q) == [type |-> "Quality", index |-> index[c], quality |-> q]

\* Nothing is kept of a client that leaves: its object is destroyed.
Without(f, S, default) == [c \in ClientId |-> IF c \in S THEN default ELSE f[c]]

RegistryInit ==
  /\ clients = {}
  /\ index = [c \in ClientId |-> NoIndex]
  /\ clientIndexMask = {}
  /\ maxQuality = [c \in ClientId |-> MaxQuality]
  /\ pingStatus = [c \in ClientId |-> "WaitingToPing"]
  /\ elapsed = [c \in ClientId |-> 0]
  /\ groups = {}
  /\ groupClients = [q \in Quality |-> {}]
  /\ groupMask = [q \in Quality |-> {}]
  /\ sent = {}
  /\ told = [c \in ClientId |-> MaxQuality]
  /\ closed = FALSE

-----------------------------------------------------------------------------
(* Groups *)

\* getGroupWithClientId, by the quality of the group it finds.
QualityOf(c) == CHOOSE q \in groups : c \in groupClients[q]

\* Whether removing S takes the last client out of the group of quality q, which
\* is when removeClientFromGroup erases it (hasClients is true of an empty group).
Emptied(q, S) == groupClients[q] \cap S # {} /\ groupClients[q] \ S = {}

\* WebXClientGroup::removeClient for each of S that the group has.
MaskWithout_KeepsBits(q, S) == groupMask[q]
MaskWithout(q, S) == groupMask[q] \ {index[c] : c \in groupClients[q] \cap S}

RemoveFromGroups_Nothing(S) == UNCHANGED groupVars
RemoveFromGroups(S) ==
  /\ groups' = {q \in groups : ~Emptied(q, S)}
  /\ groupClients' = [q \in Quality |-> groupClients[q] \ S]
  /\ groupMask' = [q \in Quality |-> MaskWithout(q, S)]

\* Every quality change is announced to the client it concerns.
Announce_OldQuality(target) ==
  /\ told' = [c \in ClientId |-> IF c \in DOMAIN target THEN QualityOf(c) ELSE told[c]]
  /\ sent' = {QualityMessage(c, QualityOf(c)) : c \in DOMAIN target}
Announce(target) ==
  /\ told' = [c \in ClientId |-> IF c \in DOMAIN target THEN target[c] ELSE told[c]]
  /\ sent' = {QualityMessage(c, target[c]) : c \in DOMAIN target}

\* setClientQuality for each client of the domain of target: leave the old
\* group, join (or create) the group of the new quality, announce it.
MoveClients(target) ==
  LET moved == DOMAIN target
      joining(q) == {c \in moved : target[c] = q}
  IN  /\ groups' = {q \in groups : ~Emptied(q, moved)} \cup {target[c] : c \in moved}
      /\ groupClients' = [q \in Quality |-> (groupClients[q] \ moved) \cup joining(q)]
      /\ groupMask' = [q \in Quality |->
                         MaskWithout(q, moved) \cup {index[c] : c \in joining(q)}]
      /\ Announce(target)

-----------------------------------------------------------------------------
(* Connection and disconnection, called by the connector thread *)

IsLowestFree_NextBit(i) ==
  /\ i + 1 \notin clientIndexMask
  /\ \A j \in Index : j + 1 \notin clientIndexMask => i <= j
IsLowestFree(i) ==
  /\ i \notin clientIndexMask
  /\ \A j \in Index \ clientIndexMask : i <= j

\* addClient: the lowest free bit, a fresh id and the default group.  With no
\* free bit the call returns an error and changes nothing.
AddClient(c) ==
  /\ c \notin clients
  /\ \E i \in Index :
       /\ IsLowestFree(i)
       /\ index' = [index EXCEPT ![c] = i]
       /\ clientIndexMask' = clientIndexMask \cup {i}
       /\ groupMask' = [groupMask EXCEPT ![MaxQuality] = @ \cup {i}]
  /\ clients' = clients \cup {c}
  /\ groups' = groups \cup {MaxQuality}
  /\ groupClients' = [groupClients EXCEPT ![MaxQuality] = @ \cup {c}]
  /\ sent' = {}
  /\ UNCHANGED <<maxQuality, pingVars, told, closed>>

\* The part removeClient and disconnectAll share: the objects of S go away.
Forget_Nobody(S) == UNCHANGED <<clients, index, maxQuality, told>>
Forget(S) ==
  /\ clients' = clients \ S
  /\ index' = Without(index, S, NoIndex)
  /\ maxQuality' = Without(maxQuality, S, MaxQuality)
  /\ told' = Without(told, S, MaxQuality)

ReleaseIndices_Nothing(S) == UNCHANGED clientIndexMask
ReleaseIndices(S) ==
  clientIndexMask' = clientIndexMask \ {index[c] : c \in S}

RemoveClient(c) ==
  /\ c \in clients
  /\ Forget({c})
  /\ ReleaseIndices({c})
  /\ RemoveFromGroups({c})
  /\ pingStatus' = Without(pingStatus, {c}, "WaitingToPing")
  /\ elapsed' = Without(elapsed, {c}, 0)
  /\ sent' = {}
  /\ UNCHANGED closed

\* disconnectAll: the mask keeps the bits of the clients it drops.
DisconnectAll ==
  /\ sent' = {Disconnect(c) : c \in clients}
  /\ Forget(clients)
  /\ pingStatus' = Without(pingStatus, clients, "WaitingToPing")
  /\ elapsed' = Without(elapsed, clients, 0)
  /\ groups' = {}
  /\ groupClients' = [q \in Quality |-> {}]
  /\ groupMask' = [q \in Quality |-> {}]
  /\ closed' = TRUE
  /\ UNCHANGED clientIndexMask

-----------------------------------------------------------------------------
(* Pings and pongs, called by the controller loop *)

\* updatePingStatus, as the two sets of clients it singles out.  The statuses
\* RequiresPing and PongTimeout do not outlive the call of handleClientPings.
RequiresPing_Again == {c \in clients : elapsed[c] > PingWait}
RequiresPing ==
  {c \in clients : pingStatus[c] = "WaitingToPing" /\ elapsed[c] > PingWait}
PongTimeout ==
  {c \in clients : pingStatus[c] = "WaitingForPong" /\ elapsed[c] > PongWait}

HandleClientPings_NotNoted ==
  /\ sent' = {Disconnect(c) : c \in PongTimeout} \cup {Ping(c) : c \in RequiresPing}
  /\ Forget(PongTimeout)
  /\ ReleaseIndices(PongTimeout)
  /\ RemoveFromGroups(PongTimeout)
  /\ pingStatus' = Without(pingStatus, PongTimeout, "WaitingToPing")
  /\ elapsed' = Without(elapsed, PongTimeout \cup RequiresPing, 0)
  /\ UNCHANGED closed
HandleClientPings ==
  /\ sent' = {Disconnect(c) : c \in PongTimeout} \cup {Ping(c) : c \in RequiresPing}
  /\ Forget(PongTimeout)
  /\ ReleaseIndices(PongTimeout)
  /\ RemoveFromGroups(PongTimeout)
  /\ pingStatus' = [c \in ClientId |-> IF c \in PongTimeout THEN "WaitingToPing"
                                       ELSE IF c \in RequiresPing THEN "WaitingForPong"
                                       ELSE pingStatus[c]]
  /\ elapsed' = Without(elapsed, PongTimeout \cup RequiresPing, 0)
  /\ UNCHANGED closed

\* A pong is taken at any time, expected or not.
OnPongReceived(c) ==
  /\ c \in clients
  /\ pingStatus' = [pingStatus EXCEPT ![c] = "WaitingToPing"]
  /\ elapsed' = [elapsed EXCEPT ![c] = 0]
  /\ sent' = {}
  /\ UNCHANGED <<clientVars, groupVars, told, closed>>

-----------------------------------------------------------------------------
(* Quality, called by the controller loop *)

\* setClientMaxQuality moves the client to the new maximum itself, up or down.
SetClientMaxQuality(c, q) ==
  /\ c \in clients
  /\ maxQuality' = [maxQuality EXCEPT ![c] = q]
  /\ MoveClients([d \in {c} \ groupClients[q] |-> q])
  /\ UNCHANGED <<clients, index, clientIndexMask, pingVars, closed>>

Clamp(q, max) == IF q < 1 THEN 1 ELSE IF q > max THEN max ELSE q

\* performQualityVerification: delta[c] is -1, 0 or 1 from the bitrate ratio of
\* the clients that have bitrate means in this call (its domain).
PerformQualityVerification(delta) ==
  LET suggested(c) == Clamp(QualityOf(c) + delta[c], maxQuality[c])
      moved == {c \in DOMAIN delta : suggested(c) # QualityOf(c)}
  IN  /\ MoveClients([c \in moved |-> suggested(c)])
      /\ UNCHANGED <<clientVars, pingVars, closed>>

-----------------------------------------------------------------------------
(* The clock that updatePingStatus reads *)
Tick ==
  /\ elapsed' = [c \in ClientId |-> IF c \in clients /\ elapsed[c] < TimeCap
                                    THEN elapsed[c] + 1 ELSE elapsed[c]]
  /\ sent' = {}
  /\ UNCHANGED <<clientVars, pingStatus, groupVars, told, closed>>

RegistryNext ==
  \/ \E c \in ClientId : AddClient(c)
  \/ \E c \in ClientId : RemoveClient(c)
  \/ DisconnectAll
  \/ HandleClientPings
  \/ \E c \in ClientId : OnPongReceived(c)
  \/ \E c \in ClientId, q \in Quality : SetClientMaxQuality(c, q)
  \/ \E measured \in SUBSET clients :
       \E delta \in [measured -> {-1, 0, 1}] : PerformQualityVerification(delta)
  \/ Tick

RegistrySpec == RegistryInit /\ [][RegistryNext]_registryVars

\* The controller loop calls handleClientPings in every turn, and time passes.
FairRegistrySpec ==
  RegistrySpec /\ WF_registryVars(HandleClientPings) /\ WF_registryVars(Tick)

-----------------------------------------------------------------------------
(* Properties *)

\* Every variable stays in its range, and nothing but the initial values is kept
\* for an id that is not registered.
TypeOK ==
  /\ clients \in SUBSET ClientId
  /\ index \in [ClientId -> Index \cup {NoIndex}]
  /\ \A c \in ClientId : index[c] = NoIndex <=> c \notin clients
  /\ \A c \in ClientId \ clients : maxQuality[c] = MaxQuality /\ told[c] = MaxQuality
  /\ clientIndexMask \in SUBSET Index
  /\ maxQuality \in [ClientId -> Quality]
  /\ pingStatus \in [ClientId -> {"WaitingToPing", "WaitingForPong"}]
  /\ elapsed \in [ClientId -> Time]
  /\ groups \in SUBSET Quality
  /\ groupClients \in [Quality -> SUBSET ClientId]
  /\ groupMask \in [Quality -> SUBSET Index]
  /\ sent \in SUBSET Message
  /\ told \in [ClientId -> Quality]
  /\ closed \in BOOLEAN

UsedIndices == {index[c] : c \in clients}

\* Two connected clients never hold the same bit, and the mask covers the bits in
\* use; until disconnectAll it holds nothing else.
DistinctIndices ==
  \A c, d \in clients : index[c] = index[d] => c = d
IndexMaskExact ==
  /\ UsedIndices \subseteq clientIndexMask
  /\ ~closed => clientIndexMask = UsedIndices

\* A message addressed to one bit has one addressee; addClient cannot give a bit
\* out twice, and no bit is lost for good, however clients come, leave and time
\* out (addClient, removeClient, handleClientPings).
IndicesExact == DistinctIndices /\ IndexMaskExact

\* The groups partition the clients, and no group is empty: "a client should
\* always be in a group" (setClientQuality).
GroupsPartitionClients ==
  /\ UNION {groupClients[q] : q \in Quality} = clients
  /\ \A q, r \in Quality : groupClients[q] \cap groupClients[r] # {} => q = r
  /\ groups = {q \in Quality : groupClients[q] # {}}
GroupMaskExact ==
  \A q \in Quality : groupMask[q] = {index[c] : c \in groupClients[q]}

\* Each client is in one group, and the mask a group's images are sent to names
\* its clients, all of them and nobody else (WebXClientGroup::addClient,
\* removeClient).
GroupsExact == GroupsPartitionClients /\ GroupMaskExact

QualityWithinMax ==
  \A q \in Quality : \A c \in groupClients[q] : q <= maxQuality[c]
ToldIsCurrent ==
  \A q \in Quality : \A c \in groupClients[q] : told[c] = q

\* No client is in a group above its own maximum quality, and the quality last
\* announced to it is that of the group it is in, whether the client lowered its
\* maximum or performQualityVerification moved it.
QualityAgrees == QualityWithinMax /\ ToldIsCurrent

\* A client that is sent Disconnect is unregistered in the same call, and its
\* bit is in no group's mask: it gets no image after the Disconnect.
DisconnectIsLast ==
  [][\A m \in sent' : m.type = "Disconnect" =>
       /\ m.index \notin {index'[c] : c \in clients'}
       /\ \A q \in Quality : m.index \notin groupMask'[q]]_registryVars

\* A client that answers no more pings is removed and gives its bit back.
SilentClientRemoved ==
  \A c \in ClientId :
    \/ []<><<OnPongReceived(c)>>_registryVars
    \/ c \in clients ~> c \notin clients
=============================================================================
