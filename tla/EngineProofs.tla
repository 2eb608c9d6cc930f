---------------------------- MODULE EngineProofs ----------------------------
(***************************************************************************)
(* Proofs about the registry of clients and the engine that uses it, for   *)
(* any set of ids, any width of the index mask, any number of quality      *)
(* levels and queued messages and any ping timeouts.                       *)
(*                                                                         *)
(* The registry's invariant is inductive as a whole: releasing a bit is    *)
(* exact only because no two clients share one, a group's mask is exact    *)
(* only because the groups are disjoint, and a quality move is within the  *)
(* maximum only because the group a client is found in is the one it was   *)
(* put in.                                                                 *)
(*                                                                         *)
(* The engine's threads, however they interleave, use the registry as its  *)
(* specification allows; so everything proved of the registry holds in the *)
(* engine.                                                                 *)
(*                                                                         *)
(* Of the queue of messages: a client that was sent Disconnect is in the   *)
(* registry no more, never comes back, and is not the one whose            *)
(* instruction is handled, so that nobody makes a message for it.  And     *)
(* whoever takes a message that was not made for it holds the bit of a     *)
(* client that has left.                                                   *)
(*                                                                         *)
(* Of the pings: one is sent only when none is under way; the ping in the  *)
(* queue, the pong its client owes, the pong among the instructions and    *)
(* the one in hand take each other's place, and are never two (PingAlone). *)
(***************************************************************************)
EXTENDS Engine, FiniteSetTheorems, TLAPS

-----------------------------------------------------------------------------
(* The registry's invariant *)

GroupInv == GroupsPartitionClients /\ GroupMaskExact

RegistryInv ==
  /\ TypeOK
  /\ DistinctIndices
  /\ IndexMaskExact
  /\ GroupInv
  /\ QualityWithinMax
  /\ ToldIsCurrent

USE DEF Index, NoIndex, Quality

-----------------------------------------------------------------------------
(* The group of a client *)

\* Membership in terms of single clients, which is how the code looks it up.
LEMMA Membership ==
  ASSUME TypeOK, GroupsPartitionClients
  PROVE  /\ \A c \in clients : \E q \in Quality : c \in groupClients[q]
         /\ \A q \in Quality : \A c \in groupClients[q] : c \in clients /\ q \in groups
         /\ \A q, r \in Quality : \A c \in groupClients[q] :
              c \in groupClients[r] => q = r
  BY DEF TypeOK, GroupsPartitionClients

\* getGroupWithClientId finds the one group that holds the client.
LEMMA QualityOfClient ==
  ASSUME TypeOK, GroupsPartitionClients, NEW c \in clients
  PROVE  /\ QualityOf(c) \in Quality
         /\ \A q \in Quality : c \in groupClients[q] <=> q = QualityOf(c)
<1>1. PICK q \in Quality : c \in groupClients[q]
  BY Membership
<1>2. q \in groups
  BY <1>1, Membership
<1>3. QualityOf(c) \in groups /\ c \in groupClients[QualityOf(c)]
  BY <1>1, <1>2 DEF QualityOf
<1>4. QualityOf(c) \in Quality
  BY <1>3 DEF TypeOK
<1>. QED
  BY <1>3, <1>4, Membership

\* Quality levels stay between 1 and the client's maximum.
LEMMA ClampInRange ==
  ASSUME NEW q \in Int, NEW max \in Quality, MaxQuality \in Nat \ {0}
  PROVE  Clamp(q, max) \in Quality /\ Clamp(q, max) <= max
  BY DEF Clamp

-----------------------------------------------------------------------------
(* The two ways groups change *)

\* Taking clients out of their groups and out of the registry keeps the
\* groups a partition with exact masks.
LEMMA RemoveKeepsGroups ==
  ASSUME TypeOK, DistinctIndices, GroupInv,
         NEW S \in SUBSET clients,
         clients' = clients \ S, index' = Without(index, S, NoIndex),
         RemoveFromGroups(S)
  PROVE  /\ groups' \in SUBSET Quality
         /\ groupClients' \in [Quality -> SUBSET ClientId]
         /\ groupMask' \in [Quality -> SUBSET Index]
         /\ GroupInv'
<1>. USE DEF RemoveFromGroups, Emptied, MaskWithout
<1>1. groups' \in SUBSET Quality /\ groupClients' \in [Quality -> SUBSET ClientId]
      /\ groupMask' \in [Quality -> SUBSET Index]
  BY DEF TypeOK
<1>2. GroupsPartitionClients'
  <2>1. \A q \in Quality : groupClients'[q] = groupClients[q] \ S
    OBVIOUS
  <2>2. UNION {groupClients'[q] : q \in Quality} = clients'
    BY <2>1 DEF GroupInv, GroupsPartitionClients
  <2>3. \A q, r \in Quality : groupClients'[q] \cap groupClients'[r] # {} => q = r
    BY <2>1 DEF GroupInv, GroupsPartitionClients
  <2>4. groups' = {q \in Quality : groupClients'[q] # {}}
    BY <2>1 DEF GroupInv, GroupsPartitionClients
  <2>. QED
    BY <2>2, <2>3, <2>4 DEF GroupsPartitionClients
<1>3. GroupMaskExact'
  <2>. SUFFICES ASSUME NEW q \in Quality
                PROVE  groupMask'[q] = {index'[c] : c \in groupClients'[q]}
    BY DEF GroupMaskExact
  <2>1. groupMask'[q] = {index[c] : c \in groupClients[q]}
                          \ {index[c] : c \in groupClients[q] \cap S}
    BY DEF GroupInv, GroupMaskExact
  <2>2. groupClients'[q] = groupClients[q] \ S
    OBVIOUS
  <2>3. groupClients[q] \subseteq clients /\ clients \subseteq ClientId
    BY Membership DEF GroupInv, TypeOK
  <2>4. \A c \in groupClients[q] \ S : index'[c] = index[c]
    BY <2>3 DEF Without
  <2>5. \A c \in groupClients[q] \ S :
          index[c] \notin {index[d] : d \in groupClients[q] \cap S}
    BY <2>3 DEF DistinctIndices
  <2>. QED
    BY <2>1, <2>2, <2>4, <2>5
<1>. QED
  BY <1>1, <1>2, <1>3 DEF GroupInv

\* Moving clients between groups keeps the partition and the masks, and puts
\* each moved client in the group of its target and nowhere else.
LEMMA MoveKeepsGroups ==
  ASSUME TypeOK, DistinctIndices, GroupInv,
         NEW target, target \in [DOMAIN target -> Quality],
         DOMAIN target \subseteq clients,
         UNCHANGED <<clients, index>>,
         MoveClients(target)
  PROVE  /\ groups' \in SUBSET Quality
         /\ groupClients' \in [Quality -> SUBSET ClientId]
         /\ groupMask' \in [Quality -> SUBSET Index]
         /\ told' \in [ClientId -> Quality]
         /\ sent' \in SUBSET Message
         /\ GroupInv'
         /\ \A q \in Quality : \A c \in groupClients'[q] :
              IF c \in DOMAIN target THEN q = target[c] ELSE c \in groupClients[q]
         /\ \A c \in ClientId :
              told'[c] = IF c \in DOMAIN target THEN target[c] ELSE told[c]
<1>. DEFINE moved == DOMAIN target
<1>0. clients \subseteq ClientId /\ \A c \in clients : index[c] \in Index
  BY DEF TypeOK
<1>g. \A q \in Quality :
        groupClients'[q] = (groupClients[q] \ moved) \cup {c \in moved : target[c] = q}
  BY DEF MoveClients, Emptied, MaskWithout, Announce
<1>1. groups' \in SUBSET Quality
  BY DEF MoveClients, Emptied, MaskWithout, Announce, TypeOK
<1>2. groupClients' \in [Quality -> SUBSET ClientId]
  BY <1>0 DEF MoveClients, Emptied, MaskWithout, Announce, TypeOK
<1>3. groupMask' \in [Quality -> SUBSET Index]
  <2>1. \A q \in Quality : groupMask[q] \subseteq Index
    BY DEF TypeOK
  <2>2. \A c \in moved : index[c] \in Index
    BY <1>0
  <2>. QED
    BY <2>1, <2>2 DEF MoveClients, Emptied, MaskWithout, Announce
<1>4. told' \in [ClientId -> Quality]
  BY <1>0 DEF MoveClients, Emptied, MaskWithout, Announce, TypeOK
<1>5. sent' \in SUBSET Message
  BY <1>0 DEF MoveClients, Emptied, MaskWithout, Announce, QualityMessage, Message
<1>6. GroupsPartitionClients'
  <2>1. UNION {groupClients'[q] : q \in Quality} = clients'
    BY <1>g DEF GroupInv, GroupsPartitionClients
  <2>2. \A q, r \in Quality : groupClients'[q] \cap groupClients'[r] # {} => q = r
    BY <1>g DEF GroupInv, GroupsPartitionClients
  <2>3. groups' = {q \in Quality : groupClients'[q] # {}}
    <3>1. \A q \in Quality : q \in groups <=> groupClients[q] # {}
      BY DEF GroupInv, GroupsPartitionClients
    <3>2. \A q \in Quality : q \in groups' <=>
            \/ groupClients[q] # {} /\ (groupClients[q] \cap moved # {}
                                           => groupClients[q] \ moved # {})
            \/ \E c \in moved : target[c] = q
      BY <3>1 DEF MoveClients, Emptied, MaskWithout, Announce
    <3>3. \A q \in Quality : q \in groups' <=> groupClients'[q] # {}
      BY <3>2, <1>g
    <3>. QED
      BY <3>3, <1>1
  <2>. QED
    BY <2>1, <2>2, <2>3 DEF GroupsPartitionClients
<1>7. GroupMaskExact'
  <2>. SUFFICES ASSUME NEW q \in Quality
                PROVE  groupMask'[q] = {index[c] : c \in groupClients'[q]}
    BY DEF GroupMaskExact
  <2>1. groupMask'[q] = ({index[c] : c \in groupClients[q]}
                           \ {index[c] : c \in groupClients[q] \cap moved})
                         \cup {index[c] : c \in {d \in moved : target[d] = q}}
    BY DEF MoveClients, Emptied, MaskWithout, Announce, GroupInv, GroupMaskExact
  <2>2. groupClients[q] \subseteq clients
    BY Membership DEF GroupInv
  <2>3. \A c \in groupClients[q] \ moved :
          index[c] \notin {index[d] : d \in groupClients[q] \cap moved}
    BY <2>2 DEF DistinctIndices
  <2>. QED
    BY <2>1, <2>3, <1>g
<1>8. \A q \in Quality : \A c \in groupClients'[q] :
        IF c \in moved THEN q = target[c] ELSE c \in groupClients[q]
  BY <1>g
<1>9. \A c \in ClientId : told'[c] = IF c \in moved THEN target[c] ELSE told[c]
  BY DEF MoveClients, Emptied, MaskWithout, Announce
<1>. QED
  BY <1>1, <1>2, <1>3, <1>4, <1>5, <1>6, <1>7, <1>8, <1>9 DEF GroupInv
-----------------------------------------------------------------------------
(* Each operation keeps the invariant *)

LEMMA InitInv == RegistryInit => RegistryInv
<1>. SUFFICES ASSUME RegistryInit PROVE RegistryInv
  OBVIOUS
<1>. USE RegistryAssumption DEF RegistryInit
<1>1. TypeOK
  <2>1. 0 \in Time /\ MaxQuality \in Quality
    BY DEF Time, TimeCap
  <2>2. sent \in SUBSET Message
    OBVIOUS
  <2>. QED
    BY <2>1, <2>2 DEF TypeOK
<1>2. DistinctIndices /\ IndexMaskExact
  BY DEF DistinctIndices, IndexMaskExact, UsedIndices
<1>3. GroupInv
  BY DEF GroupInv, GroupsPartitionClients, GroupMaskExact
<1>4. QualityWithinMax /\ ToldIsCurrent
  BY DEF QualityWithinMax, ToldIsCurrent
<1>. QED
  BY <1>1, <1>2, <1>3, <1>4 DEF RegistryInv

\* A bit outside the mask is held by nobody, so handing it out keeps the bits
\* distinct; the default group is within every new client's maximum.
LEMMA AddClientInv ==
  ASSUME RegistryInv, NEW c \in ClientId, AddClient(c)
  PROVE  RegistryInv'
<1>. USE RegistryAssumption
<1>1. PICK i \in Index :
        /\ i \notin clientIndexMask
        /\ index' = [index EXCEPT ![c] = i]
        /\ clientIndexMask' = clientIndexMask \cup {i}
        /\ groupMask' = [groupMask EXCEPT ![MaxQuality] = @ \cup {i}]
  BY DEF AddClient, IsLowestFree
<1>2. /\ c \notin clients
      /\ clients' = clients \cup {c}
      /\ groups' = groups \cup {MaxQuality}
      /\ groupClients' = [groupClients EXCEPT ![MaxQuality] = @ \cup {c}]
      /\ sent' = {}
      /\ UNCHANGED <<maxQuality, pingStatus, elapsed, told, closed>>
  BY DEF AddClient, pingVars
<1>3. \A d \in clients : index'[d] = index[d] /\ index[d] # i
  BY <1>1, <1>2 DEF RegistryInv, TypeOK, IndexMaskExact, UsedIndices
<1>4. index'[c] = i
  BY <1>1 DEF RegistryInv, TypeOK
<1>5. TypeOK'
  BY <1>1, <1>2 DEF RegistryInv, TypeOK
<1>6. DistinctIndices'
  BY <1>2, <1>3, <1>4 DEF RegistryInv, DistinctIndices
<1>7. IndexMaskExact'
  <2>1. UsedIndices' = UsedIndices \cup {i}
    BY <1>2, <1>3, <1>4 DEF UsedIndices
  <2>. QED
    BY <2>1, <1>1, <1>2 DEF RegistryInv, IndexMaskExact
<1>8. \A q \in Quality :
        groupClients'[q] = IF q = MaxQuality THEN groupClients[q] \cup {c}
                                             ELSE groupClients[q]
  BY <1>2 DEF RegistryInv, TypeOK
<1>9. /\ \A q \in Quality : \A d \in groupClients[q] : d \in clients /\ d # c
      /\ \A q \in Quality : q \in groups <=> groupClients[q] # {}
  BY <1>2, Membership DEF RegistryInv, GroupInv, GroupsPartitionClients
<1>10. GroupsPartitionClients'
  <2>1. UNION {groupClients'[q] : q \in Quality} = clients'
    BY <1>2, <1>8 DEF RegistryInv, GroupInv, GroupsPartitionClients
  <2>2. \A q, r \in Quality : groupClients'[q] \cap groupClients'[r] # {} => q = r
    BY <1>8, <1>9 DEF RegistryInv, GroupInv, GroupsPartitionClients
  <2>3. \A q \in Quality : q \in groups' <=> groupClients'[q] # {}
    BY <1>2, <1>8, <1>9
  <2>4. groups' = {q \in Quality : groupClients'[q] # {}}
    BY <2>3, <1>5 DEF TypeOK
  <2>. QED
    BY <2>1, <2>2, <2>4 DEF GroupsPartitionClients
<1>11. GroupMaskExact'
  <2>. SUFFICES ASSUME NEW q \in Quality
                PROVE  groupMask'[q] = {index'[d] : d \in groupClients'[q]}
    BY DEF GroupMaskExact
  <2>1. groupMask[q] = {index[d] : d \in groupClients[q]}
    BY DEF RegistryInv, GroupInv, GroupMaskExact
  <2>2. groupMask'[q] = IF q = MaxQuality THEN groupMask[q] \cup {i} ELSE groupMask[q]
    BY <1>1 DEF RegistryInv, TypeOK
  <2>3. \A d \in groupClients[q] : index'[d] = index[d]
    BY <1>3, <1>9
  <2>4. CASE q = MaxQuality
    <3>1. groupMask'[q] = {index[d] : d \in groupClients[q]} \cup {i}
      BY <2>1, <2>2, <2>4
    <3>2. groupClients'[q] = groupClients[q] \cup {c}
      BY <2>4, <1>8
    <3>. QED
      BY <3>1, <3>2, <2>3, <1>4
  <2>5. CASE q # MaxQuality
    BY <2>1, <2>2, <2>3, <2>5, <1>8
  <2>. QED
    BY <2>4, <2>5
<1>12. QualityWithinMax' /\ ToldIsCurrent'
  <2>1. maxQuality[c] = MaxQuality /\ told[c] = MaxQuality
    BY <1>2 DEF RegistryInv, TypeOK
  <2>. QED
    BY <2>1, <1>2, <1>8 DEF RegistryInv, QualityWithinMax, ToldIsCurrent
<1>. QED
  BY <1>5, <1>6, <1>7, <1>10, <1>11, <1>12 DEF RegistryInv, GroupInv

\* The two ways single clients leave (removeClient, a ping timeout): forgetting
\* them, releasing their bits and taking them out of their groups.
LEMMA LeaveInv ==
  ASSUME RegistryInv, NEW S \in SUBSET clients,
         Forget(S), ReleaseIndices(S), RemoveFromGroups(S),
         pingStatus' \in [ClientId -> {"WaitingToPing", "WaitingForPong"}],
         elapsed' \in [ClientId -> Time],
         sent' \in SUBSET Message,
         UNCHANGED closed
  PROVE  RegistryInv'
<1>1. /\ clients' = clients \ S
      /\ index' = Without(index, S, NoIndex)
      /\ maxQuality' = Without(maxQuality, S, MaxQuality)
      /\ told' = Without(told, S, MaxQuality)
  BY DEF Forget
<1>2. clientIndexMask' = clientIndexMask \ {index[c] : c \in S}
  BY DEF ReleaseIndices
<1>3. /\ groups' \in SUBSET Quality
      /\ groupClients' \in [Quality -> SUBSET ClientId]
      /\ groupMask' \in [Quality -> SUBSET Index]
      /\ GroupInv'
  BY <1>1, RemoveKeepsGroups DEF RegistryInv
<1>4. \A c \in clients' :
        index'[c] = index[c] /\ maxQuality'[c] = maxQuality[c] /\ told'[c] = told[c]
  BY <1>1 DEF RegistryInv, TypeOK, Without
<1>5. TypeOK'
  <2>1. /\ clients' \in SUBSET ClientId
        /\ index' \in [ClientId -> Index \cup {NoIndex}]
        /\ maxQuality' \in [ClientId -> Quality]
        /\ told' \in [ClientId -> Quality]
    BY RegistryAssumption, <1>1 DEF RegistryInv, TypeOK, Without
  <2>2. /\ \A c \in ClientId : index'[c] = NoIndex <=> c \notin clients'
        /\ \A c \in ClientId \ clients' :
             maxQuality'[c] = MaxQuality /\ told'[c] = MaxQuality
    BY <1>1 DEF RegistryInv, TypeOK, Without
  <2>3. clientIndexMask' \in SUBSET Index /\ closed' \in BOOLEAN
    BY <1>2 DEF RegistryInv, TypeOK
  <2>. QED
    BY <2>1, <2>2, <2>3, <1>3 DEF TypeOK
<1>6. DistinctIndices'
  BY <1>1, <1>4 DEF RegistryInv, DistinctIndices
<1>7. IndexMaskExact'
  <2>1. UsedIndices' = UsedIndices \ {index[c] : c \in S}
    BY <1>1, <1>4 DEF UsedIndices, RegistryInv, DistinctIndices
  <2>. QED
    BY <2>1, <1>2 DEF RegistryInv, IndexMaskExact
<1>8. \A q \in Quality : \A c \in groupClients'[q] : c \in groupClients[q] /\ c \in clients'
  <2>1. \A q \in Quality : groupClients'[q] = groupClients[q] \ S
    BY DEF RemoveFromGroups
  <2>. QED
    BY <2>1, <1>1, Membership DEF RegistryInv, GroupInv
<1>9. QualityWithinMax' /\ ToldIsCurrent'
  BY <1>4, <1>8 DEF RegistryInv, QualityWithinMax, ToldIsCurrent
<1>. QED
  BY <1>3, <1>5, <1>6, <1>7, <1>9 DEF RegistryInv

LEMMA RemoveClientInv ==
  ASSUME RegistryInv, NEW c \in ClientId, RemoveClient(c)
  PROVE  RegistryInv'
<1>1. /\ pingStatus' \in [ClientId -> {"WaitingToPing", "WaitingForPong"}]
      /\ elapsed' \in [ClientId -> Time]
      /\ sent' \in SUBSET Message
  BY RegistryAssumption DEF RegistryInv, TypeOK, RemoveClient, Without, Time, TimeCap
<1>. QED
  BY <1>1, LeaveInv DEF RemoveClient

LEMMA HandleClientPingsInv ==
  ASSUME RegistryInv, HandleClientPings
  PROVE  RegistryInv'
<1>1. /\ pingStatus' \in [ClientId -> {"WaitingToPing", "WaitingForPong"}]
      /\ elapsed' \in [ClientId -> Time]
  BY RegistryAssumption
     DEF RegistryInv, TypeOK, HandleClientPings, Without, Time, TimeCap
<1>2. PongTimeout \subseteq clients /\ RequiresPing \subseteq clients
  BY DEF PongTimeout, RequiresPing
<1>3. sent' \in SUBSET Message
  <2>1. \A c \in clients : index[c] \in Index
    BY DEF RegistryInv, TypeOK
  <2>. QED
    BY <1>2, <2>1 DEF HandleClientPings, Message, Ping, Disconnect
<1>. QED
  BY <1>1, <1>2, <1>3, LeaveInv DEF HandleClientPings

\* The bits stay in the mask here, which is why the mask is exact only before
\* the first disconnectAll.
LEMMA DisconnectAllInv ==
  ASSUME RegistryInv, DisconnectAll
  PROVE  RegistryInv'
<1>. USE RegistryAssumption DEF RegistryInv, DisconnectAll
<1>1. clients' = {} /\ index' = [c \in ClientId |-> NoIndex]
      /\ maxQuality' = [c \in ClientId |-> MaxQuality]
      /\ told' = [c \in ClientId |-> MaxQuality]
  <2>1. clients' = {}
    BY DEF Forget
  <2>2. \A c \in ClientId : IF c \in clients THEN TRUE
          ELSE index[c] = NoIndex /\ maxQuality[c] = MaxQuality /\ told[c] = MaxQuality
    BY DEF TypeOK
  <2>. QED
    BY <2>1, <2>2 DEF Forget, Without
<1>2. sent' \in SUBSET Message
  <2>1. \A c \in clients : index[c] \in Index
    BY DEF TypeOK
  <2>. QED
    BY <2>1 DEF Message, Disconnect
<1>3. /\ pingStatus' \in [ClientId -> {"WaitingToPing", "WaitingForPong"}]
      /\ elapsed' \in [ClientId -> Time]
  BY DEF TypeOK, Without, Time, TimeCap
<1>4. TypeOK'
  BY <1>1, <1>2, <1>3 DEF TypeOK
<1>5. DistinctIndices' /\ IndexMaskExact' /\ QualityWithinMax' /\ ToldIsCurrent'
  BY <1>1 DEF DistinctIndices, IndexMaskExact, UsedIndices, QualityWithinMax, ToldIsCurrent
<1>6. GroupInv'
  BY <1>1 DEF GroupInv, GroupsPartitionClients, GroupMaskExact
<1>. QED
  BY <1>4, <1>5, <1>6

LEMMA OnPongReceivedInv ==
  ASSUME RegistryInv, NEW c \in ClientId, OnPongReceived(c)
  PROVE  RegistryInv'
  BY RegistryAssumption
     DEF RegistryInv, OnPongReceived, TypeOK, Time, TimeCap, clientVars, groupVars,
         DistinctIndices, IndexMaskExact, UsedIndices, GroupInv,
         GroupsPartitionClients, GroupMaskExact, QualityWithinMax, ToldIsCurrent

\* A client that is not moved to its new maximum is already there.
LEMMA SetClientMaxQualityInv ==
  ASSUME RegistryInv, NEW c \in ClientId, NEW q \in Quality, SetClientMaxQuality(c, q)
  PROVE  RegistryInv'
<1>. DEFINE target == [d \in {c} \ groupClients[q] |-> q]
<1>1. /\ c \in clients
      /\ maxQuality' = [maxQuality EXCEPT ![c] = q]
      /\ MoveClients(target)
      /\ UNCHANGED <<clients, index, clientIndexMask, pingStatus, elapsed, closed>>
  BY DEF SetClientMaxQuality, pingVars
<1>2. target \in [DOMAIN target -> Quality] /\ DOMAIN target \subseteq clients
  BY <1>1
<1>3. /\ groups' \in SUBSET Quality
      /\ groupClients' \in [Quality -> SUBSET ClientId]
      /\ groupMask' \in [Quality -> SUBSET Index]
      /\ told' \in [ClientId -> Quality]
      /\ sent' \in SUBSET Message
      /\ GroupInv'
      /\ \A r \in Quality : \A d \in groupClients'[r] :
           IF d \in DOMAIN target THEN r = target[d] ELSE d \in groupClients[r]
      /\ \A d \in ClientId :
           told'[d] = IF d \in DOMAIN target THEN target[d] ELSE told[d]
  BY <1>1, <1>2, MoveKeepsGroups DEF RegistryInv
<1>4. TypeOK'
  BY <1>1, <1>3 DEF RegistryInv, TypeOK
<1>5. DistinctIndices' /\ IndexMaskExact'
  BY <1>1 DEF RegistryInv, DistinctIndices, IndexMaskExact, UsedIndices
<1>6. \A r \in Quality : \A d \in groupClients'[r] :
        d \in ClientId /\ r <= maxQuality'[d] /\ told'[d] = r
  <2>. SUFFICES ASSUME NEW r \in Quality, NEW d \in groupClients'[r]
                PROVE  d \in ClientId /\ r <= maxQuality'[d] /\ told'[d] = r
    OBVIOUS
  <2>0. d \in ClientId
    BY <1>3
  <2>1. CASE d \in DOMAIN target
    BY <2>0, <2>1, <1>1, <1>3 DEF RegistryInv, TypeOK
  <2>2. CASE d \notin DOMAIN target /\ d = c
    <3>1. c \in groupClients[q] /\ c \in groupClients[r]
      BY <2>2, <1>3
    <3>2. r = q
      BY <3>1, Membership DEF RegistryInv, GroupInv
    <3>. QED
      BY <2>2, <3>1, <3>2, <1>1, <1>3 DEF RegistryInv, TypeOK, ToldIsCurrent
  <2>3. CASE d \notin DOMAIN target /\ d # c
    <3>1. d \in groupClients[r] /\ told'[d] = told[d] /\ maxQuality'[d] = maxQuality[d]
      BY <2>0, <2>3, <1>1, <1>3 DEF RegistryInv, TypeOK
    <3>. QED
      BY <2>0, <3>1 DEF RegistryInv, ToldIsCurrent, QualityWithinMax
  <2>. QED
    BY <2>1, <2>2, <2>3
<1>7. QualityWithinMax' /\ ToldIsCurrent'
  BY <1>6 DEF QualityWithinMax, ToldIsCurrent
<1>. QED
  BY <1>3, <1>4, <1>5, <1>7 DEF RegistryInv

LEMMA PerformQualityVerificationInv ==
  ASSUME RegistryInv, NEW measured \in SUBSET clients,
         NEW delta \in [measured -> {-1, 0, 1}], PerformQualityVerification(delta)
  PROVE  RegistryInv'
<1>. DEFINE suggested(c) == Clamp(QualityOf(c) + delta[c], maxQuality[c])
            moved == {c \in DOMAIN delta : suggested(c) # QualityOf(c)}
            target == [c \in moved |-> suggested(c)]
<1>0. DOMAIN delta = measured
  OBVIOUS
<1>1. MoveClients(target)
      /\ UNCHANGED <<clients, index, clientIndexMask, maxQuality, pingStatus, elapsed, closed>>
  BY DEF PerformQualityVerification, clientVars, pingVars
<1>2. \A c \in measured : suggested(c) \in Quality /\ suggested(c) <= maxQuality[c]
  <2>. SUFFICES ASSUME NEW c \in measured
                PROVE  suggested(c) \in Quality /\ suggested(c) <= maxQuality[c]
    OBVIOUS
  <2>1. QualityOf(c) \in Quality /\ delta[c] \in {-1, 0, 1}
    BY QualityOfClient DEF RegistryInv, GroupInv
  <2>2. QualityOf(c) + delta[c] \in Int
    BY <2>1
  <2>3. maxQuality[c] \in Quality
    BY DEF RegistryInv, TypeOK
  <2>. QED
    BY <2>2, <2>3, ClampInRange, RegistryAssumption
<1>3. target \in [DOMAIN target -> Quality] /\ DOMAIN target \subseteq clients
  BY <1>0, <1>2
<1>4. /\ groups' \in SUBSET Quality
      /\ groupClients' \in [Quality -> SUBSET ClientId]
      /\ groupMask' \in [Quality -> SUBSET Index]
      /\ told' \in [ClientId -> Quality]
      /\ sent' \in SUBSET Message
      /\ GroupInv'
      /\ \A r \in Quality : \A d \in groupClients'[r] :
           IF d \in DOMAIN target THEN r = target[d] ELSE d \in groupClients[r]
      /\ \A d \in ClientId :
           told'[d] = IF d \in DOMAIN target THEN target[d] ELSE told[d]
  <2>. HIDE DEF target
  <2>. QED
    BY <1>1, <1>3, MoveKeepsGroups DEF RegistryInv
<1>5. TypeOK'
  BY <1>1, <1>3, <1>4 DEF RegistryInv, TypeOK
<1>6. DistinctIndices' /\ IndexMaskExact'
  BY <1>1 DEF RegistryInv, DistinctIndices, IndexMaskExact, UsedIndices
<1>7. QualityWithinMax' /\ ToldIsCurrent'
  <2>. SUFFICES ASSUME NEW r \in Quality, NEW d \in groupClients'[r]
                PROVE  r <= maxQuality'[d] /\ told'[d] = r
    BY DEF QualityWithinMax, ToldIsCurrent
  <2>0. d \in ClientId
    BY <1>4
  <2>1. CASE d \in moved
    BY <2>0, <2>1, <1>0, <1>1, <1>2, <1>4
  <2>2. CASE d \notin moved
    <3>1. d \in groupClients[r] /\ told'[d] = told[d] /\ maxQuality'[d] = maxQuality[d]
      BY <2>0, <2>2, <1>1, <1>4
    <3>. QED
      BY <3>1 DEF RegistryInv, ToldIsCurrent, QualityWithinMax
  <2>. QED
    BY <2>1, <2>2
<1>. QED
  BY <1>4, <1>5, <1>6, <1>7 DEF RegistryInv

LEMMA TickInv ==
  ASSUME RegistryInv, Tick
  PROVE  RegistryInv'
<1>1. elapsed' \in [ClientId -> Time]
  BY RegistryAssumption DEF RegistryInv, Tick, TypeOK, Time, TimeCap
<1>2. UNCHANGED <<clients, index, clientIndexMask, maxQuality, pingStatus,
                  groups, groupClients, groupMask, told, closed>> /\ sent' = {}
  BY DEF Tick, clientVars, groupVars
<1>. QED
  BY <1>1, <1>2
     DEF RegistryInv, TypeOK, DistinctIndices, IndexMaskExact, UsedIndices, GroupInv,
         GroupsPartitionClients, GroupMaskExact, QualityWithinMax, ToldIsCurrent

LEMMA StutterInv ==
  ASSUME RegistryInv, UNCHANGED registryVars
  PROVE  RegistryInv'
  BY DEF RegistryInv, registryVars, clientVars, pingVars, groupVars, TypeOK,
         DistinctIndices, IndexMaskExact, UsedIndices, GroupInv,
         GroupsPartitionClients, GroupMaskExact, QualityWithinMax, ToldIsCurrent

LEMMA NextInv == RegistryInv /\ [RegistryNext]_registryVars => RegistryInv'
  BY AddClientInv, RemoveClientInv, DisconnectAllInv, HandleClientPingsInv,
     OnPongReceivedInv, SetClientMaxQualityInv, PerformQualityVerificationInv,
     TickInv, StutterInv
     DEF RegistryNext

-----------------------------------------------------------------------------
(* Theorems about the registry *)

\* The whole invariant holds in every reachable state of the registry.
THEOREM RegistryCorrect == RegistrySpec => []RegistryInv
  BY InitInv, NextInv, PTL DEF RegistrySpec

\* Each named invariant that the runs check, for all values of the constants.
THEOREM TypeCorrect == RegistrySpec => []TypeOK
<1>1. RegistryInv => TypeOK
  BY DEF RegistryInv
<1>. QED
  BY <1>1, RegistryCorrect, PTL

\* No bit has two holders, and no bit is lost before disconnectAll.
THEOREM IndicesCorrect == RegistrySpec => []IndicesExact
<1>1. RegistryInv => IndicesExact
  BY DEF RegistryInv, IndicesExact
<1>. QED
  BY <1>1, RegistryCorrect, PTL

\* The groups partition the clients and their masks address exactly them.
THEOREM GroupsCorrect == RegistrySpec => []GroupsExact
<1>1. RegistryInv => GroupsExact
  BY DEF RegistryInv, GroupInv, GroupsExact
<1>. QED
  BY <1>1, RegistryCorrect, PTL

\* A client's quality is within its maximum and is the one it was told.
THEOREM QualityCorrect == RegistrySpec => []QualityAgrees
<1>1. RegistryInv => QualityAgrees
  BY DEF RegistryInv, QualityAgrees
<1>. QED
  BY <1>1, RegistryCorrect, PTL

\* Only a ping timeout and disconnectAll send Disconnect, and both drop the
\* addressee; as its bit was its own, nobody is left with it.
LEMMA DisconnectReleases ==
  ASSUME RegistryInv, RegistryInv', RegistryNext,
         NEW m \in sent', m.type = "Disconnect"
  PROVE  m.index \notin {index'[c] : c \in clients'}
<1>1. CASE HandleClientPings
  <2>1. \A c \in PongTimeout : Disconnect(c).index = index[c] /\ c \in clients
    BY DEF Disconnect, PongTimeout
  <2>2. \A c \in RequiresPing : Ping(c).type = "Ping"
    BY DEF Ping
  <2>3. PICK c \in PongTimeout : m.index = index[c]
    BY <1>1, <2>1, <2>2 DEF HandleClientPings
  <2>4. clients' = clients \ PongTimeout /\ index' = Without(index, PongTimeout, NoIndex)
    BY <1>1 DEF HandleClientPings, Forget
  <2>5. \A d \in clients' : index'[d] = index[d] /\ d \in clients /\ d # c
    BY <2>3, <2>4 DEF RegistryInv, TypeOK, Without
  <2>6. \A d \in clients' : index'[d] # index[c]
    BY <2>1, <2>3, <2>5 DEF RegistryInv, DistinctIndices
  <2>. QED
    BY <2>3, <2>6
<1>2. CASE DisconnectAll
  <2>1. clients' = {}
    BY <1>2 DEF DisconnectAll, Forget
  <2>. QED
    BY <2>1
<1>3. CASE \/ \E c \in ClientId : AddClient(c) \/ RemoveClient(c) \/ OnPongReceived(c)
           \/ Tick
  <2>1. sent' = {}
    BY <1>3 DEF AddClient, RemoveClient, OnPongReceived, Tick
  <2>. QED
    BY <2>1
<1>4. CASE \/ \E c \in ClientId, q \in Quality : SetClientMaxQuality(c, q)
           \/ \E measured \in SUBSET clients :
                \E delta \in [measured -> {-1, 0, 1}] : PerformQualityVerification(delta)
  <2>1. PICK target : MoveClients(target)
    BY <1>4 DEF SetClientMaxQuality, PerformQualityVerification
  <2>2. \A c \in DOMAIN target : QualityMessage(c, target[c]).type = "Quality"
    BY DEF QualityMessage
  <2>3. m.type = "Quality"
    BY <2>1, <2>2 DEF MoveClients, Emptied, MaskWithout, Announce
  <2>. QED
    BY <2>3
<1>. QED
  BY <1>1, <1>2, <1>3, <1>4 DEF RegistryNext

\* After its Disconnect a client has no bit left in any mask.
THEOREM DisconnectFinal == RegistrySpec => DisconnectIsLast
<1>1. RegistryInv /\ RegistryInv' /\ [RegistryNext]_registryVars =>
        [\A m \in sent' : m.type = "Disconnect" =>
           /\ m.index \notin {index'[c] : c \in clients'}
           /\ \A q \in Quality : m.index \notin groupMask'[q]]_registryVars
  <2>. SUFFICES ASSUME RegistryInv, RegistryInv', RegistryNext,
                       NEW m \in sent', m.type = "Disconnect"
                PROVE  /\ m.index \notin {index'[c] : c \in clients'}
                       /\ \A q \in Quality : m.index \notin groupMask'[q]
    OBVIOUS
  <2>1. m.index \notin {index'[c] : c \in clients'}
    BY DisconnectReleases
  <2>2. \A q \in Quality : groupMask'[q] \subseteq {index'[c] : c \in clients'}
    <3>1. \A q \in Quality : groupMask'[q] = {index'[c] : c \in groupClients'[q]}
      BY DEF RegistryInv, GroupInv, GroupMaskExact
    <3>2. \A q \in Quality : groupClients'[q] \subseteq clients'
      BY DEF RegistryInv, GroupInv, GroupsPartitionClients
    <3>. QED
      BY <3>1, <3>2
  <2>. QED
    BY <2>1, <2>2
<1>. QED
  BY <1>1, RegistryCorrect, PTL DEF RegistrySpec, DisconnectIsLast

-----------------------------------------------------------------------------
(* The engine's threads and the registry *)

\* A step of the controller calls at most one method of the registry.  The pong
\* of a client that is found is the pong of an id: that is where the registry's
\* type invariant is needed; and an asked quality is clamped before it is set.
LEMMA ControllerStep ==
  ASSUME RegistryInv, Controller
  PROVE  [RegistryNext]_registryVars
<1>1. CASE \/ BeginTurn \/ LookUpClient \/ HandleRequest \/ HandleInput \/ EndInstructions \/ Events
           \/ UpdateWindows \/ RefreshMouse
  BY <1>1 DEF BeginTurn, LookUpClient, HandleRequest, HandleInput, EndInstructions, Events,
              UpdateWindows, RefreshMouse
<1>2. CASE HandlePong
  <2>1. OnPongReceived(current.from) => \E c \in ClientId : OnPongReceived(c)
    BY DEF OnPongReceived, RegistryInv, TypeOK
  <2>. QED
    BY <1>2, <2>1 DEF HandlePong, RegistryNext
<1>3. CASE HandleQuality
  <2>1. QualityForIndex(current.quality) \in Quality
    BY RegistryAssumption DEF QualityForIndex, Quality
  <2>2. ASSUME SetClientMaxQuality(current.from, QualityForIndex(current.quality))
        PROVE  \E c \in ClientId, q \in Quality : SetClientMaxQuality(c, q)
    <3>1. current.from \in ClientId
      BY <2>2 DEF SetClientMaxQuality, RegistryInv, TypeOK
    <3>. QED
      BY <2>1, <2>2, <3>1
  <2>. QED
    BY <1>3, <2>2 DEF HandleQuality, RegistryNext
<1>4. CASE Pings
  BY <1>4 DEF Pings, RegistryNext
<1>5. CASE VerifyQuality
  BY <1>5 DEF VerifyQuality, RegistryNext
<1>. QED
  BY <1>1, <1>2, <1>3, <1>4, <1>5 DEF Controller

\* So does a step of any other thread.
LEMMA EngineStep ==
  ASSUME RegistryInv, [EngineNext]_engineVars
  PROVE  [RegistryNext]_registryVars
<1>1. CASE Controller
  BY <1>1, ControllerStep
<1>2. CASE Publish
  BY <1>2 DEF Publish
<1>3. CASE ClockTick
  BY <1>3 DEF ClockTick, RegistryNext
<1>4. CASE \E c \in ClientId : Connect(c) \/ RequestDisconnect(c) \/ Crash(c)
  BY <1>4 DEF Connect, RequestDisconnect, Crash, RegistryNext
<1>5. CASE \/ \E c \in ClientId : SendRequest(c) \/ SendInput(c) \/ SendPong(c)
           \/ \E c \in ClientId, q \in QualityIndex : SendQuality(c, q)
  BY <1>5 DEF SendRequest, SendInput, SendPong, SendQuality
<1>6. CASE UNCHANGED engineVars
  BY <1>6 DEF engineVars
<1>. QED
  BY <1>1, <1>2, <1>3, <1>4, <1>5, <1>6 DEF EngineNext

\* The registry's invariant is an invariant of the engine.
THEOREM EngineKeepsRegistry == EngineSpec => []RegistryInv
<1>1. EngineInit => RegistryInv
  BY InitInv DEF EngineInit
<1>2. RegistryInv /\ [EngineNext]_engineVars => RegistryInv'
  BY EngineStep, NextInv
<1>. QED
  BY <1>1, <1>2, PTL DEF EngineSpec

\* The engine implements the registry's specification: its threads are one of
\* the schedules that specification allows.
THEOREM EngineRefinesRegistry == EngineSpec => ImplementsRegistry
<1>1. EngineInit => RegistryInit
  BY DEF EngineInit
<1>2. RegistryInv /\ [EngineNext]_engineVars => [RegistryNext]_registryVars
  BY EngineStep
<1>. QED
  BY <1>1, <1>2, EngineKeepsRegistry, PTL
     DEF EngineSpec, RegistrySpec, ImplementsRegistry
-----------------------------------------------------------------------------
(* Clients that are gone *)

QueuedMessage ==
  [type : {"Ping", "Disconnect", "Quality", "Response", "Notice", "Image"},
   mask : SUBSET (Index \cup {NoIndex}), for : SUBSET ClientId]

Instruction == [type : {"Request", "Input", "Quality", "Pong"}, from : ClientId, quality : Nat]

\* Every variable of the loop and of the queues stays in its range.
QueuesOK ==
  /\ instructions \in Seq(Instruction)
  /\ messages \in Seq(QueuedMessage)
  /\ pc = "handle" => current.from \in ClientId /\ current.index \in Index
  /\ heard \subseteq ClientId
  /\ remote \in [ClientId -> {"new", "up", "down"}]

\* A client in the registry has asked to connect.
KnownAreNotNew == \A c \in clients : remote[c] # "new"

\* Only a client can be waited for, and none whose pong was handled in this turn.
OnlyClientsPonder == \A c \in ClientId \ clients : pingStatus[c] = "WaitingToPing"
HeardAreNotAwaited == \A c \in heard \cap clients : pingStatus[c] # "WaitingForPong"

\* The clients for which no message is made any more.
Departed ==
  {c \in ClientId : /\ c \notin clients
                    /\ remote[c] # "new"
                    /\ pc = "handle" => c # current.from}
Gone ==
  \A n \in DOMAIN messages : messages[n].type = "Disconnect" => messages[n].for \subseteq Departed

EngineInv ==
  /\ RegistryInv
  /\ QueuesOK
  /\ KnownAreNotNew
  /\ OnlyClientsPonder
  /\ HeardAreNotAwaited
  /\ Gone
  /\ NothingAfterDisconnect

-----------------------------------------------------------------------------
(* Sequences of messages *)

\* Nothing in s stands behind a Disconnect of its addressees.
DisconnectLast(s) ==
  \A i, j \in DOMAIN s : i < j /\ s[i].type = "Disconnect" => s[i].for \cap s[j].for = {}

LEMMA AppendMessages ==
  ASSUME QueuesOK, Gone, NothingAfterDisconnect,
         NEW t \in Seq(QueuedMessage), messages' = messages \o t,
         Departed \subseteq Departed',
         \A i \in DOMAIN t : t[i].for \cap Departed = {},
         \A i \in DOMAIN t : t[i].type = "Disconnect" => t[i].for \subseteq Departed',
         DisconnectLast(t)
  PROVE  messages' \in Seq(QueuedMessage) /\ Gone' /\ NothingAfterDisconnect'
<1> DEFINE n == Len(messages)
<1>1. /\ messages' \in Seq(QueuedMessage)
      /\ n \in Nat /\ Len(t) \in Nat
      /\ DOMAIN messages' = 1 .. n + Len(t)
      /\ \A i \in 1..n : i \in DOMAIN messages /\ messages'[i] = messages[i]
      /\ \A i \in (1 .. n + Len(t)) \ (1..n) : i - n \in DOMAIN t /\ messages'[i] = t[i - n]
  BY DEF QueuesOK
<1> HIDE DEF n
<1>2. Gone'
  <2>1. SUFFICES ASSUME NEW i \in DOMAIN messages', messages'[i].type = "Disconnect"
                 PROVE  messages'[i].for \subseteq Departed'
    BY DEF Gone
  <2>2. CASE i \in 1..n
    BY <2>1, <2>2, <1>1 DEF Gone
  <2>3. CASE i \notin 1..n
    BY <2>1, <2>3, <1>1
  <2> QED BY <2>2, <2>3
<1>3. NothingAfterDisconnect'
  <2>1. SUFFICES ASSUME NEW i \in DOMAIN messages', NEW j \in DOMAIN messages', i < j,
                        messages'[i].type = "Disconnect"
                 PROVE  messages'[i].for \cap messages'[j].for = {}
    BY DEF NothingAfterDisconnect
  <2>2. CASE j \in 1..n
    <3>1. i \in 1..n
      BY <2>1, <2>2, <1>1
    <3> QED BY <2>1, <2>2, <3>1, <1>1 DEF NothingAfterDisconnect
  <2>3. CASE i \in 1..n /\ j \notin 1..n
    <3>1. messages'[i].for \subseteq Departed
      BY <2>1, <2>3, <1>1 DEF Gone
    <3>2. messages'[j].for \cap Departed = {}
      BY <2>1, <2>3, <1>1
    <3> QED BY <3>1, <3>2
  <2>4. CASE i \notin 1..n /\ j \notin 1..n
    <3>1. /\ i - n \in DOMAIN t /\ j - n \in DOMAIN t
          /\ messages'[i] = t[i - n] /\ messages'[j] = t[j - n]
      BY <2>4, <1>1
    <3>2. i - n < j - n
      BY <2>1, <1>1
    <3> QED BY <2>1, <3>1, <3>2 DEF DisconnectLast
  <2>5. i \notin 1..n => j \notin 1..n
    BY <2>1, <1>1
  <2> QED BY <2>2, <2>3, <2>4, <2>5
<1> QED BY <1>1, <1>2, <1>3

\* No Disconnect among them: they are for clients that have not departed.
LEMMA AppendForLive ==
  ASSUME QueuesOK, Gone, NothingAfterDisconnect,
         NEW t \in Seq(QueuedMessage), messages' = messages \o t,
         Departed \subseteq Departed',
         \A i \in DOMAIN t : t[i].for \cap Departed = {} /\ t[i].type # "Disconnect"
  PROVE  messages' \in Seq(QueuedMessage) /\ Gone' /\ NothingAfterDisconnect'
<1>1. DisconnectLast(t)
  BY DEF DisconnectLast
<1> QED BY <1>1, AppendMessages

LEMMA AppendOne ==
  ASSUME QueuesOK, Gone, NothingAfterDisconnect,
         NEW m \in QueuedMessage, messages' = Append(messages, m),
         Departed \subseteq Departed', m.for \cap Departed = {}, m.type # "Disconnect"
  PROVE  messages' \in Seq(QueuedMessage) /\ Gone' /\ NothingAfterDisconnect'
<1>1. /\ <<m>> \in Seq(QueuedMessage) /\ messages' = messages \o <<m>>
      /\ \A i \in DOMAIN <<m>> : <<m>>[i] = m
  BY DEF QueuesOK
<1> QED BY <1>1, AppendForLive

LEMMA KeepMessages ==
  ASSUME QueuesOK, Gone, NothingAfterDisconnect, UNCHANGED messages,
         Departed \subseteq Departed'
  PROVE  messages' \in Seq(QueuedMessage) /\ Gone' /\ NothingAfterDisconnect'
<1>1. Gone'
  BY DEF Gone
<1> QED BY <1>1 DEF QueuesOK, NothingAfterDisconnect

LEMMA TakeMessage ==
  ASSUME QueuesOK, Gone, NothingAfterDisconnect, messages # <<>>, messages' = Tail(messages),
         Departed \subseteq Departed'
  PROVE  messages' \in Seq(QueuedMessage) /\ Gone' /\ NothingAfterDisconnect'
<1>1. /\ messages' \in Seq(QueuedMessage)
      /\ \A i \in DOMAIN messages' : /\ i \in Nat /\ i + 1 \in DOMAIN messages
                                     /\ messages'[i] = messages[i + 1]
  BY DEF QueuesOK
<1>2. Gone'
  BY <1>1 DEF Gone
<1>3. NothingAfterDisconnect'
  <2>1. SUFFICES ASSUME NEW i \in DOMAIN messages', NEW j \in DOMAIN messages', i < j,
                        messages'[i].type = "Disconnect"
                 PROVE  messages'[i].for \cap messages'[j].for = {}
    BY DEF NothingAfterDisconnect
  <2>2. i + 1 < j + 1
    BY <2>1, <1>1
  <2> QED BY <2>1, <2>2, <1>1 DEF NothingAfterDisconnect
<1> QED BY <1>1, <1>2, <1>3

\* A finite set as a sequence.
LEMMA SeqOfSet ==
  ASSUME NEW S, IsFiniteSet(S)
  PROVE  /\ SetToSeq(S) \in Seq(S)
         /\ \A i, j \in DOMAIN SetToSeq(S) : SetToSeq(S)[i] = SetToSeq(S)[j] => i = j
<1>1. Cardinality(S) \in Nat /\ \E f \in [1..Cardinality(S) -> S] : IsInjective(f)
  BY FS_CardinalityType DEF ExistsBijection, Bijection, Injection
<1>2. SetToSeq(S) \in [1..Cardinality(S) -> S] /\ IsInjective(SetToSeq(S))
  BY <1>1 DEF SetToSeq
<1> QED BY <1>1, <1>2 DEF IsInjective

-----------------------------------------------------------------------------
(* What the registry sends *)

LEMMA MessageFinite == IsFiniteSet(Message)
<1> DEFINE T == {"Ping", "Disconnect", "Quality"}
           Q == Quality \cup {0}
           P == (T \X Index) \X Q
           f == [p \in P |-> [type |-> p[1][1], index |-> p[1][2], quality |-> p[2]]]
<1>1. IsFiniteSet(T)
  <2>1. IsFiniteSet({"Ping"})
    BY FS_Singleton
  <2>2. IsFiniteSet({"Ping"} \cup {"Disconnect"})
    BY <2>1, FS_AddElement
  <2>3. IsFiniteSet(({"Ping"} \cup {"Disconnect"}) \cup {"Quality"})
    BY <2>2, FS_AddElement
  <2>4. T = ({"Ping"} \cup {"Disconnect"}) \cup {"Quality"}
    OBVIOUS
  <2> QED BY <2>3, <2>4
<1>2. IsFiniteSet(Index) /\ IsFiniteSet(Q)
  <2>1. IsFiniteSet(Index) /\ IsFiniteSet(Quality)
    BY FS_Interval, RegistryAssumption DEF Index, Quality
  <2> QED BY <2>1, FS_AddElement
<1>3. Message = [type : T, index : Index, quality : Q]
  BY DEF Message
<1> HIDE DEF T, Q
<1>4. IsFiniteSet(P)
  <2>1. IsFiniteSet(T \X Index)
    BY <1>1, <1>2, FS_Product
  <2> QED BY <2>1, <1>2, FS_Product
<1>5. f \in [P -> Message]
  <2>1. ASSUME NEW p \in P
        PROVE  [type |-> p[1][1], index |-> p[1][2], quality |-> p[2]] \in Message
    <3>1. p[1] \in T \X Index /\ p[2] \in Q
      OBVIOUS
    <3>2. p[1][1] \in T /\ p[1][2] \in Index
      BY <3>1
    <3> QED BY <3>1, <3>2, <1>3
  <2> QED BY <2>1
<1>6. ASSUME NEW m \in Message PROVE \E p \in P : f[p] = m
  <2> DEFINE p == <<<<m.type, m.index>>, m.quality>>
  <2>1. p \in P
    BY <1>3
  <2>2. f[p] = [type |-> m.type, index |-> m.index, quality |-> m.quality]
    BY <2>1
  <2>3. f[p] = m
    BY <2>2, <1>3
  <2> QED BY <2>1, <2>3
<1>7. f \in Surjection(P, Message)
  BY <1>5, <1>6 DEF Surjection
<1> QED BY <1>4, <1>7, FS_Surjection

\* Each message goes to the client that holds its bit, and no two to the same client
\* are the same.
LEMMA RegistrySends ==
  ASSUME RegistryInv, sent' \subseteq Message,
         \A m \in sent' : \E c \in clients : index[c] = m.index
  PROVE  /\ SentByRegistry \in Seq(QueuedMessage)
         /\ \A i \in DOMAIN SentByRegistry : \E m \in sent' : \E c \in clients :
              index[c] = m.index /\ SentByRegistry[i] = ToClient(m.type, m.index, c)
         /\ \A i, j \in DOMAIN SentByRegistry :
              SentByRegistry[i] = SentByRegistry[j] => i = j
<1> DEFINE Holder(m) == CHOOSE c \in clients : index[c] = m.index
           S == {ToClient(m.type, m.index, Holder(m)) : m \in sent'}
           f == [m \in sent' |-> ToClient(m.type, m.index, Holder(m))]
<1>1. \A m \in sent' : Holder(m) \in clients /\ index[Holder(m)] = m.index
  OBVIOUS
<1>2. SentByRegistry = SetToSeq(S)
  BY DEF SentByRegistry
<1>3. IsFiniteSet(S)
  <2>1. IsFiniteSet(sent')
    BY MessageFinite, FS_Subset
  <2>2. f \in Surjection(sent', S)
    BY DEF Surjection
  <2> QED BY <2>1, <2>2, FS_Surjection
<1> HIDE DEF Holder
<1>4. \A x \in S : \E m \in sent' : \E c \in clients :
        index[c] = m.index /\ x = ToClient(m.type, m.index, c)
  BY <1>1
<1>5. S \subseteq QueuedMessage
  <2>1. ASSUME NEW m \in sent', NEW c \in clients
        PROVE  ToClient(m.type, m.index, c) \in QueuedMessage
    BY DEF ToClient, QueuedMessage, Message, RegistryInv, TypeOK
  <2> QED BY <2>1, <1>4
<1> HIDE DEF S
<1>6. /\ SetToSeq(S) \in Seq(S)
      /\ \A i, j \in DOMAIN SetToSeq(S) : SetToSeq(S)[i] = SetToSeq(S)[j] => i = j
  BY <1>3, SeqOfSet
<1>7. SetToSeq(S) \in Seq(QueuedMessage) /\ \A i \in DOMAIN SetToSeq(S) : SetToSeq(S)[i] \in S
  BY <1>5, <1>6
<1> QED BY <1>2, <1>4, <1>6, <1>7

-----------------------------------------------------------------------------
(* Steps *)

\* A method of the registry called from the loop takes clients away at most.
LEMMA LoopTakesClients ==
  ASSUME Controller
  PROVE  clients' \subseteq clients /\ UNCHANGED remoteVars
<1>1. CASE \/ BeginTurn \/ LookUpClient \/ HandleRequest \/ HandleInput \/ EndInstructions \/ Events
           \/ UpdateWindows \/ RefreshMouse
  BY <1>1 DEF BeginTurn, LookUpClient, HandleRequest, HandleInput, EndInstructions, Events,
              UpdateWindows, RefreshMouse, registryVars, clientVars
<1>2. CASE HandlePong
  BY <1>2 DEF HandlePong, OnPongReceived, registryVars, clientVars
<1>3. CASE HandleQuality
  BY <1>3 DEF HandleQuality, SetClientMaxQuality, registryVars, clientVars
<1>4. CASE Pings
  BY <1>4 DEF Pings, HandleClientPings, Forget
<1>5. CASE VerifyQuality
  BY <1>5 DEF VerifyQuality, PerformQualityVerification, clientVars
<1> QED BY <1>1, <1>2, <1>3, <1>4, <1>5 DEF Controller

\* The loop looks an instruction up or goes on with none.
LEMMA LoopLooksUp ==
  ASSUME EngineInv, Controller
  PROVE  pc' = "handle" =>
           current'.from \in clients /\ current'.from \in ClientId /\ current'.index \in Index
<1>1. CASE LookUpClient
  <2> DEFINE i == Head(instructions)
  <2>1. i.from \in ClientId
    <3>1. i \in Instruction
      BY <1>1 DEF LookUpClient, EngineInv, QueuesOK
    <3> QED BY <3>1 DEF Instruction
  <2> HIDE DEF i
  <2>2. pc' = "handle" =>
          /\ i.from \in clients
          /\ current' = [type |-> i.type, from |-> i.from, index |-> index[i.from],
                        quality |-> i.quality]
    BY <1>1 DEF LookUpClient, i
  <2>3. i.from \in clients => index[i.from] \in Index
    BY <2>1 DEF EngineInv, RegistryInv, TypeOK
  <2> QED BY <2>1, <2>2, <2>3
<1>2. CASE ~LookUpClient
  BY <1>2 DEF Controller, BeginTurn, HandleRequest, HandleInput, HandlePong, HandleQuality,
              EndInstructions, Events, Pings, UpdateWindows, VerifyQuality, RefreshMouse, Handled
<1> QED BY <1>1, <1>2

\* Who enters the registry was new, and nobody is new again.
LEMMA EntersOnce ==
  ASSUME EngineInv, [EngineNext]_engineVars
  PROVE  /\ \A c \in clients' \ clients : remote[c] = "new" /\ remote'[c] # "new"
         /\ \A c \in ClientId : remote[c] # "new" => remote'[c] # "new"
         /\ remote' \in [ClientId -> {"new", "up", "down"}]
         /\ clients' \subseteq ClientId
<1> USE DEF QueuesOK
<1>0. clients \subseteq ClientId /\ remote \in [ClientId -> {"new", "up", "down"}]
  BY DEF EngineInv, RegistryInv, TypeOK
<1>1. CASE Controller
  BY <1>0, <1>1, LoopTakesClients DEF remoteVars
<1>2. CASE Publish
  BY <1>0, <1>2 DEF Publish, registryVars, clientVars, Down
<1>3. CASE ClockTick
  BY <1>0, <1>3 DEF ClockTick, Tick, clientVars, remoteVars
<1>4. CASE \E c \in ClientId : Connect(c)
  BY <1>0, <1>4 DEF Connect, AddClient
<1>5. CASE \E c \in ClientId : RequestDisconnect(c) \/ Crash(c)
  BY <1>0, <1>5 DEF RequestDisconnect, RemoveClient, Forget, Crash, Down, registryVars, clientVars
<1>6. CASE \/ \E c \in ClientId : SendRequest(c) \/ SendInput(c) \/ SendPong(c)
           \/ \E c \in ClientId, q \in QualityIndex : SendQuality(c, q)
  BY <1>0, <1>6 DEF SendRequest, SendInput, SendPong, SendQuality, registryVars, clientVars,
              remoteVars
<1>7. CASE UNCHANGED engineVars
  BY <1>0, <1>7 DEF engineVars, registryVars, clientVars, remoteVars
<1> QED BY <1>1, <1>2, <1>3, <1>4, <1>5, <1>6, <1>7 DEF EngineNext

\* Only the loop writes its own variables.
LEMMA OthersLeaveLoop ==
  ASSUME [EngineNext]_engineVars, ~Controller
  PROVE  UNCHANGED mainVars
BY DEF EngineNext, Publish, ClockTick, Connect, RequestDisconnect, Crash, SendRequest, SendInput,
       SendPong, SendQuality, engineVars

LEMMA DepartedStay ==
  ASSUME EngineInv, [EngineNext]_engineVars
  PROVE  Departed \subseteq Departed' /\ KnownAreNotNew'
<1>1. KnownAreNotNew'
  BY EntersOnce DEF EngineInv, KnownAreNotNew
<1>2. ASSUME NEW c \in Departed
      PROVE  c \in Departed'
  <2>1. c \in ClientId /\ c \notin clients' /\ remote'[c] # "new"
    BY EntersOnce DEF Departed
  <2>2. pc' = "handle" => c # current'.from
    <3>1. CASE Controller
      BY <3>1, LoopLooksUp DEF Departed
    <3>2. CASE ~Controller
      BY <3>2, OthersLeaveLoop DEF Departed, mainVars
    <3> QED BY <3>1, <3>2
  <2> QED BY <2>1, <2>2 DEF Departed
<1> QED BY <1>1, <1>2

\* The loop and the queues, but for the messages.
LEMMA QueuesStep ==
  ASSUME EngineInv, [EngineNext]_engineVars, messages' \in Seq(QueuedMessage)
  PROVE  QueuesOK'
<1> USE DEF EngineInv, QueuesOK
<1>1. instructions' \in Seq(Instruction)
  <2>1. ASSUME NEW c \in ClientId, NEW type \in {"Request", "Input", "Quality", "Pong"},
               NEW q \in Nat, Collect(c, type, q)
        PROVE  instructions' \in Seq(Instruction)
    <3>1. [type |-> type, from |-> c, quality |-> q] \in Instruction
      BY DEF Instruction
    <3> QED BY <2>1, <3>1 DEF Collect
  <2>2. CASE \E c \in ClientId : SendRequest(c) \/ SendInput(c) \/ SendPong(c)
    BY <2>1, <2>2 DEF SendRequest, SendInput, SendPong
  <2>3. CASE \E c \in ClientId, q \in QualityIndex : SendQuality(c, q)
    BY <2>1, <2>3, EngineAssumption DEF SendQuality
  <2>4. CASE LookUpClient
    BY <2>4 DEF LookUpClient
  <2>5. CASE Controller /\ ~LookUpClient
    BY <2>5 DEF Controller, BeginTurn, HandleRequest, HandleInput, HandlePong, HandleQuality,
                EndInstructions, Events, Pings, UpdateWindows, VerifyQuality, RefreshMouse
  <2>6. CASE \/ Publish \/ ClockTick \/ UNCHANGED engineVars
             \/ \E c \in ClientId : Connect(c) \/ RequestDisconnect(c) \/ Crash(c)
    BY <2>6 DEF Publish, ClockTick, Connect, RequestDisconnect, Crash, engineVars
  <2> QED BY <2>2, <2>3, <2>4, <2>5, <2>6 DEF EngineNext
<1>2. heard' \subseteq ClientId
  <2>1. CASE Controller
    <3>1. CASE HandlePong
      BY <3>1 DEF HandlePong
    <3>2. CASE ~HandlePong
      BY <2>1, <3>2 DEF Controller, BeginTurn, LookUpClient, HandleRequest, HandleInput,
                HandleQuality, EndInstructions, Events, Pings, UpdateWindows, VerifyQuality,
                RefreshMouse
    <3> QED BY <3>1, <3>2
  <2>2. CASE ~Controller
    BY <2>2, OthersLeaveLoop DEF mainVars
  <2> QED BY <2>1, <2>2
<1>3. pc' = "handle" => current'.from \in ClientId /\ current'.index \in Index
  <2>1. CASE Controller
    BY <2>1, LoopLooksUp
  <2>2. CASE ~Controller
    BY <2>2, OthersLeaveLoop DEF mainVars
  <2> QED BY <2>1, <2>2
<1>4. remote' \in [ClientId -> {"new", "up", "down"}]
  BY EntersOnce
<1> QED BY <1>1, <1>2, <1>3, <1>4

\* A pong ends the wait of its client, and the pings of the turn come after it.
LEMMA PonderStep ==
  ASSUME EngineInv, [EngineNext]_engineVars
  PROVE  OnlyClientsPonder' /\ HeardAreNotAwaited'
<1> USE DEF OnlyClientsPonder, HeardAreNotAwaited
<1>0. /\ clients \subseteq ClientId /\ heard \subseteq ClientId
      /\ pingStatus \in [ClientId -> {"WaitingToPing", "WaitingForPong"}]
      /\ OnlyClientsPonder /\ HeardAreNotAwaited
  BY DEF EngineInv, QueuesOK, RegistryInv, TypeOK
<1>1. CASE \/ BeginTurn \/ LookUpClient \/ HandleRequest \/ HandleInput \/ EndInstructions \/ Events
           \/ UpdateWindows \/ RefreshMouse
  BY <1>0, <1>1 DEF BeginTurn, LookUpClient, HandleRequest, HandleInput, EndInstructions, Events,
              UpdateWindows, RefreshMouse, registryVars, clientVars, pingVars
<1>2. CASE HandlePong
  <2>1. CASE OnPongReceived(current.from)
    BY <1>0, <1>2, <2>1 DEF HandlePong, OnPongReceived, clientVars
  <2>2. CASE current.from \notin clients /\ UNCHANGED registryVars
    BY <1>0, <1>2, <2>2 DEF HandlePong, registryVars, clientVars, pingVars
  <2> QED BY <1>2, <2>1, <2>2 DEF HandlePong
<1>3. CASE HandleQuality
  BY <1>0, <1>3 DEF HandleQuality, SetClientMaxQuality, registryVars, clientVars, pingVars
<1>4. CASE Pings
  BY <1>0, <1>4 DEF Pings, HandleClientPings, Forget, RequiresPing
<1>5. CASE VerifyQuality
  BY <1>0, <1>5 DEF VerifyQuality, PerformQualityVerification, clientVars, pingVars
<1>6. CASE Publish
  BY <1>0, <1>6 DEF Publish, registryVars, clientVars, pingVars, mainVars
<1>7. CASE ClockTick
  BY <1>0, <1>7 DEF ClockTick, Tick, clientVars, mainVars
<1>8. CASE \E c \in ClientId : Connect(c)
  BY <1>0, <1>8 DEF Connect, AddClient, pingVars, mainVars
<1>9. CASE \E c \in ClientId : RequestDisconnect(c) \/ Crash(c)
  BY <1>0, <1>9 DEF RequestDisconnect, RemoveClient, Forget, Without, Crash, registryVars,
              clientVars, pingVars, mainVars
<1>10. CASE \/ \E c \in ClientId : SendRequest(c) \/ SendInput(c) \/ SendPong(c)
            \/ \E c \in ClientId, q \in QualityIndex : SendQuality(c, q)
  BY <1>0, <1>10 DEF SendRequest, SendInput, SendPong, SendQuality, registryVars, clientVars,
              pingVars, mainVars
<1>11. CASE UNCHANGED engineVars
  BY <1>0, <1>11 DEF engineVars, registryVars, clientVars, pingVars, mainVars
<1> QED BY <1>1, <1>2, <1>3, <1>4, <1>5, <1>6, <1>7, <1>8, <1>9, <1>10, <1>11
           DEF EngineNext, Controller

\* What the queue of messages must be after a step.
MessagesOK == messages \in Seq(QueuedMessage) /\ Gone /\ NothingAfterDisconnect

\* Who is in the registry, or has an instruction handled, has not departed.
LEMMA Addressees ==
  ASSUME EngineInv
  PROVE  /\ clients \cap Departed = {} /\ clients \subseteq ClientId
         /\ \A q \in Quality : groupClients[q] \subseteq clients /\ groupMask[q] \subseteq Index
         /\ \A c \in clients : index[c] \in Index
         /\ pc = "handle" => /\ current.from \in ClientId \ Departed
                             /\ current.index \in Index
<1>1. clients \subseteq ClientId
  BY DEF EngineInv, RegistryInv, TypeOK
<1>2. ASSUME NEW q \in Quality
      PROVE  groupClients[q] \subseteq clients /\ groupMask[q] \subseteq Index
  <2>1. UNION {groupClients[r] : r \in Quality} = clients
    BY DEF EngineInv, RegistryInv, GroupInv, GroupsPartitionClients
  <2>2. groupClients[q] \subseteq UNION {groupClients[r] : r \in Quality}
    OBVIOUS
  <2>3. groupMask \in [Quality -> SUBSET Index]
    BY DEF EngineInv, RegistryInv, TypeOK
  <2> QED BY <2>1, <2>2, <2>3
<1>3. \A c \in clients : index[c] \in Index
  BY DEF EngineInv, RegistryInv, TypeOK
<1> QED BY <1>1, <1>2, <1>3 DEF EngineInv, QueuesOK, Departed

LEMMA NotifyStep ==
  ASSUME EngineInv, Departed \subseteq Departed', Notify
  PROVE  MessagesOK'
<1>1. ToAll \in QueuedMessage /\ ToAll.for \cap Departed = {} /\ ToAll.type # "Disconnect"
  BY Addressees DEF ToAll, QueuedMessage
<1> QED BY <1>1, AppendOne, KeepMessages DEF Notify, EngineInv, MessagesOK

LEMMA RequestStep ==
  ASSUME EngineInv, Departed \subseteq Departed', HandleRequest
  PROVE  MessagesOK'
<1> DEFINE m == ToClient("Response", current.index, current.from)
<1>1. m \in QueuedMessage /\ m.for \cap Departed = {} /\ m.type # "Disconnect"
  BY Addressees DEF HandleRequest, ToClient, QueuedMessage
<1>2. messages' = Append(messages, m)
  BY DEF HandleRequest
<1> QED BY <1>1, <1>2, AppendOne DEF EngineInv, MessagesOK

LEMMA InputStep ==
  ASSUME EngineInv, Departed \subseteq Departed', HandleInput
  PROVE  MessagesOK'
<1>1. CASE Notify
  BY <1>1, NotifyStep
<1>2. CASE ~Notify
  <2> DEFINE m == [ToAll EXCEPT !.mask = @ \ {current.index}, !.for = @ \ {current.from}]
             n == ToClient("Notice", current.index, current.from)
  <2>1. m \in QueuedMessage /\ m.for \cap Departed = {} /\ m.type # "Disconnect"
    BY Addressees DEF ToAll, QueuedMessage
  <2>2. n \in QueuedMessage /\ n.for \cap Departed = {} /\ n.type # "Disconnect"
    BY Addressees DEF HandleInput, ToClient, QueuedMessage
  <2>3. messages' = messages \o <<m, n>>
    BY <1>2 DEF HandleInput
  <2> HIDE DEF m, n
  <2>4. /\ <<m, n>> \in Seq(QueuedMessage)
        /\ \A i \in DOMAIN <<m, n>> : <<m, n>>[i] = m \/ <<m, n>>[i] = n
    BY <2>1, <2>2
  <2> QED BY <2>1, <2>2, <2>3, <2>4, AppendForLive DEF EngineInv, MessagesOK
<1> QED BY <1>1, <1>2

LEMMA ImagesFinite ==
  ASSUME NEW S \in SUBSET Quality
  PROVE  SetToSeq({ToGroup(q) : q \in S}) \in Seq({ToGroup(q) : q \in S})
<1> DEFINE G == {ToGroup(q) : q \in S}
           f == [q \in S |-> ToGroup(q)]
<1>1. IsFiniteSet(Quality)
  BY FS_Interval, RegistryAssumption DEF Quality
<1>2. IsFiniteSet(S)
  BY <1>1, FS_Subset
<1>3. f \in Surjection(S, G)
  BY DEF Surjection
<1> QED BY <1>2, <1>3, FS_Surjection, SeqOfSet

LEMMA ImagesStep ==
  ASSUME EngineInv, Departed \subseteq Departed', UpdateWindows
  PROVE  MessagesOK'
<1>1. PICK S \in SUBSET groups : messages' = messages \o SetToSeq({ToGroup(q) : q \in S})
  BY DEF UpdateWindows
<1> DEFINE G == {ToGroup(q) : q \in S}
<1>2. S \subseteq Quality
  BY <1>1 DEF EngineInv, RegistryInv, TypeOK
<1>3. SetToSeq(G) \in Seq(G)
  BY <1>2, ImagesFinite
<1>4. \A m \in G : m \in QueuedMessage /\ m.for \cap Departed = {} /\ m.type # "Disconnect"
  BY <1>2, Addressees DEF ToGroup, QueuedMessage
<1>5. messages' = messages \o SetToSeq(G)
  BY <1>1
<1> HIDE DEF G
<1>6. /\ SetToSeq(G) \in Seq(QueuedMessage)
      /\ \A i \in DOMAIN SetToSeq(G) : SetToSeq(G)[i] \in G
  BY <1>3, <1>4
<1> QED BY <1>4, <1>5, <1>6, AppendForLive DEF EngineInv, MessagesOK

\* A call that announces qualities sends nothing else.
LEMMA AnnouncementsStep ==
  ASSUME EngineInv, Departed \subseteq Departed', sent' \subseteq Message,
         messages' = messages \o SentByRegistry,
         \A m \in sent' : m.type = "Quality" /\ \E c \in clients : index[c] = m.index
  PROVE  MessagesOK'
<1>1. /\ SentByRegistry \in Seq(QueuedMessage)
      /\ \A i \in DOMAIN SentByRegistry : \E m \in sent' : \E c \in clients :
           index[c] = m.index /\ SentByRegistry[i] = ToClient(m.type, m.index, c)
  BY RegistrySends DEF EngineInv
<1>2. \A i \in DOMAIN SentByRegistry :
        SentByRegistry[i].for \cap Departed = {} /\ SentByRegistry[i].type # "Disconnect"
  BY <1>1, Addressees DEF ToClient
<1> QED BY <1>1, <1>2, AppendForLive DEF EngineInv, MessagesOK

\* Who times out has departed when the turn's images are made, and is sent one
\* Disconnect and no ping.
LEMMA PingsStep ==
  ASSUME EngineInv, Departed \subseteq Departed', KnownAreNotNew, sent' \subseteq Message, Pings
  PROVE  MessagesOK'
<1> DEFINE t == SentByRegistry
<1>1. /\ clients' = clients \ PongTimeout
      /\ sent' = {Disconnect(c) : c \in PongTimeout} \cup {Ping(c) : c \in RequiresPing}
      /\ messages' = messages \o t
      /\ pc' = "update" /\ UNCHANGED remoteVars
  BY DEF Pings, HandleClientPings, Forget
<1>2. /\ PongTimeout \subseteq clients /\ RequiresPing \subseteq clients
      /\ PongTimeout \cap RequiresPing = {}
  BY DEF PongTimeout, RequiresPing
<1>3. ASSUME NEW m \in sent', NEW c \in clients, index[c] = m.index
      PROVE  \/ m.type = "Disconnect" /\ c \in PongTimeout
             \/ m.type = "Ping" /\ c \in RequiresPing
  <2>1. \A d \in clients : index[d] = index[c] => d = c
    BY DEF EngineInv, RegistryInv, DistinctIndices
  <2> QED BY <1>1, <1>2, <1>3, <2>1 DEF Disconnect, Ping
<1>4. \A m \in sent' : \E c \in clients : index[c] = m.index
  BY <1>1, <1>2 DEF Disconnect, Ping
<1>5. /\ t \in Seq(QueuedMessage)
      /\ \A i \in DOMAIN t : \E m \in sent' : \E c \in clients :
           index[c] = m.index /\ t[i] = ToClient(m.type, m.index, c)
      /\ \A i, j \in DOMAIN t : t[i] = t[j] => i = j
  BY <1>4, RegistrySends DEF EngineInv
<1> HIDE DEF t
<1>6. ASSUME NEW i \in DOMAIN t
      PROVE  \E c \in clients :
               \/ t[i] = ToClient("Disconnect", index[c], c) /\ c \in PongTimeout
               \/ t[i] = ToClient("Ping", index[c], c) /\ c \in RequiresPing
  <2>1. PICK m \in sent', c \in clients :
             index[c] = m.index /\ t[i] = ToClient(m.type, m.index, c)
    BY <1>5
  <2>2. \/ m.type = "Disconnect" /\ c \in PongTimeout
        \/ m.type = "Ping" /\ c \in RequiresPing
    BY <1>3, <2>1
  <2>3. CASE m.type = "Disconnect" /\ c \in PongTimeout
    <3>1. t[i] = ToClient("Disconnect", index[c], c)
      BY <2>1, <2>3
    <3> QED BY <3>1, <2>3
  <2>4. CASE m.type = "Ping" /\ c \in RequiresPing
    <3>1. t[i] = ToClient("Ping", index[c], c)
      BY <2>1, <2>4
    <3> QED BY <3>1, <2>4
  <2> QED BY <2>2, <2>3, <2>4
<1>7. \A i \in DOMAIN t : t[i].for \cap Departed = {}
  BY <1>6, Addressees DEF ToClient
<1>8. PongTimeout \subseteq Departed'
  BY <1>1, <1>2, Addressees DEF Departed, KnownAreNotNew, remoteVars
<1>9. \A i \in DOMAIN t : t[i].type = "Disconnect" => t[i].for \subseteq Departed'
  BY <1>6, <1>8 DEF ToClient
<1>10. DisconnectLast(t)
  <2>1. SUFFICES ASSUME NEW i \in DOMAIN t, NEW j \in DOMAIN t, i < j, t[i].type = "Disconnect"
                 PROVE  t[i].for \cap t[j].for = {}
    BY DEF DisconnectLast
  <2>2. PICK c \in PongTimeout : t[i] = ToClient("Disconnect", index[c], c)
    BY <1>6, <2>1 DEF ToClient
  <2>3. PICK d \in clients :
             \/ t[j] = ToClient("Disconnect", index[d], d)
             \/ t[j] = ToClient("Ping", index[d], d) /\ d \in RequiresPing
    BY <1>6
  <2>4. c # d
    <3>1. CASE d \in RequiresPing
      BY <3>1, <1>2, <2>2
    <3>2. CASE t[j] = ToClient("Disconnect", index[d], d)
      <4>1. i # j
        BY <2>1, <1>5
      <4> QED BY <4>1, <1>5, <2>2, <3>2
    <3> QED BY <2>3, <3>1, <3>2
  <2> QED BY <2>2, <2>3, <2>4 DEF ToClient
<1> QED BY <1>1, <1>5, <1>7, <1>9, <1>10, AppendMessages DEF EngineInv, MessagesOK

LEMMA MessagesStep ==
  ASSUME EngineInv, [EngineNext]_engineVars, RegistryInv', Departed \subseteq Departed'
  PROVE  MessagesOK'
<1>1. sent' \subseteq Message
  BY DEF RegistryInv, TypeOK
<1>2. CASE BeginTurn \/ LookUpClient \/ HandlePong \/ EndInstructions
  BY <1>2, KeepMessages DEF BeginTurn, LookUpClient, HandlePong, EndInstructions, EngineInv,
                            MessagesOK
<1>3. CASE Events \/ RefreshMouse
  BY <1>3, NotifyStep DEF Events, RefreshMouse
<1>4. CASE HandleQuality
  <2>1. CASE UNCHANGED messages
    BY <2>1, KeepMessages DEF EngineInv, MessagesOK
  <2>2. CASE ~UNCHANGED messages
    <3>1. /\ current.from \in clients /\ messages' = messages \o SentByRegistry
          /\ \A m \in sent' : m.type = "Quality" /\ m.index = index[current.from]
      BY <1>4, <2>2 DEF HandleQuality, SetClientMaxQuality, MoveClients, Announce, QualityMessage
    <3> QED BY <1>1, <3>1, AnnouncementsStep
  <2> QED BY <2>1, <2>2
<1>5. CASE VerifyQuality
  <2>1. PICK measured \in SUBSET clients : \E delta \in [measured -> {-1, 0, 1}] :
               PerformQualityVerification(delta)
    BY <1>5 DEF VerifyQuality
  <2>2. \A m \in sent' : m.type = "Quality" /\ \E c \in clients : index[c] = m.index
    BY <2>1 DEF PerformQualityVerification, MoveClients, Announce, QualityMessage
  <2> QED BY <1>1, <1>5, <2>2, AnnouncementsStep DEF VerifyQuality
<1>6. CASE Publish
  BY <1>6, TakeMessage DEF Publish, EngineInv, MessagesOK
<1>7. CASE \/ ClockTick \/ UNCHANGED engineVars
           \/ \E c \in ClientId : Connect(c) \/ RequestDisconnect(c) \/ Crash(c)
           \/ \E c \in ClientId : SendRequest(c) \/ SendInput(c) \/ SendPong(c)
           \/ \E c \in ClientId, q \in QualityIndex : SendQuality(c, q)
  <2>1. UNCHANGED messages
    BY <1>7 DEF ClockTick, engineVars, Connect, RequestDisconnect, Crash, SendRequest, SendInput,
                SendPong, SendQuality
  <2> QED BY <2>1, KeepMessages DEF EngineInv, MessagesOK
<1>8. CASE Pings
  <2>1. KnownAreNotNew
    BY DEF EngineInv
  <2> QED BY <1>1, <1>8, <2>1, PingsStep
<1> QED BY <1>2, <1>3, <1>4, <1>5, <1>6, <1>7, <1>8, RequestStep, InputStep, ImagesStep
           DEF EngineNext, Controller

LEMMA EngineInvInit == EngineInit => EngineInv
<1>1. EngineInit => RegistryInv
  BY InitInv DEF EngineInit
<1>2. EngineInit => KnownAreNotNew /\ OnlyClientsPonder /\ HeardAreNotAwaited
  BY DEF EngineInit, RegistryInit, KnownAreNotNew, OnlyClientsPonder, HeardAreNotAwaited
<1>3. EngineInit => QueuesOK
  BY DEF EngineInit, QueuesOK
<1>4. EngineInit => Gone /\ NothingAfterDisconnect
  BY DEF EngineInit, Gone, NothingAfterDisconnect
<1> QED BY <1>1, <1>2, <1>3, <1>4 DEF EngineInv

LEMMA EngineInvNext == EngineInv /\ [EngineNext]_engineVars => EngineInv'
<1> SUFFICES ASSUME EngineInv, [EngineNext]_engineVars
             PROVE  EngineInv'
  OBVIOUS
<1>1. RegistryInv'
  BY EngineStep, NextInv DEF EngineInv
<1>2. Departed \subseteq Departed' /\ KnownAreNotNew'
  BY DepartedStay
<1>3. MessagesOK'
  BY <1>1, <1>2, MessagesStep
<1>4. QueuesOK'
  BY <1>3, QueuesStep DEF MessagesOK
<1>5. OnlyClientsPonder' /\ HeardAreNotAwaited'
  BY PonderStep
<1> QED BY <1>1, <1>2, <1>3, <1>4, <1>5 DEF EngineInv, MessagesOK

\* The inductive invariant of the engine: the loop's variables and the queues stay
\* in their ranges, only a client is waited for, a client whose pong was handled is
\* not, and nobody who was sent Disconnect is dealt with any more.
THEOREM EngineInvariant == EngineSpec => []EngineInv
BY EngineInvInit, EngineInvNext, PTL DEF EngineSpec

\* Nothing made for a client is queued behind its Disconnect, for any number of
\* clients and whatever the connector, collector and publisher threads do between
\* two steps of the loop (run, handleClientPings, updateClientWindows).
THEOREM NothingFollowsDisconnect == EngineSpec => []NothingAfterDisconnect
<1>1. EngineInv => NothingAfterDisconnect
  BY DEF EngineInv
<1> QED BY <1>1, EngineInvariant, PTL

\* A client whose pong was handled in a turn of the loop is not removed by that
\* turn's pings (handleClientInstructions before handleClientPings).
THEOREM PongIsInTime == EngineSpec => PongSavesClient
<1>1. ASSUME EngineInv, [EngineNext]_engineVars, pc = "pings", pc' # pc
      PROVE  heard \cap (clients \ clients') = {}
  <2>1. Controller
    BY <1>1, OthersLeaveLoop DEF mainVars
  <2>2. Pings
    BY <1>1, <2>1 DEF Controller, BeginTurn, LookUpClient, HandleRequest, HandleInput, HandlePong,
                      HandleQuality, EndInstructions, Events, UpdateWindows, VerifyQuality,
                      RefreshMouse
  <2>3. clients \ clients' \subseteq PongTimeout
    BY <2>2 DEF Pings, HandleClientPings, Forget
  <2> QED BY <1>1, <2>3 DEF PongTimeout, EngineInv, HeardAreNotAwaited
<1>2. EngineInv /\ [EngineNext]_engineVars
        => [pc = "pings" /\ pc' # pc => heard \cap (clients \ clients') = {}]_engineVars
  BY <1>1
<1> QED BY <1>2, EngineInvariant, PTL DEF EngineSpec, PongSavesClient

-----------------------------------------------------------------------------
(* Whom a message misleads *)

\* The ids drawn so far.
Known == {c \in ClientId : remote[c] # "new"}

\* The mask of m has one bit for each client m was made for, and of those that are
\* in S the bit they hold.
Addresses(m, S, f, K) ==
  /\ m.for \subseteq K
  /\ \E h \in [m.for -> m.mask] :
       /\ \A c, d \in m.for : h[c] = h[d] => c = d
       /\ \A i \in m.mask : \E c \in m.for : h[c] = i
       /\ \A c \in m.for \cap S : f[c] = h[c]

Addressed(m) == m.type # "Notice" => Addresses(m, clients, index, Known)
MessagesAddressed == \A n \in DOMAIN messages : Addressed(messages[n])

\* The index looked up is that of the client, as long as it stays.
HandledIsKnown ==
  pc = "handle" => /\ current.from \in Known
                   /\ current.from \in clients => index[current.from] = current.index

AddressInv == EngineInv /\ MessagesAddressed /\ HandledIsKnown

\* A client keeps its bit while it stays.
LEMMA IndexStays ==
  ASSUME EngineInv, [EngineNext]_engineVars
  PROVE  \A c \in clients \cap clients' : index'[c] = index[c]
<1>0. clients \subseteq ClientId /\ index \in [ClientId -> Index \cup {NoIndex}]
  BY DEF EngineInv, RegistryInv, TypeOK
<1>1. CASE RegistryNext
  BY <1>0, <1>1 DEF RegistryNext, AddClient, RemoveClient, DisconnectAll, HandleClientPings,
       OnPongReceived, SetClientMaxQuality, PerformQualityVerification, Tick, Forget, Without,
       clientVars
<1>2. CASE UNCHANGED registryVars
  BY <1>2 DEF registryVars, clientVars
<1> QED BY <1>1, <1>2, EngineStep DEF EngineInv

\* What a step may add to the queue.
Made(m) ==
  \/ m.type = "Notice"
  \/ \E c \in clients : m = ToClient(m.type, index[c], c)
  \/ pc = "handle" /\ m = ToClient(m.type, current.index, current.from)
  \/ \E q \in Quality : m = ToGroup(q)

LEMMA MadeByAppend ==
  ASSUME QueuesOK, NEW t \in Seq(QueuedMessage), messages' = messages \o t,
         \A i \in DOMAIN t : Made(t[i])
  PROVE  \A n \in DOMAIN messages' :
           (\E k \in DOMAIN messages : messages'[n] = messages[k]) \/ Made(messages'[n])
<1> DEFINE l == Len(messages)
<1>1. /\ l \in Nat /\ Len(t) \in Nat
      /\ DOMAIN messages' = 1 .. l + Len(t)
      /\ \A i \in 1..l : i \in DOMAIN messages /\ messages'[i] = messages[i]
      /\ \A i \in (1 .. l + Len(t)) \ (1..l) : i - l \in DOMAIN t /\ messages'[i] = t[i - l]
  BY DEF QueuesOK
<1> HIDE DEF l
<1>2. ASSUME NEW n \in DOMAIN messages'
      PROVE  (\E k \in DOMAIN messages : messages'[n] = messages[k]) \/ Made(messages'[n])
  <2>1. CASE n \in 1..l
    BY <2>1, <1>1
  <2>2. CASE n \notin 1..l
    <3>1. n - l \in DOMAIN t /\ messages'[n] = t[n - l]
      BY <2>2, <1>1
    <3>2. Made(t[n - l])
      BY <3>1
    <3> QED BY <3>1, <3>2
  <2> QED BY <2>1, <2>2
<1> QED BY <1>2

\* What the registry sends is made for the holders of the bits.
LEMMA MadeByRegistry ==
  ASSUME EngineInv, sent' \subseteq Message, messages' = messages \o SentByRegistry,
         \A m \in sent' : \E c \in clients : index[c] = m.index
  PROVE  \A n \in DOMAIN messages' :
           (\E k \in DOMAIN messages : messages'[n] = messages[k]) \/ Made(messages'[n])
<1>1. /\ SentByRegistry \in Seq(QueuedMessage)
      /\ \A i \in DOMAIN SentByRegistry : \E m \in sent' : \E c \in clients :
           index[c] = m.index /\ SentByRegistry[i] = ToClient(m.type, m.index, c)
  BY RegistrySends DEF EngineInv
<1>2. ASSUME NEW i \in DOMAIN SentByRegistry
      PROVE  Made(SentByRegistry[i])
  <2>1. PICK m \in sent', c \in clients :
               index[c] = m.index /\ SentByRegistry[i] = ToClient(m.type, m.index, c)
    BY <1>1
  <2>2. SentByRegistry[i].type = m.type
    BY <2>1 DEF ToClient
  <2>3. SentByRegistry[i] = ToClient(SentByRegistry[i].type, index[c], c)
    BY <2>1, <2>2
  <2> QED BY <2>3 DEF Made
<1> QED BY <1>1, <1>2, MadeByAppend DEF EngineInv

LEMMA MadeByStep ==
  ASSUME EngineInv, [EngineNext]_engineVars, RegistryInv'
  PROVE  \A n \in DOMAIN messages' :
           (\E k \in DOMAIN messages : messages'[n] = messages[k]) \/ Made(messages'[n])
<1> DEFINE Goal == \A n \in DOMAIN messages' :
             (\E k \in DOMAIN messages : messages'[n] = messages[k]) \/ Made(messages'[n])
<1>1. sent' \subseteq Message /\ QueuesOK
  BY DEF RegistryInv, TypeOK, EngineInv
<1>2. UNCHANGED messages => Goal
  OBVIOUS
<1>3. ASSUME NEW m \in QueuedMessage, Made(m), messages' = Append(messages, m)
      PROVE  Goal
  <2>1. /\ <<m>> \in Seq(QueuedMessage) /\ messages' = messages \o <<m>>
        /\ \A i \in DOMAIN <<m>> : <<m>>[i] = m
    BY <1>1, <1>3 DEF QueuesOK
  <2>2. \A i \in DOMAIN <<m>> : Made(<<m>>[i])
    BY <1>3, <2>1
  <2> QED BY <1>1, <2>1, <2>2, MadeByAppend
<1>4. Notify => Goal
  <2>1. ToAll \in QueuedMessage /\ Made(ToAll)
    BY Addressees DEF ToAll, QueuedMessage, Made
  <2> QED BY <1>2, <1>3, <2>1 DEF Notify
<1>5. HandleRequest => Goal
  <2> SUFFICES ASSUME HandleRequest PROVE Goal
    OBVIOUS
  <2> DEFINE m == ToClient("Response", current.index, current.from)
  <2>1. m \in QueuedMessage
    BY Addressees DEF HandleRequest, ToClient, QueuedMessage
  <2>2. m = ToClient(m.type, current.index, current.from)
    BY DEF ToClient
  <2>3. Made(m)
    BY <2>2 DEF Made, HandleRequest
  <2> QED BY <1>3, <2>1, <2>3 DEF HandleRequest
<1>6. HandleInput => Goal
  <2> SUFFICES ASSUME HandleInput, ~Notify PROVE Goal
    BY <1>4
  <2> DEFINE m == [ToAll EXCEPT !.mask = @ \ {current.index}, !.for = @ \ {current.from}]
             n == ToClient("Notice", current.index, current.from)
  <2>1. m \in QueuedMessage /\ Made(m)
    BY Addressees DEF ToAll, QueuedMessage, Made
  <2>2. n \in QueuedMessage /\ Made(n)
    BY Addressees DEF HandleInput, ToClient, QueuedMessage, Made
  <2>3. messages' = messages \o <<m, n>>
    BY DEF HandleInput
  <2> HIDE DEF m, n
  <2>4. /\ <<m, n>> \in Seq(QueuedMessage)
        /\ \A i \in DOMAIN <<m, n>> : <<m, n>>[i] = m \/ <<m, n>>[i] = n
    BY <2>1, <2>2
  <2>5. \A i \in DOMAIN <<m, n>> : Made(<<m, n>>[i])
    BY <2>1, <2>2, <2>4
  <2> QED BY <1>1, <2>3, <2>4, <2>5, MadeByAppend
<1>7. HandleQuality => Goal
  <2> SUFFICES ASSUME HandleQuality, ~UNCHANGED messages PROVE Goal
    BY <1>2
  <2>1. /\ current.from \in clients /\ messages' = messages \o SentByRegistry
        /\ \A m \in sent' : m.index = index[current.from]
    BY DEF HandleQuality, SetClientMaxQuality, MoveClients, Announce, QualityMessage
  <2> QED BY <1>1, <2>1, MadeByRegistry
<1>8. VerifyQuality => Goal
  <2> SUFFICES ASSUME VerifyQuality PROVE Goal
    OBVIOUS
  <2>1. PICK measured \in SUBSET clients : \E delta \in [measured -> {-1, 0, 1}] :
               PerformQualityVerification(delta)
    BY DEF VerifyQuality
  <2>2. \A m \in sent' : \E c \in clients : index[c] = m.index
    BY <2>1 DEF PerformQualityVerification, MoveClients, Announce, QualityMessage
  <2> QED BY <1>1, <2>2, MadeByRegistry DEF VerifyQuality
<1>9. Pings => Goal
  <2> SUFFICES ASSUME Pings PROVE Goal
    OBVIOUS
  <2>1. \A m \in sent' : \E c \in clients : index[c] = m.index
    BY DEF Pings, HandleClientPings, PongTimeout, RequiresPing, Disconnect, Ping
  <2> QED BY <1>1, <2>1, MadeByRegistry DEF Pings
<1>10. UpdateWindows => Goal
  <2> SUFFICES ASSUME UpdateWindows PROVE Goal
    OBVIOUS
  <2>1. PICK S \in SUBSET groups : messages' = messages \o SetToSeq({ToGroup(q) : q \in S})
    BY DEF UpdateWindows
  <2> DEFINE G == {ToGroup(q) : q \in S}
  <2>2. S \subseteq Quality
    BY <2>1 DEF EngineInv, RegistryInv, TypeOK
  <2>3. SetToSeq(G) \in Seq(G)
    BY <2>2, ImagesFinite
  <2>4. \A m \in G : m \in QueuedMessage /\ Made(m)
    BY <2>2, Addressees DEF ToGroup, QueuedMessage, Made
  <2>5. messages' = messages \o SetToSeq(G)
    BY <2>1
  <2> HIDE DEF G
  <2>6. /\ SetToSeq(G) \in Seq(QueuedMessage)
        /\ \A i \in DOMAIN SetToSeq(G) : Made(SetToSeq(G)[i])
    BY <2>3, <2>4
  <2> QED BY <1>1, <2>5, <2>6, MadeByAppend
<1>11. Publish => Goal
  <2> SUFFICES ASSUME Publish PROVE Goal
    OBVIOUS
  <2>1. \A n \in DOMAIN messages' : n + 1 \in DOMAIN messages /\ messages'[n] = messages[n + 1]
    BY <1>1 DEF QueuesOK, Publish
  <2> QED BY <2>1
<1>12. (\/ ClockTick \/ UNCHANGED engineVars \/ BeginTurn \/ LookUpClient \/ HandlePong
        \/ EndInstructions
        \/ \E c \in ClientId : Connect(c) \/ RequestDisconnect(c) \/ Crash(c)
        \/ \E c \in ClientId : SendRequest(c) \/ SendInput(c) \/ SendPong(c)
        \/ \E c \in ClientId, q \in QualityIndex : SendQuality(c, q)) => UNCHANGED messages
  BY DEF ClockTick, engineVars, BeginTurn, LookUpClient, HandlePong, EndInstructions, Connect,
         RequestDisconnect, Crash, SendRequest, SendInput, SendPong, SendQuality
<1>13. Events \/ RefreshMouse => Notify
  BY DEF Events, RefreshMouse
<1> HIDE DEF Goal
<1>14. Goal
  BY <1>2, <1>4, <1>5, <1>6, <1>7, <1>8, <1>9, <1>10, <1>11, <1>12, <1>13
     DEF EngineNext, Controller
<1> QED BY <1>14 DEF Goal

LEMMA OneAddressee ==
  ASSUME NEW type, NEW i, NEW c, NEW S, NEW f, NEW K, c \in K, c \in S => f[c] = i
  PROVE  Addresses(ToClient(type, i, c), S, f, K)
<1> DEFINE m == ToClient(type, i, c)
           h == [x \in {c} |-> i]
<1>1. m.for = {c} /\ m.mask = {i}
  BY DEF ToClient
<1>2. h \in [m.for -> m.mask] /\ h[c] = i
  BY <1>1
<1> HIDE DEF m, h
<1>3. Addresses(m, S, f, K)
  BY <1>1, <1>2 DEF Addresses
<1> QED BY <1>3 DEF m

LEMMA MadeIsAddressed ==
  ASSUME AddressInv, NEW m, Made(m)
  PROVE  Addressed(m)
<1>0. EngineInv /\ clients \subseteq Known
  BY Addressees DEF AddressInv, EngineInv, KnownAreNotNew, Known
<1>1. ASSUME NEW c \in clients, m = ToClient(m.type, index[c], c)
      PROVE  Addresses(m, clients, index, Known)
  <2>1. Addresses(ToClient(m.type, index[c], c), clients, index, Known)
    BY <1>0, OneAddressee
  <2> QED BY <1>1, <2>1
<1>2. ASSUME pc = "handle", m = ToClient(m.type, current.index, current.from)
      PROVE  Addresses(m, clients, index, Known)
  <2>1. Addresses(ToClient(m.type, current.index, current.from), clients, index, Known)
    BY <1>2, OneAddressee DEF AddressInv, HandledIsKnown
  <2> QED BY <1>2, <2>1
<1>3. ASSUME NEW q \in Quality, m = ToGroup(q)
      PROVE  Addresses(m, clients, index, Known)
  <2> DEFINE h == [c \in groupClients[q] |-> index[c]]
  <2>1. m.for = groupClients[q] /\ m.mask = groupMask[q] /\ groupClients[q] \subseteq clients
    BY <1>0, <1>3, Addressees DEF ToGroup
  <2>2. groupMask[q] = {index[c] : c \in groupClients[q]}
    BY <1>0 DEF EngineInv, RegistryInv, GroupInv, GroupMaskExact
  <2>3. h \in [m.for -> m.mask] /\ \A c \in m.for : h[c] = index[c]
    BY <2>1, <2>2
  <2>4. \A c, d \in m.for : h[c] = h[d] => c = d
    BY <1>0, <2>1, <2>3 DEF EngineInv, RegistryInv, DistinctIndices
  <2>5. \A i \in m.mask : \E c \in m.for : h[c] = i
    BY <2>1, <2>2
  <2> HIDE DEF h
  <2> QED BY <1>0, <2>1, <2>3, <2>4, <2>5 DEF Addresses
<1> QED BY <1>1, <1>2, <1>3 DEF Made, Addressed

\* Who enters the registry had no message made for it.
LEMMA AddressesStays ==
  ASSUME AddressInv, [EngineNext]_engineVars, NEW m, Addresses(m, clients, index, Known)
  PROVE  Addresses(m, clients', index', Known')
<1>1. Known \subseteq Known' /\ Known \cap clients' \subseteq clients
  BY EntersOnce DEF AddressInv, Known
<1>2. \A c \in m.for \cap clients' : c \in m.for \cap clients /\ index'[c] = index[c]
  BY <1>1, IndexStays DEF AddressInv, Addresses
<1>3. m.for \subseteq Known'
  BY <1>1 DEF Addresses
<1>4. PICK h \in [m.for -> m.mask] :
         /\ \A c, d \in m.for : h[c] = h[d] => c = d
         /\ \A i \in m.mask : \E c \in m.for : h[c] = i
         /\ \A c \in m.for \cap clients : index[c] = h[c]
  BY DEF Addresses
<1>5. \A c \in m.for \cap clients' : index'[c] = h[c]
  BY <1>2, <1>4
<1> QED BY <1>3, <1>4, <1>5 DEF Addresses

LEMMA HandledStays ==
  ASSUME AddressInv, [EngineNext]_engineVars
  PROVE  HandledIsKnown'
<1>0. EngineInv /\ HandledIsKnown
  BY DEF AddressInv
<1>1. Known \subseteq Known' /\ Known \cap clients' \subseteq clients
  BY <1>0, EntersOnce DEF Known
<1>2. CASE LookUpClient
  <2> DEFINE i == Head(instructions)
  <2>1. pc' = "handle" => i.from \in clients /\ current'.from = i.from
                                           /\ current'.index = index[i.from]
    BY <1>2 DEF LookUpClient
  <2>2. pc' = "handle" => current'.from \in clients /\ current'.index = index[current'.from]
    BY <2>1
  <2>3. UNCHANGED <<clients, index, remote>>
    BY <1>2 DEF LookUpClient, registryVars, clientVars, remoteVars
  <2>4. clients \subseteq Known
    BY <1>0, Addressees DEF EngineInv, KnownAreNotNew, Known
  <2> QED BY <1>1, <2>2, <2>3, <2>4 DEF HandledIsKnown
<1>3. CASE Controller /\ ~LookUpClient
  BY <1>3 DEF Controller, BeginTurn, HandleRequest, HandleInput, HandlePong, HandleQuality,
              EndInstructions, Events, Pings, UpdateWindows, VerifyQuality, RefreshMouse, Handled,
              HandledIsKnown
<1>4. CASE ~Controller
  <2>1. UNCHANGED <<pc, current>>
    BY <1>4, OthersLeaveLoop DEF mainVars
  <2>2. ASSUME pc = "handle"
        PROVE  /\ current.from \in Known'
               /\ current.from \in clients' => index'[current.from] = current.index
    BY <1>0, <1>1, <2>2, IndexStays DEF HandledIsKnown
  <2> QED BY <2>1, <2>2 DEF HandledIsKnown
<1> QED BY <1>2, <1>3, <1>4

LEMMA AddressInvInit == EngineInit => AddressInv
BY EngineInvInit DEF EngineInit, AddressInv, MessagesAddressed, HandledIsKnown

LEMMA AddressInvNext == AddressInv /\ [EngineNext]_engineVars => AddressInv'
<1> SUFFICES ASSUME AddressInv, [EngineNext]_engineVars
             PROVE  AddressInv'
  OBVIOUS
<1>1. EngineInv /\ EngineInv' /\ RegistryInv'
  BY EngineInvNext DEF AddressInv, EngineInv
<1>2. ASSUME NEW n \in DOMAIN messages', messages'[n].type # "Notice"
      PROVE  Addresses(messages'[n], clients', index', Known')
  <2>1. (\E k \in DOMAIN messages : messages'[n] = messages[k]) \/ Made(messages'[n])
    BY <1>1, MadeByStep
  <2>2. Addressed(messages'[n])
    BY <2>1, MadeIsAddressed DEF AddressInv, MessagesAddressed
  <2> QED BY <1>2, <2>2, AddressesStays DEF Addressed
<1>3. MessagesAddressed'
  BY <1>2 DEF MessagesAddressed, Addressed
<1> QED BY <1>1, <1>3, HandledStays DEF AddressInv

\* Each client misled holds the bit of another that has left.
LEMMA FewAreMisled ==
  ASSUME EngineInv, NEW m \in QueuedMessage, Addresses(m, clients, index, Known)
  PROVE  Cardinality(Misled(m)) <= Cardinality(m.for \ clients)
<1>1. PICK h \in [m.for -> m.mask] :
         /\ \A c, d \in m.for : h[c] = h[d] => c = d
         /\ \A i \in m.mask : \E c \in m.for : h[c] = i
         /\ \A c \in m.for \cap clients : index[c] = h[c]
  BY DEF Addresses
<1> DEFINE g == [c \in Misled(m) |-> CHOOSE d \in m.for : h[d] = index[c]]
<1>2. \A c \in Misled(m) : g[c] \in m.for /\ h[g[c]] = index[c]
  BY <1>1 DEF Misled
<1>3. \A c \in Misled(m) : c \in clients \ m.for
  BY DEF Misled
<1>4. \A c, d \in clients : index[c] = index[d] => c = d
  BY DEF EngineInv, RegistryInv, DistinctIndices
<1> HIDE DEF g
<1>5. \A c \in Misled(m) : g[c] \notin clients
  BY <1>1, <1>2, <1>3, <1>4
<1>6. \A c, d \in Misled(m) : g[c] = g[d] => c = d
  BY <1>2, <1>3, <1>4
<1>7. g \in Injection(Misled(m), m.for \ clients)
  BY <1>2, <1>5, <1>6 DEF g, Injection, IsInjective
<1>8. IsFiniteSet(m.for \ clients)
  <2>1. IsFiniteSet(Index \cup {NoIndex})
    <3>1. IsFiniteSet(Index)
      BY FS_Interval, RegistryAssumption DEF Index
    <3> QED BY <3>1, FS_AddElement
  <2>2. m.mask \subseteq Index \cup {NoIndex}
    BY DEF QueuedMessage
  <2>3. IsFiniteSet(m.mask)
    BY <2>1, <2>2, FS_Subset
  <2>4. h \in Injection(m.for, m.mask)
    BY <1>1 DEF Injection, IsInjective
  <2>5. IsFiniteSet(m.for)
    BY <2>3, <2>4, FS_Injection
  <2> QED BY <2>5, FS_Subset
<1> QED BY <1>7, <1>8, FS_Injection

\* A message misleads at most as many clients as have left of those it was made
\* for, whatever happens between its making and its sending (sendMessage).
THEOREM OnlyTheDepartedMislead == EngineSpec => []OnlyFreedBitsMislead
<1>1. EngineSpec => []AddressInv
  BY AddressInvInit, AddressInvNext, PTL DEF EngineSpec
<1>2. ASSUME AddressInv
      PROVE  OnlyFreedBitsMislead
  <2>1. ASSUME NEW n \in DOMAIN messages, messages[n].type # "Notice"
        PROVE  Cardinality(Misled(messages[n])) <= Cardinality(messages[n].for \ clients)
    <3>1. messages[n] \in QueuedMessage
      BY <1>2 DEF AddressInv, EngineInv, QueuesOK
    <3>2. Addresses(messages[n], clients, index, Known)
      BY <1>2, <2>1 DEF AddressInv, MessagesAddressed, Addressed
    <3> QED BY <1>2, <3>1, <3>2, FewAreMisled DEF AddressInv
  <2> QED BY <2>1 DEF OnlyFreedBitsMislead
<1> QED BY <1>1, <1>2, PTL

-----------------------------------------------------------------------------
(* One ping in flight *)

IsPing(m, c) == m.type = "Ping" /\ m.for = {c}
IsPong(i, c) == i.type = "Pong" /\ i.from = c

\* Where a ping of c can be, and its pong; and that there is one at most in either queue.
PingQueued(c) == \E n \in DOMAIN messages : IsPing(messages[n], c)
PongComing(c) == \E n \in DOMAIN instructions : IsPong(instructions[n], c)
PongInHand(c) == current.type = "Pong" /\ current.from = c
InFlight(c) == PingQueued(c) \/ c \in owesPong \/ PongComing(c) \/ PongInHand(c)

OneQueued(c) ==
  \A k, n \in DOMAIN messages : IsPing(messages[k], c) /\ IsPing(messages[n], c) => k = n
OneComing(c) ==
  \A k, n \in DOMAIN instructions :
    IsPong(instructions[k], c) /\ IsPong(instructions[n], c) => k = n

\* It is in one place only, and the registry waits for the pong.
PingAlone(c) ==
  /\ OneQueued(c) /\ OneComing(c)
  /\ PingQueued(c) => c \notin owesPong
  /\ PingQueued(c) \/ c \in owesPong => ~PongComing(c)
  /\ PingQueued(c) \/ c \in owesPong \/ PongComing(c) => ~PongInHand(c)
  /\ InFlight(c) => pingStatus[c] = "WaitingForPong"

\* A ping is made for one client; only ids that were drawn answer, so that a client that
\* connects has nothing in flight.
PingsAreForOne ==
  \A n \in DOMAIN messages : messages[n].type = "Ping" => \E c \in ClientId : messages[n].for = {c}
OnlyKnownAnswer ==
  /\ owesPong \subseteq Known
  /\ \A n \in DOMAIN instructions : instructions[n].type = "Pong" => instructions[n].from \in Known
  /\ current.type = "Pong" => pc = "handle"

PingsAlone == \A c \in clients : <<c, "Ping">> \notin strays => PingAlone(c)

PingInv == AddressInv /\ PingsAreForOne /\ OnlyKnownAnswer /\ PingsAlone

\* What leaves a client's pings where they are, or takes them away.
LEMMA AloneStays ==
  ASSUME NEW c, PingAlone(c), OneQueued(c)', OneComing(c)',
         PingQueued(c)' => PingQueued(c), PongComing(c)' => PongComing(c),
         c \in owesPong' => c \in owesPong, PongInHand(c)' => PongInHand(c),
         InFlight(c)' => pingStatus'[c] = "WaitingForPong"
  PROVE  PingAlone(c)'
BY DEF PingAlone

LEMMA QueueMore ==
  ASSUME QueuesOK, NEW c, NEW t \in Seq(QueuedMessage), messages' = messages \o t,
         \A i \in DOMAIN t : ~IsPing(t[i], c)
  PROVE  (PingQueued(c)' => PingQueued(c)) /\ (OneQueued(c) => OneQueued(c)')
<1> DEFINE l == Len(messages)
<1>1. /\ l \in Nat /\ Len(t) \in Nat
      /\ DOMAIN messages' = 1 .. l + Len(t)
      /\ \A i \in 1..l : i \in DOMAIN messages /\ messages'[i] = messages[i]
      /\ \A i \in (1 .. l + Len(t)) \ (1..l) : i - l \in DOMAIN t /\ messages'[i] = t[i - l]
  BY DEF QueuesOK
<1> HIDE DEF l
<1>2. \A n \in DOMAIN messages' :
        IsPing(messages'[n], c) => n \in DOMAIN messages /\ messages'[n] = messages[n]
  BY <1>1
<1> QED BY <1>2 DEF PingQueued, OneQueued

LEMMA QueueLess ==
  ASSUME QueuesOK, NEW c, messages # <<>>, messages' = Tail(messages)
  PROVE  /\ PingQueued(c)' => PingQueued(c)
         /\ OneQueued(c) => OneQueued(c)'
         /\ OneQueued(c) /\ IsPing(messages[1], c) => ~PingQueued(c)'
<1>1. \A n \in DOMAIN messages' : /\ n \in Nat \ {0} /\ n + 1 \in DOMAIN messages
                                  /\ messages'[n] = messages[n + 1]
  BY DEF QueuesOK
<1>2. 1 \in DOMAIN messages
  BY DEF QueuesOK
<1>3. PingQueued(c)' => PingQueued(c)
  BY <1>1 DEF PingQueued
<1>4. ASSUME OneQueued(c) PROVE OneQueued(c)'
  <2>1. SUFFICES ASSUME NEW k \in DOMAIN messages', NEW n \in DOMAIN messages',
                        IsPing(messages'[k], c), IsPing(messages'[n], c)
                 PROVE  k = n
    BY DEF OneQueued
  <2>2. k + 1 = n + 1
    BY <1>1, <1>4, <2>1 DEF OneQueued
  <2> QED BY <1>1, <2>1, <2>2
<1>5. ASSUME OneQueued(c), IsPing(messages[1], c), NEW n \in DOMAIN messages',
             IsPing(messages'[n], c)
      PROVE  FALSE
  <2>1. n + 1 = 1
    BY <1>1, <1>2, <1>5 DEF OneQueued
  <2> QED BY <1>1, <1>5, <2>1
<1> QED BY <1>3, <1>4, <1>5 DEF PingQueued

LEMMA ComingMore ==
  ASSUME QueuesOK, NEW c, NEW i \in Instruction, instructions' = Append(instructions, i)
  PROVE  /\ ~IsPong(i, c) => (PongComing(c)' => PongComing(c)) /\ (OneComing(c) => OneComing(c)')
         /\ ~PongComing(c) => OneComing(c)'
<1> DEFINE l == Len(instructions)
<1>1. /\ l \in Nat
      /\ DOMAIN instructions' = 1 .. l + 1
      /\ \A n \in 1..l : n \in DOMAIN instructions /\ instructions'[n] = instructions[n]
      /\ instructions'[l + 1] = i
  BY DEF QueuesOK
<1> HIDE DEF l
<1>2. \A n \in DOMAIN instructions' :
        n = l + 1 \/ (n \in DOMAIN instructions /\ instructions'[n] = instructions[n])
  <2> TAKE n \in DOMAIN instructions'
  <2>1. n \in 1 .. l + 1 /\ l \in Nat
    BY <1>1
  <2>2. n \in 1..l \/ n = l + 1
    BY <2>1
  <2>3. n \in 1..l => n \in DOMAIN instructions /\ instructions'[n] = instructions[n]
    BY <1>1
  <2> QED BY <2>2, <2>3
<1>3. ASSUME ~IsPong(i, c)
      PROVE  (PongComing(c)' => PongComing(c)) /\ (OneComing(c) => OneComing(c)')
  <2>1. \A n \in DOMAIN instructions' :
          IsPong(instructions'[n], c)
            => n \in DOMAIN instructions /\ IsPong(instructions[n], c)
    BY <1>1, <1>2, <1>3
  <2> QED BY <2>1 DEF PongComing, OneComing
<1>4. ASSUME ~PongComing(c) PROVE OneComing(c)'
  <2>1. \A n \in DOMAIN instructions' : IsPong(instructions'[n], c) => n = l + 1
    BY <1>2, <1>4 DEF PongComing
  <2> QED BY <2>1 DEF OneComing
<1> QED BY <1>3, <1>4

LEMMA ComingLess ==
  ASSUME QueuesOK, NEW c, instructions # <<>>, instructions' = Tail(instructions)
  PROVE  /\ PongComing(c)' => PongComing(c)
         /\ OneComing(c) => OneComing(c)'
         /\ OneComing(c) /\ IsPong(Head(instructions), c) => PongComing(c) /\ ~PongComing(c)'
<1>1. \A n \in DOMAIN instructions' : /\ n \in Nat \ {0} /\ n + 1 \in DOMAIN instructions
                                      /\ instructions'[n] = instructions[n + 1]
  BY DEF QueuesOK
<1>2. 1 \in DOMAIN instructions /\ Head(instructions) = instructions[1]
  BY DEF QueuesOK
<1>3. PongComing(c)' => PongComing(c)
  BY <1>1 DEF PongComing
<1>4. ASSUME OneComing(c) PROVE OneComing(c)'
  <2>1. SUFFICES ASSUME NEW k \in DOMAIN instructions', NEW n \in DOMAIN instructions',
                        IsPong(instructions'[k], c), IsPong(instructions'[n], c)
                 PROVE  k = n
    BY DEF OneComing
  <2>2. k + 1 = n + 1
    BY <1>1, <1>4, <2>1 DEF OneComing
  <2> QED BY <1>1, <2>1, <2>2
<1>5. ASSUME OneComing(c), IsPong(instructions[1], c), NEW n \in DOMAIN instructions',
             IsPong(instructions'[n], c)
      PROVE  FALSE
  <2>1. n + 1 = 1
    BY <1>1, <1>2, <1>5 DEF OneComing
  <2> QED BY <1>1, <1>5, <2>1
<1> QED BY <1>2, <1>3, <1>4, <1>5 DEF PongComing

\* But for the pings of a turn, no step makes a ping.
LEMMA NoPingMade ==
  ASSUME EngineInv, [EngineNext]_engineVars, RegistryInv', ~Pings, ~Publish
  PROVE  \E t \in Seq(QueuedMessage) :
           messages' = messages \o t /\ \A i \in DOMAIN t : t[i].type # "Ping"
<1> DEFINE Goal == \E t \in Seq(QueuedMessage) :
             messages' = messages \o t /\ \A i \in DOMAIN t : t[i].type # "Ping"
<1>1. sent' \subseteq Message /\ QueuesOK /\ messages \in Seq(QueuedMessage)
  BY DEF RegistryInv, TypeOK, EngineInv, QueuesOK
<1>2. UNCHANGED messages => Goal
  <2>1. /\ <<>> \in Seq(QueuedMessage) /\ messages \o <<>> = messages
        /\ \A i \in DOMAIN <<>> : FALSE
    BY <1>1
  <2> QED BY <2>1, Zenon
<1>3. ASSUME NEW m \in QueuedMessage, m.type # "Ping", messages' = Append(messages, m)
      PROVE  Goal
  <2>1. /\ <<m>> \in Seq(QueuedMessage) /\ messages' = messages \o <<m>>
        /\ \A i \in DOMAIN <<m>> : <<m>>[i] = m
    BY <1>1, <1>3
  <2> QED BY <1>3, <2>1
<1>4. Notify => Goal
  <2>1. ToAll \in QueuedMessage /\ ToAll.type # "Ping"
    BY Addressees DEF ToAll, QueuedMessage
  <2> QED BY <1>2, <1>3, <2>1 DEF Notify
<1>5. HandleRequest => Goal
  <2> SUFFICES ASSUME HandleRequest PROVE Goal
    OBVIOUS
  <2> DEFINE m == ToClient("Response", current.index, current.from)
  <2>1. m \in QueuedMessage /\ m.type # "Ping"
    BY Addressees DEF HandleRequest, ToClient, QueuedMessage
  <2> QED BY <1>3, <2>1 DEF HandleRequest
<1>6. HandleInput => Goal
  <2> SUFFICES ASSUME HandleInput, ~Notify PROVE Goal
    BY <1>4
  <2> DEFINE m == [ToAll EXCEPT !.mask = @ \ {current.index}, !.for = @ \ {current.from}]
             n == ToClient("Notice", current.index, current.from)
  <2>1. m \in QueuedMessage /\ m.type # "Ping"
    BY Addressees DEF ToAll, QueuedMessage
  <2>2. n \in QueuedMessage /\ n.type # "Ping"
    BY Addressees DEF HandleInput, ToClient, QueuedMessage
  <2>3. messages' = messages \o <<m, n>>
    BY DEF HandleInput
  <2> HIDE DEF m, n
  <2>4. /\ <<m, n>> \in Seq(QueuedMessage)
        /\ \A i \in DOMAIN <<m, n>> : <<m, n>>[i] = m \/ <<m, n>>[i] = n
    BY <2>1, <2>2
  <2>5. \A i \in DOMAIN <<m, n>> : <<m, n>>[i].type # "Ping"
    BY <2>1, <2>2, <2>4
  <2> QED BY <2>3, <2>4, <2>5
<1>7. ASSUME messages' = messages \o SentByRegistry,
             \A m \in sent' : m.type = "Quality" /\ \E c \in clients : index[c] = m.index
      PROVE  Goal
  <2>1. /\ SentByRegistry \in Seq(QueuedMessage)
        /\ \A i \in DOMAIN SentByRegistry : \E m \in sent' : \E c \in clients :
             index[c] = m.index /\ SentByRegistry[i] = ToClient(m.type, m.index, c)
    BY <1>1, <1>7, RegistrySends DEF EngineInv
  <2>2. \A i \in DOMAIN SentByRegistry : SentByRegistry[i].type # "Ping"
    BY <1>7, <2>1 DEF ToClient
  <2> QED BY <1>7, <2>1, <2>2
<1>8. HandleQuality => Goal
  <2> SUFFICES ASSUME HandleQuality, ~UNCHANGED messages PROVE Goal
    BY <1>2
  <2>1. /\ current.from \in clients /\ messages' = messages \o SentByRegistry
        /\ \A m \in sent' : m.type = "Quality" /\ m.index = index[current.from]
    BY DEF HandleQuality, SetClientMaxQuality, MoveClients, Announce, QualityMessage
  <2> QED BY <1>7, <2>1
<1>9. VerifyQuality => Goal
  <2> SUFFICES ASSUME VerifyQuality PROVE Goal
    OBVIOUS
  <2>1. PICK measured \in SUBSET clients : \E delta \in [measured -> {-1, 0, 1}] :
               PerformQualityVerification(delta)
    BY DEF VerifyQuality
  <2>2. \A m \in sent' : m.type = "Quality" /\ \E c \in clients : index[c] = m.index
    BY <2>1 DEF PerformQualityVerification, MoveClients, Announce, QualityMessage
  <2> QED BY <1>7, <2>2 DEF VerifyQuality
<1>10. UpdateWindows => Goal
  <2> SUFFICES ASSUME UpdateWindows PROVE Goal
    OBVIOUS
  <2>1. PICK S \in SUBSET groups : messages' = messages \o SetToSeq({ToGroup(q) : q \in S})
    BY DEF UpdateWindows
  <2> DEFINE G == {ToGroup(q) : q \in S}
  <2>2. S \subseteq Quality
    BY <2>1 DEF EngineInv, RegistryInv, TypeOK
  <2>3. SetToSeq(G) \in Seq(G)
    BY <2>2, ImagesFinite
  <2>4. \A m \in G : m \in QueuedMessage /\ m.type # "Ping"
    BY <2>2, Addressees DEF ToGroup, QueuedMessage
  <2>5. messages' = messages \o SetToSeq(G)
    BY <2>1
  <2> HIDE DEF G
  <2>6. /\ SetToSeq(G) \in Seq(QueuedMessage)
        /\ \A i \in DOMAIN SetToSeq(G) : SetToSeq(G)[i].type # "Ping"
    BY <2>3, <2>4
  <2> QED BY <2>5, <2>6
<1>11. (\/ ClockTick \/ UNCHANGED engineVars \/ BeginTurn \/ LookUpClient \/ HandlePong
        \/ EndInstructions
        \/ \E c \in ClientId : Connect(c) \/ RequestDisconnect(c) \/ Crash(c)
        \/ \E c \in ClientId : SendRequest(c) \/ SendInput(c) \/ SendPong(c)
        \/ \E c \in ClientId, q \in QualityIndex : SendQuality(c, q)) => UNCHANGED messages
  BY DEF ClockTick, engineVars, BeginTurn, LookUpClient, HandlePong, EndInstructions, Connect,
         RequestDisconnect, Crash, SendRequest, SendInput, SendPong, SendQuality
<1>12. Events \/ RefreshMouse => Notify
  BY DEF Events, RefreshMouse
<1> HIDE DEF Goal
<1>13. Goal
  BY <1>2, <1>4, <1>5, <1>6, <1>8, <1>9, <1>10, <1>11, <1>12 DEF EngineNext, Controller
<1> QED BY <1>13 DEF Goal

\* What the pings of a turn add: one for each client that is due, none for another.
LEMMA PingsMade ==
  ASSUME EngineInv, sent' \subseteq Message, Pings
  PROVE  \E t \in Seq(QueuedMessage) :
           /\ messages' = messages \o t
           /\ \A i \in DOMAIN t : \A c \in clients : IsPing(t[i], c) => c \in RequiresPing
           /\ \A i, j \in DOMAIN t : \A c \in clients :
                IsPing(t[i], c) /\ IsPing(t[j], c) => i = j
<1> DEFINE t == SentByRegistry
<1>1. /\ sent' = {Disconnect(c) : c \in PongTimeout} \cup {Ping(c) : c \in RequiresPing}
      /\ messages' = messages \o t
  BY DEF Pings, HandleClientPings
<1>2. PongTimeout \subseteq clients /\ RequiresPing \subseteq clients
  BY DEF PongTimeout, RequiresPing
<1>3. \A m \in sent' : \E c \in clients : index[c] = m.index
  BY <1>1, <1>2 DEF Disconnect, Ping
<1>4. /\ t \in Seq(QueuedMessage)
      /\ \A i \in DOMAIN t : \E m \in sent' : \E c \in clients :
           index[c] = m.index /\ t[i] = ToClient(m.type, m.index, c)
      /\ \A i, j \in DOMAIN t : t[i] = t[j] => i = j
  BY <1>3, RegistrySends DEF EngineInv
<1> HIDE DEF t
<1>5. ASSUME NEW i \in DOMAIN t, NEW c \in clients, IsPing(t[i], c)
      PROVE  c \in RequiresPing /\ t[i] = ToClient("Ping", index[c], c)
  <2>1. PICK m \in sent', d \in clients : index[d] = m.index /\ t[i] = ToClient(m.type, m.index, d)
    BY <1>4
  <2>2. d = c /\ m.type = "Ping"
    BY <1>5, <2>1 DEF ToClient, IsPing
  <2>3. PICK e \in RequiresPing : m = Ping(e)
    BY <1>1, <2>2 DEF Disconnect
  <2>4. e \in clients /\ index[e] = index[c]
    BY <1>2, <2>1, <2>2, <2>3 DEF Ping
  <2>5. e = c
    BY <2>4 DEF EngineInv, RegistryInv, DistinctIndices
  <2> QED BY <2>1, <2>2, <2>3, <2>5
<1>6. \A i, j \in DOMAIN t : \A c \in clients : IsPing(t[i], c) /\ IsPing(t[j], c) => i = j
  BY <1>4, <1>5
<1> QED BY <1>1, <1>4, <1>5, <1>6

\* The sequence gets one ping for a client that has none in it.
LEMMA QueueOneMore ==
  ASSUME QueuesOK, NEW c, NEW t \in Seq(QueuedMessage), messages' = messages \o t,
         ~PingQueued(c),
         \A i, j \in DOMAIN t : IsPing(t[i], c) /\ IsPing(t[j], c) => i = j
  PROVE  OneQueued(c)'
<1> DEFINE l == Len(messages)
<1>1. /\ l \in Nat /\ Len(t) \in Nat
      /\ DOMAIN messages' = 1 .. l + Len(t)
      /\ \A i \in 1..l : i \in DOMAIN messages /\ messages'[i] = messages[i]
      /\ \A i \in (1 .. l + Len(t)) \ (1..l) : i - l \in DOMAIN t /\ messages'[i] = t[i - l]
  BY DEF QueuesOK
<1> HIDE DEF l
<1>2. \A n \in DOMAIN messages' : IsPing(messages'[n], c) =>
        n \in Nat /\ n - l \in DOMAIN t /\ IsPing(t[n - l], c)
  <2> SUFFICES ASSUME NEW n \in DOMAIN messages', IsPing(messages'[n], c)
               PROVE  n \in Nat /\ n - l \in DOMAIN t /\ IsPing(t[n - l], c)
    OBVIOUS
  <2>1. n \notin 1..l
    BY <1>1 DEF PingQueued
  <2> QED BY <1>1, <2>1
<1>3. ASSUME NEW k \in DOMAIN messages', NEW n \in DOMAIN messages',
             IsPing(messages'[k], c), IsPing(messages'[n], c)
      PROVE  k = n
  <2>1. k - l = n - l /\ k \in Nat /\ n \in Nat
    BY <1>2, <1>3
  <2> QED BY <1>1, <2>1
<1> QED BY <1>3 DEF OneQueued

\* Each step moves the ping of a client on, or leaves it.
LEMMA PingsAloneStep ==
  ASSUME PingInv, [EngineNext]_engineVars, EngineInv'
  PROVE  PingsAlone'
<1>0. /\ EngineInv /\ QueuesOK /\ OnlyKnownAnswer /\ RegistryInv' /\ sent' \subseteq Message
      /\ clients \subseteq ClientId
      /\ pingStatus \in [ClientId -> {"WaitingToPing", "WaitingForPong"}]
  BY DEF PingInv, AddressInv, EngineInv, RegistryInv, TypeOK
<1>1. ASSUME ~Pings, ~Publish, NEW c
      PROVE  (PingQueued(c)' => PingQueued(c)) /\ (OneQueued(c) => OneQueued(c)')
  <2>1. PICK t \in Seq(QueuedMessage) :
          messages' = messages \o t /\ \A i \in DOMAIN t : t[i].type # "Ping"
    BY <1>0, <1>1, NoPingMade
  <2> QED BY <1>0, <2>1, QueueMore DEF IsPing
<1>2. \A c : instructions' = instructions =>
               /\ PongComing(c)' => PongComing(c)
               /\ OneComing(c) => OneComing(c)'
  BY DEF PongComing, OneComing
<1>3. ASSUME NEW c \in clients, <<c, "Ping">> \notin strays
      PROVE  PingAlone(c) /\ OneQueued(c) /\ OneComing(c) /\ c \in ClientId
  BY <1>0, <1>3 DEF PingInv, PingsAlone, PingAlone
<1>4. \A c : PingAlone(c) => (InFlight(c) => pingStatus[c] = "WaitingForPong")
  BY DEF PingAlone
<1>5. ASSUME ~Pings, ~Publish, instructions' = instructions, strays' = strays,
             owesPong' \subseteq owesPong, current' = current \/ current' = Idle,
             clients' \subseteq clients, \A c \in clients' : pingStatus'[c] = pingStatus[c]
      PROVE  PingsAlone'
  <2>1. SUFFICES ASSUME NEW c \in clients', <<c, "Ping">> \notin strays' PROVE PingAlone(c)'
    BY DEF PingsAlone
  <2>2. PingAlone(c) /\ OneQueued(c) /\ OneComing(c)
    BY <1>3, <1>5, <2>1
  <2>3. PongInHand(c)' => PongInHand(c)
    BY <1>5 DEF PongInHand, Idle
  <2>4. InFlight(c)' => InFlight(c)
    BY <1>1, <1>2, <1>5, <2>3 DEF InFlight
  <2> QED BY <1>1, <1>2, <1>4, <1>5, <2>1, <2>2, <2>3, <2>4, AloneStays
<1>6. CASE /\ ~Pings /\ ~Publish
           /\ \/ BeginTurn \/ HandleRequest \/ HandleInput \/ HandleQuality \/ EndInstructions
              \/ Events \/ UpdateWindows \/ VerifyQuality \/ RefreshMouse \/ ClockTick
              \/ UNCHANGED engineVars
  <2>1. /\ instructions' = instructions /\ strays' = strays /\ owesPong' = owesPong
        /\ current' = current \/ current' = Idle
    BY <1>6 DEF BeginTurn, HandleRequest, HandleInput, HandleQuality, EndInstructions, Events,
         UpdateWindows, VerifyQuality, RefreshMouse, ClockTick, engineVars, remoteVars, mainVars,
         Handled
  <2>2. clients' = clients /\ pingStatus' = pingStatus
    BY <1>6 DEF BeginTurn, HandleRequest, HandleInput, HandleQuality, EndInstructions, Events,
         UpdateWindows, VerifyQuality, RefreshMouse, ClockTick, Tick, SetClientMaxQuality,
         PerformQualityVerification, engineVars, registryVars, clientVars, pingVars
  <2> QED BY <1>5, <1>6, <2>1, <2>2
<1>7. CASE ~Pings /\ ~Publish /\ \E c \in ClientId : RequestDisconnect(c) \/ Crash(c)
  <2>1. /\ instructions' = instructions /\ strays' = strays /\ owesPong' \subseteq owesPong
        /\ current' = current
    BY <1>7 DEF RequestDisconnect, Crash, Down, mainVars
  <2>2. clients' \subseteq clients /\ \A c \in clients' : pingStatus'[c] = pingStatus[c]
    BY <1>0, <1>7 DEF RequestDisconnect, Crash, RemoveClient, Forget, Without, registryVars,
         clientVars, pingVars
  <2> QED BY <1>5, <1>7, <2>1, <2>2
<1>8. CASE /\ ~Pings /\ ~Publish
           /\ \/ \E c \in ClientId : SendRequest(c) \/ SendInput(c) \/ SendPong(c)
              \/ \E c \in ClientId, q \in QualityIndex : SendQuality(c, q)
  <2>1. /\ clients' = clients /\ pingStatus' = pingStatus /\ strays' = strays
        /\ current' = current
    BY <1>8 DEF SendRequest, SendInput, SendPong, SendQuality, registryVars, clientVars, pingVars,
         mainVars, remoteVars
  <2>2. SUFFICES ASSUME NEW c \in clients, <<c, "Ping">> \notin strays PROVE PingAlone(c)'
    BY <2>1 DEF PingsAlone
  <2>3. PingAlone(c) /\ OneQueued(c) /\ OneComing(c) /\ c \in ClientId
    BY <1>3, <2>2
  <2>4. OneQueued(c)' /\ (PingQueued(c)' => PingQueued(c)) /\ (PongInHand(c)' => PongInHand(c))
    BY <1>1, <1>8, <2>1, <2>3 DEF PongInHand
  <2>5. ASSUME NEW d \in ClientId, NEW type \in {"Request", "Input", "Quality", "Pong"}, NEW q \in Nat,
               Collect(d, type, q), d # c \/ type # "Pong", owesPong' \subseteq owesPong
        PROVE  PingAlone(c)'
    <3> DEFINE i == [type |-> type, from |-> d, quality |-> q]
    <3>1. i \in Instruction /\ ~IsPong(i, c) /\ instructions' = Append(instructions, i)
      BY <2>5 DEF Instruction, IsPong, Collect
    <3> HIDE DEF i
    <3>2. OneComing(c)' /\ (PongComing(c)' => PongComing(c))
      BY <1>0, <2>3, <3>1, ComingMore
    <3>3. InFlight(c)' => InFlight(c)
      BY <2>4, <2>5, <3>2 DEF InFlight
    <3> QED BY <1>4, <2>1, <2>3, <2>4, <2>5, <3>2, <3>3, AloneStays
  <2>6. ASSUME SendPong(c) PROVE PingAlone(c)'
    <3> DEFINE i == [type |-> "Pong", from |-> c, quality |-> 0]
    <3>1. i \in Instruction /\ instructions' = Append(instructions, i)
      BY <2>3, <2>6 DEF Instruction, Collect, SendPong
    <3>2. c \in owesPong /\ c \notin owesPong'
      BY <2>6 DEF SendPong
    <3>3. ~PongComing(c) /\ ~PingQueued(c) /\ ~PongInHand(c) /\ pingStatus[c] = "WaitingForPong"
      BY <2>3, <3>2 DEF PingAlone, InFlight
    <3> HIDE DEF i
    <3>4. OneComing(c)'
      BY <1>0, <3>1, <3>3, ComingMore
    <3> QED BY <2>1, <2>4, <3>2, <3>3, <3>4 DEF PingAlone
  <2>7. CASE \E d \in ClientId : SendRequest(d) \/ SendInput(d)
    BY <2>5, <2>7 DEF SendRequest, SendInput, remoteVars
  <2>8. CASE \E d \in ClientId, q \in QualityIndex : SendQuality(d, q)
    BY <2>5, <2>8, EngineAssumption DEF SendQuality, remoteVars
  <2>9. CASE \E d \in ClientId : SendPong(d)
    <3>1. PICK d \in ClientId : SendPong(d)
      BY <2>9
    <3>2. CASE d = c
      BY <2>6, <3>1, <3>2
    <3>3. CASE d # c
      BY <2>5, <3>1, <3>3 DEF SendPong
    <3> QED BY <3>2, <3>3
  <2> QED BY <1>8, <2>7, <2>8, <2>9
<1>9. CASE ~Pings /\ ~Publish /\ LookUpClient
  <2>1. /\ clients' = clients /\ pingStatus' = pingStatus /\ strays' = strays
        /\ owesPong' = owesPong
        /\ instructions # <<>> /\ instructions' = Tail(instructions)
        /\ pc = "instructions"
    BY <1>9 DEF LookUpClient, registryVars, clientVars, pingVars, remoteVars
  <2>2. SUFFICES ASSUME NEW c \in clients, <<c, "Ping">> \notin strays PROVE PingAlone(c)'
    BY <2>1 DEF PingsAlone
  <2>3. PingAlone(c) /\ OneQueued(c) /\ OneComing(c)
    BY <1>3, <2>2
  <2>4. OneQueued(c)' /\ (PingQueued(c)' => PingQueued(c))
    BY <1>1, <1>9, <2>3
  <2>5. /\ OneComing(c)' /\ (PongComing(c)' => PongComing(c))
        /\ IsPong(Head(instructions), c) => PongComing(c) /\ ~PongComing(c)'
    BY <1>0, <2>1, <2>3, ComingLess
  <2>6. ~PongInHand(c)
    BY <1>0, <2>1 DEF OnlyKnownAnswer, PongInHand
  <2>7. PongInHand(c)' => IsPong(Head(instructions), c)
    <3> DEFINE i == Head(instructions)
    <3>1. \/ current' = current
          \/ current' = [type |-> i.type, from |-> i.from, index |-> index[i.from],
                         quality |-> i.quality]
      BY <1>9 DEF LookUpClient
    <3> HIDE DEF i
    <3>2. PongInHand(c)' => IsPong(i, c)
      BY <2>6, <3>1 DEF PongInHand, IsPong
    <3> QED BY <3>2 DEF i
  <2>8. CASE ~PongInHand(c)'
    <3>1. InFlight(c)' => InFlight(c)
      BY <2>1, <2>4, <2>5, <2>8 DEF InFlight
    <3> QED BY <1>4, <2>1, <2>3, <2>4, <2>5, <2>8, <3>1, AloneStays
  <2>9. CASE PongInHand(c)'
    <3>1. PongComing(c) /\ ~PongComing(c)'
      BY <2>5, <2>7, <2>9
    <3>2. ~PingQueued(c) /\ c \notin owesPong /\ pingStatus[c] = "WaitingForPong"
      BY <2>3, <3>1 DEF PingAlone, InFlight
    <3> QED BY <2>1, <2>4, <2>5, <3>1, <3>2 DEF PingAlone
  <2> QED BY <2>8, <2>9
<1>10. CASE ~Pings /\ ~Publish /\ HandlePong
  <2>1. /\ clients' = clients /\ strays' = strays /\ owesPong' = owesPong
        /\ instructions' = instructions /\ current' = Idle
        /\ \A c \in clients : c # current.from => pingStatus'[c] = pingStatus[c]
        /\ current.type = "Pong"
    BY <1>0, <1>10 DEF HandlePong, Handled, OnPongReceived, registryVars, clientVars, pingVars,
         remoteVars
  <2>2. SUFFICES ASSUME NEW c \in clients, <<c, "Ping">> \notin strays PROVE PingAlone(c)'
    BY <2>1 DEF PingsAlone
  <2>3. PingAlone(c) /\ OneQueued(c) /\ OneComing(c)
    BY <1>3, <2>2
  <2>4. /\ OneQueued(c)' /\ (PingQueued(c)' => PingQueued(c))
        /\ OneComing(c)' /\ (PongComing(c)' => PongComing(c))
        /\ ~PongInHand(c)'
    BY <1>1, <1>2, <1>10, <2>1, <2>3 DEF PongInHand, Idle
  <2>5. InFlight(c)' => pingStatus'[c] = "WaitingForPong"
    <3>1. CASE c = current.from
      <4>1. PongInHand(c)
        BY <2>1, <3>1 DEF PongInHand
      <4> QED BY <2>1, <2>3, <2>4, <4>1 DEF PingAlone, InFlight
    <3>2. CASE c # current.from
      BY <1>4, <2>1, <2>3, <2>4, <3>2 DEF InFlight
    <3> QED BY <3>1, <3>2
  <2> QED BY <2>1, <2>3, <2>4, <2>5, AloneStays
<1>11. CASE ~Pings /\ ~Publish /\ \E c \in ClientId : Connect(c)
  <2>1. PICK d \in ClientId : Connect(d)
    BY <1>11
  <2>2. /\ clients' = clients \cup {d} /\ pingStatus' = pingStatus /\ strays' = strays
        /\ owesPong' = owesPong /\ instructions' = instructions /\ messages' = messages
        /\ current' = current /\ remote[d] = "new"
    BY <2>1 DEF Connect, AddClient, pingVars, mainVars
  <2>3. SUFFICES ASSUME NEW c \in clients', <<c, "Ping">> \notin strays' PROVE PingAlone(c)'
    BY DEF PingsAlone
  <2>4. CASE c \in clients
    <3>1. PingAlone(c)
      BY <1>3, <2>2, <2>3, <2>4
    <3> QED BY <2>2, <3>1 DEF PingAlone, OneQueued, OneComing, PingQueued, PongComing, PongInHand,
            InFlight
  <2>5. CASE c = d
    <3>1. d \notin Known
      BY <2>2 DEF Known
    <3>2. ~PingQueued(d)
      <4>1. ASSUME NEW n \in DOMAIN messages, IsPing(messages[n], d) PROVE FALSE
        <5>1. messages[n].for \subseteq Known
          BY <4>1 DEF PingInv, AddressInv, MessagesAddressed, Addressed, Addresses, IsPing
        <5> QED BY <3>1, <4>1, <5>1 DEF IsPing
      <4> QED BY <4>1 DEF PingQueued
    <3>3. ~PongComing(d) /\ d \notin owesPong
      BY <1>0, <3>1 DEF OnlyKnownAnswer, PongComing, IsPong
    <3>4. ~PongInHand(d)
      BY <1>0, <3>1 DEF OnlyKnownAnswer, PongInHand, PingInv, AddressInv, HandledIsKnown
    <3> QED BY <2>2, <2>5, <3>2, <3>3, <3>4
            DEF PingAlone, OneQueued, OneComing, PingQueued, PongComing, PongInHand, InFlight
  <2> QED BY <2>2, <2>4, <2>5
<1>12. CASE Pings
  <2>1. PICK t \in Seq(QueuedMessage) :
           /\ messages' = messages \o t
           /\ \A i \in DOMAIN t : \A c \in clients : IsPing(t[i], c) => c \in RequiresPing
           /\ \A i, j \in DOMAIN t : \A c \in clients :
                IsPing(t[i], c) /\ IsPing(t[j], c) => i = j
    BY <1>0, <1>12, PingsMade
  <2>2. /\ clients' \subseteq clients /\ clients' \cap PongTimeout = {} /\ strays' = strays
        /\ owesPong' = owesPong /\ instructions' = instructions /\ current' = current
        /\ \A c \in clients' : pingStatus'[c] = IF c \in RequiresPing THEN "WaitingForPong"
                                                ELSE pingStatus[c]
    BY <1>0, <1>12 DEF Pings, HandleClientPings, Forget, remoteVars
  <2>3. SUFFICES ASSUME NEW c \in clients', <<c, "Ping">> \notin strays' PROVE PingAlone(c)'
    BY DEF PingsAlone
  <2>4. c \in clients /\ PingAlone(c) /\ OneQueued(c) /\ OneComing(c)
    BY <1>3, <2>2, <2>3
  <2>5. /\ OneComing(c)' /\ (PongComing(c)' => PongComing(c))
        /\ (PongInHand(c)' => PongInHand(c))
    BY <1>2, <2>2, <2>4 DEF PongInHand
  <2>6. CASE c \in RequiresPing
    <3>1. pingStatus[c] # "WaitingForPong" /\ pingStatus'[c] = "WaitingForPong"
      BY <2>2, <2>3, <2>6 DEF RequiresPing
    <3>2. ~InFlight(c)
      BY <1>4, <2>4, <3>1
    <3>3. OneQueued(c)'
      BY <1>0, <2>1, <2>4, <3>2, QueueOneMore DEF InFlight
    <3> QED BY <2>2, <2>5, <3>1, <3>2, <3>3 DEF PingAlone, InFlight
  <2>7. CASE c \notin RequiresPing
    <3>1. OneQueued(c)' /\ (PingQueued(c)' => PingQueued(c))
      BY <1>0, <2>1, <2>4, <2>7, QueueMore
    <3>2. InFlight(c)' => InFlight(c)
      BY <2>2, <2>5, <3>1 DEF InFlight
    <3> QED BY <1>4, <2>2, <2>3, <2>4, <2>5, <2>7, <3>1, <3>2, AloneStays
  <2> QED BY <2>6, <2>7
<1>13. CASE Publish
  <2> DEFINE m == messages[1]
             taken == Receivers(m.mask)
  <2>1. /\ messages # <<>> /\ messages' = Tail(messages) /\ Head(messages) = m
        /\ 1 \in DOMAIN messages
    BY <1>0, <1>13 DEF Publish, QueuesOK
  <2>2. /\ clients' = clients /\ pingStatus' = pingStatus /\ instructions' = instructions
        /\ current' = current
        /\ strays' = strays \cup ((taken \ m.for) \X ({m.type} \cap {"Ping", "Response"}))
        /\ m.type = "Ping" => owesPong' = owesPong \cup taken
        /\ m.type # "Ping" => owesPong' \subseteq owesPong
    BY <1>13, <2>1 DEF Publish, Down, registryVars, clientVars, pingVars, mainVars
  <2> HIDE DEF taken, m
  <2>3. SUFFICES ASSUME NEW c \in clients, <<c, "Ping">> \notin strays' PROVE PingAlone(c)'
    BY <2>2 DEF PingsAlone
  <2>4. PingAlone(c) /\ OneQueued(c) /\ OneComing(c)
    BY <1>3, <2>2, <2>3
  <2>5. /\ OneComing(c)' /\ (PongComing(c)' => PongComing(c))
        /\ (PongInHand(c)' => PongInHand(c))
        /\ OneQueued(c)' /\ (PingQueued(c)' => PingQueued(c))
        /\ IsPing(m, c) => ~PingQueued(c)'
    BY <1>0, <1>2, <2>1, <2>2, <2>4, QueueLess DEF PongInHand, m
  <2>6. CASE c \in owesPong' => c \in owesPong
    <3>1. InFlight(c)' => InFlight(c)
      BY <2>5, <2>6 DEF InFlight
    <3> QED BY <1>4, <2>2, <2>4, <2>5, <2>6, <3>1, AloneStays
  <2>7. CASE c \in owesPong' /\ c \notin owesPong
    <3>1. m.type = "Ping" /\ c \in taken
      BY <2>2, <2>7
    <3>2. c \in m.for
      BY <2>2, <2>3, <3>1
    <3>3. IsPing(m, c)
      BY <2>1, <3>1, <3>2 DEF PingInv, PingsAreForOne, IsPing, m
    <3>4. PingQueued(c) /\ ~PingQueued(c)'
      BY <2>1, <2>5, <3>3 DEF PingQueued, m
    <3>5. ~PongComing(c) /\ ~PongInHand(c) /\ pingStatus[c] = "WaitingForPong"
      BY <2>4, <3>4 DEF PingAlone, InFlight
    <3> QED BY <2>2, <2>5, <3>4, <3>5 DEF PingAlone
  <2> QED BY <2>6, <2>7
<1> QED BY <1>6, <1>7, <1>8, <1>9, <1>10, <1>11, <1>12, <1>13 DEF EngineNext, Controller

LEMMA OnlyKnownStep ==
  ASSUME PingInv, [EngineNext]_engineVars, EngineInv'
  PROVE  PingsAreForOne' /\ OnlyKnownAnswer'
<1>0. EngineInv /\ QueuesOK /\ OnlyKnownAnswer /\ PingsAreForOne /\ RegistryInv'
  BY DEF PingInv, AddressInv, EngineInv
<1>1. Known \subseteq Known'
  BY <1>0, EntersOnce DEF Known
<1>2. PingsAreForOne'
  <2>1. ASSUME NEW n \in DOMAIN messages', messages'[n].type = "Ping"
        PROVE  \E c \in ClientId : messages'[n].for = {c}
    <3>1. (\E k \in DOMAIN messages : messages'[n] = messages[k]) \/ Made(messages'[n])
      BY <1>0, MadeByStep
    <3>2. CASE \E k \in DOMAIN messages : messages'[n] = messages[k]
      BY <1>0, <2>1, <3>2 DEF PingsAreForOne
    <3>3. CASE Made(messages'[n])
      BY <1>0, <2>1, <3>3, Addressees DEF Made, ToClient, ToGroup
    <3> QED BY <3>1, <3>2, <3>3
  <2> QED BY <2>1 DEF PingsAreForOne
<1>3. owesPong' \subseteq Known'
  <2>1. CASE Publish
    <3>1. owesPong' \subseteq owesPong \cup Receivers(Head(messages).mask)
      BY <2>1 DEF Publish, Down
    <3>2. Receivers(Head(messages).mask) \subseteq Known
      BY DEF Receivers, Known
    <3> QED BY <1>0, <1>1, <3>1, <3>2 DEF OnlyKnownAnswer
  <2>2. CASE ~Publish
    <3>1. owesPong' \subseteq owesPong
      <4>1. CASE Controller
        BY <4>1, LoopTakesClients DEF remoteVars
      <4>2. CASE ~Controller
        BY <2>2, <4>2 DEF EngineNext, ClockTick, Connect, RequestDisconnect, Crash, Down,
             SendRequest, SendInput, SendPong, SendQuality, remoteVars, engineVars
      <4> QED BY <4>1, <4>2
    <3> QED BY <1>0, <1>1, <3>1 DEF OnlyKnownAnswer
  <2> QED BY <2>1, <2>2
<1>4. current'.type = "Pong" => pc' = "handle"
  <2>1. CASE Controller
    BY <1>0, <2>1 DEF OnlyKnownAnswer, Controller, BeginTurn, LookUpClient, HandleRequest,
         HandleInput, HandlePong, HandleQuality, EndInstructions, Events, Pings, UpdateWindows,
         VerifyQuality, RefreshMouse, Handled, Idle
  <2>2. CASE ~Controller
    BY <1>0, <2>2, OthersLeaveLoop DEF OnlyKnownAnswer, mainVars
  <2> QED BY <2>1, <2>2
<1>5. \A n \in DOMAIN instructions' :
        instructions'[n].type = "Pong" => instructions'[n].from \in Known'
  <2>1. ASSUME \A n \in DOMAIN instructions' :
                 \/ \E k \in DOMAIN instructions : instructions'[n] = instructions[k]
                 \/ instructions'[n].type = "Pong" => instructions'[n].from \in owesPong
        PROVE  \A n \in DOMAIN instructions' :
                 instructions'[n].type = "Pong" => instructions'[n].from \in Known'
    BY <1>0, <1>1, <2>1 DEF OnlyKnownAnswer
  <2>2. ASSUME NEW i \in Instruction, instructions' = Append(instructions, i),
               i.type = "Pong" => i.from \in owesPong
        PROVE  \A n \in DOMAIN instructions' :
                 \/ \E k \in DOMAIN instructions : instructions'[n] = instructions[k]
                 \/ instructions'[n].type = "Pong" => instructions'[n].from \in owesPong
    <3> DEFINE l == Len(instructions)
    <3>1. /\ l \in Nat
          /\ DOMAIN instructions' = 1 .. l + 1
          /\ \A n \in 1..l : n \in DOMAIN instructions /\ instructions'[n] = instructions[n]
          /\ instructions'[l + 1] = i
      BY <1>0, <2>2 DEF QueuesOK
    <3> HIDE DEF l
    <3>2. ASSUME NEW n \in DOMAIN instructions'
          PROVE  \/ \E k \in DOMAIN instructions : instructions'[n] = instructions[k]
                 \/ instructions'[n].type = "Pong" => instructions'[n].from \in owesPong
      <4>1. CASE n \in 1..l
        BY <3>1, <4>1
      <4>2. CASE n = l + 1
        BY <2>2, <3>1, <4>2
      <4> QED BY <3>1, <4>1, <4>2
    <3> QED BY <3>2
  <2>3. CASE instructions' = instructions
    BY <2>1, <2>3
  <2>4. CASE LookUpClient
    <3>1. \A n \in DOMAIN instructions' : /\ n + 1 \in DOMAIN instructions
                                          /\ instructions'[n] = instructions[n + 1]
      BY <1>0, <2>4 DEF LookUpClient, QueuesOK
    <3> QED BY <2>1, <3>1
  <2>5. ASSUME NEW c \in ClientId, NEW type \in {"Request", "Input", "Quality", "Pong"},
               NEW q \in Nat, Collect(c, type, q), type = "Pong" => c \in owesPong
        PROVE  \A n \in DOMAIN instructions' :
                 instructions'[n].type = "Pong" => instructions'[n].from \in Known'
    <3> DEFINE i == [type |-> type, from |-> c, quality |-> q]
    <3>1. /\ i \in Instruction /\ instructions' = Append(instructions, i)
          /\ i.type = "Pong" => i.from \in owesPong
      BY <2>5 DEF Instruction, Collect
    <3> HIDE DEF i
    <3> QED BY <2>1, <2>2, <3>1
  <2>6. CASE \E c \in ClientId : SendRequest(c) \/ SendInput(c) \/ SendPong(c)
    BY <2>5, <2>6 DEF SendRequest, SendInput, SendPong
  <2>7. CASE \E c \in ClientId, q \in QualityIndex : SendQuality(c, q)
    BY <2>5, <2>7, EngineAssumption DEF SendQuality
  <2>8. CASE ~LookUpClient /\ ~(\E c \in ClientId : SendRequest(c) \/ SendInput(c) \/ SendPong(c))
             /\ ~(\E c \in ClientId, q \in QualityIndex : SendQuality(c, q))
    <3>1. instructions' = instructions
      BY <2>8 DEF EngineNext, Controller, BeginTurn, HandleRequest, HandleInput, HandlePong,
           HandleQuality, EndInstructions, Events, Pings, UpdateWindows, VerifyQuality,
           RefreshMouse, Publish, ClockTick, Connect, RequestDisconnect, Crash, engineVars
    <3> QED BY <2>3, <3>1
  <2> QED BY <2>4, <2>6, <2>7, <2>8
<1> QED BY <1>2, <1>3, <1>4, <1>5 DEF OnlyKnownAnswer

LEMMA PingInvInit == EngineInit => PingInv
<1> SUFFICES ASSUME EngineInit PROVE PingInv
  OBVIOUS
<1>1. DOMAIN messages = {} /\ DOMAIN instructions = {}
  BY DEF EngineInit
<1> QED BY <1>1, AddressInvInit DEF EngineInit, RegistryInit, PingInv, PingsAreForOne,
        OnlyKnownAnswer, PingsAlone, Idle

LEMMA PingInvNext == PingInv /\ [EngineNext]_engineVars => PingInv'
<1> SUFFICES ASSUME PingInv, [EngineNext]_engineVars PROVE PingInv'
  OBVIOUS
<1>1. AddressInv' /\ EngineInv'
  BY AddressInvNext DEF PingInv, AddressInv
<1> QED BY <1>1, PingsAloneStep, OnlyKnownStep DEF PingInv

\* One of two at most, if any two are the same.
LEMMA AtMostOne ==
  ASSUME NEW S, \A x, y \in S : x = y
  PROVE  Cardinality(S) \in {0, 1} /\ (S = {} => Cardinality(S) = 0)
<1>1. Cardinality({}) = 0
  BY FS_EmptySet
<1>2. CASE S = {}
  BY <1>1, <1>2
<1>3. CASE S # {}
  <2>1. PICK x : x \in S
    BY <1>3
  <2>2. S = {x}
    BY <2>1
  <2>3. Cardinality({x}) = 1
    BY FS_Singleton
  <2> QED BY <1>3, <2>2, <2>3
<1> QED BY <1>2, <1>3

LEMMA AloneIsOne ==
  ASSUME NEW c, PingAlone(c)
  PROVE  PingsInFlight(c) <= IF pingStatus[c] = "WaitingForPong" THEN 1 ELSE 0
<1> DEFINE A == {n \in DOMAIN messages : messages[n].type = "Ping" /\ messages[n].for = {c}}
           B == {c} \cap owesPong
           C == {n \in DOMAIN instructions :
                   instructions[n].type = "Pong" /\ instructions[n].from = c}
           D == {d \in {c} : current.type = "Pong" /\ current.from = d}
<1>1. /\ (\A x, y \in A : x = y) /\ (A # {} => PingQueued(c))
  BY DEF PingAlone, OneQueued, PingQueued, IsPing
<1>2. /\ (\A x, y \in B : x = y) /\ (B # {} => c \in owesPong)
  OBVIOUS
<1>3. /\ (\A x, y \in C : x = y) /\ (C # {} => PongComing(c))
  BY DEF PingAlone, OneComing, PongComing, IsPong
<1>4. /\ (\A x, y \in D : x = y) /\ (D # {} => PongInHand(c))
  BY DEF PongInHand
<1>5. PingsInFlight(c) = Cardinality(A) + Cardinality(B) + Cardinality(C) + Cardinality(D)
  BY DEF PingsInFlight
<1> HIDE DEF A, B, C, D
<1>6. /\ Cardinality(A) \in {0, 1} /\ (A = {} => Cardinality(A) = 0)
      /\ Cardinality(B) \in {0, 1} /\ (B = {} => Cardinality(B) = 0)
      /\ Cardinality(C) \in {0, 1} /\ (C = {} => Cardinality(C) = 0)
      /\ Cardinality(D) \in {0, 1} /\ (D = {} => Cardinality(D) = 0)
  BY <1>1, <1>2, <1>3, <1>4, AtMostOne
<1>7. /\ A # {} => B = {} /\ C = {} /\ D = {}
      /\ B # {} => C = {} /\ D = {}
      /\ C # {} => D = {}
      /\ A # {} \/ B # {} \/ C # {} \/ D # {} => pingStatus[c] = "WaitingForPong"
  BY <1>1, <1>2, <1>3, <1>4 DEF PingAlone, InFlight
<1> QED BY <1>5, <1>6, <1>7

\* A client has at most one ping unanswered, wherever it is, and none while the registry
\* waits to send the next one (updatePingStatus, onPingSent).
THEOREM OnePingAtATime == EngineSpec => []OnePingInFlight
<1>1. EngineSpec => []PingInv
  BY PingInvInit, PingInvNext, PTL DEF EngineSpec
<1>2. PingInv => OnePingInFlight
  BY AloneIsOne DEF PingInv, PingsAlone, OnePingInFlight
<1> QED BY <1>1, <1>2, PTL
=============================================================================
