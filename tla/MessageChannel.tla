--------------------------- MODULE MessageChannel ---------------------------
(***************************************************************************)
(* What the controller is promised when it hands a message to the          *)
(* transport: messages go out in the order in which they were accepted,    *)
(* none twice and none left out before a later one.  Messages that are     *)
(* still waiting when the channel is closed may be lost.                   *)
(***************************************************************************)
EXTENDS Naturals, Sequences

CONSTANT Message

VARIABLES
  accepted,   \* every message accepted so far
  published   \* every message published so far

channelVars == <<accepted, published>>

ChannelInit ==
  /\ accepted = <<>>
  /\ published = <<>>

Accept ==
  /\ \E m \in Message : accepted' = Append(accepted, m)
  /\ UNCHANGED published

Deliver ==
  /\ Len(published) < Len(accepted)
  /\ published' = Append(published, accepted[Len(published) + 1])
  /\ UNCHANGED accepted

ChannelSpec == ChannelInit /\ [][Accept \/ Deliver]_channelVars
=============================================================================
