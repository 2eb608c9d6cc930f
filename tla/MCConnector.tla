----------------------------- MODULE MCConnector -----------------------------
(* The connector for TLC; MCConnector.cfg gives the instance. *)
EXTENDS Connector

ConnectRight == [command |-> "connect", session |-> "right", id |-> NoClient]

\* The impatient peers come and go; the others try every way through the handler.
AskedByEach ==
  [p \in Peer |->
     IF p \in Impatient
     THEN {ConnectRight}
          \cup [command : {"disconnect"}, session : {"right"}, id : {CHOOSE c \in ClientId : TRUE}]
     ELSE {ConnectRight, Unknown, [command |-> "ping", session |-> "wrong", id |-> NoClient]}]
=============================================================================
