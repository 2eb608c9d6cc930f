---------------------------- MODULE RequestReply ----------------------------
(***************************************************************************)
(* What those who talk to the connector are promised: a request that is    *)
(* taken gets exactly one reply, which goes to the socket it came from,    *)
(* and no other request is taken before.  A reply whose addressee has gone *)
(* is lost.                                                                *)
(***************************************************************************)
CONSTANT Socket

VARIABLES
  asked,    \* sockets with a request on its way
  served,   \* the socket whose request is being served, if any
  replied   \* sockets with a reply on its way

exchangeVars == <<asked, served, replied>>

ExchangeInit ==
  /\ asked = {}
  /\ served = {}
  /\ replied = {}

Ask(s) ==
  /\ s \notin asked \cup served \cup replied
  /\ asked' = asked \cup {s}
  /\ UNCHANGED <<served, replied>>

Serve(s) ==
  /\ s \in asked
  /\ served = {}
  /\ asked' = asked \ {s}
  /\ served' = {s}
  /\ UNCHANGED replied

\* The reply to a socket that is closed goes nowhere.
Reply(s) ==
  /\ served = {s}
  /\ served' = {}
  /\ replied' \in {replied, replied \cup {s}}
  /\ UNCHANGED asked

\* The reply is taken, or its addressee has gone.
TakeReply(s) ==
  /\ s \in replied
  /\ replied' = replied \ {s}
  /\ UNCHANGED <<asked, served>>

ExchangeNext ==
  \E s \in Socket : Ask(s) \/ Serve(s) \/ Reply(s) \/ TakeReply(s)

ExchangeSpec == ExchangeInit /\ [][ExchangeNext]_exchangeVars
=============================================================================
