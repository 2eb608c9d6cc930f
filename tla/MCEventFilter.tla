--------------------------- MODULE MCEventFilter ---------------------------
(* Small instances of EventFilter for TLC. *)
EXTENDS EventFilter
=============================================================================
