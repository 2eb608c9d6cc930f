--------------------------- MODULE MCWindowImages ---------------------------
(* A small instance of WindowImages for TLC.  A window goes back to an older   *)
(* image in four changes at the least, and away from it with the fifth; so     *)
(* many are made while one client looks on, fewer while two do.                *)
EXTENDS WindowImages, FiniteSets

CONSTANT MaxDrawsForTwo  \* bound on the changes while two clients are there

Connected == {c \in Client : group[c] # Unknown}
WithinBounds == draws <= MaxDrawsForTwo \/ Cardinality(Connected) <= 1

\* The bound keeps no fair action from its step: none of them draws or connects.
BoundedImagesSpec ==
  ImagesInit /\ [][ImagesNext /\ WithinBounds']_imagesVars /\ ImagesFairness
=============================================================================
