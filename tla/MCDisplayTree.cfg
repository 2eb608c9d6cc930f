\* Three windows, four changes of the X server, one of them before the engine
\* listens and up to two over the edge of the screen.
CONSTANTS
  Window = {w1, w2, w3}
  Root = Root
  Null = Null
  MaxChanges = 4
  MaxEarly = 1
  MaxMoves = 2
SPECIFICATION DisplaySpec
CHECK_DEADLOCK FALSE
SYMMETRY WindowSymmetry
INVARIANT ListIsRight
INVARIANT VisibleIsWatched
 
