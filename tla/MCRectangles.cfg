\* A window that is 3 pixels wide or 2, and 3 high, is drawn on three times and resized twice; another one has up
\* to three windows above it.
CONSTANTS
  Size <- MCSize
  MaxPaints = 3
  MaxResizes = 2
  Base <- MCBase
  Covering <- MCCovering
  Position <- MCPosition
  MaxAbove = 3
SPECIFICATION RectanglesSpec
CHECK_DEADLOCK FALSE
INVARIANT StaleIsDamaged
INVARIANT ApartUnlessGrown
INVARIANT CoverageNotOverrated
INVARIANT PointerIsFound
