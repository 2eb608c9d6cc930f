\* Two windows, three changes, one request of the engine between them, drawings of
\* one or two boxes.
CONSTANTS
  Window = {w1, w2}
  MaxChanges = 3
  MaxSerial = 1
  MaxBoxes = 2
SPECIFICATION FairFilterSpec
CHECK_DEADLOCK FALSE
INVARIANT FilterIsExact
 
PROPERTY FiltersGo
