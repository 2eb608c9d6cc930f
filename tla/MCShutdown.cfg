\* Two clients, and a second signal while the first is being obeyed.
\* The process ends.
CONSTANTS
  Client = {c1, c2}
  MaxSignals = 2
SPECIFICATION FairShutdownSpec
CHECK_DEADLOCK FALSE
INVARIANT NoThreadLeft
 
PROPERTY StopsOrFaults
