\* Up to four messages of two kinds; stop may be called at any time.
\* The system stops for good when stop has returned and nothing more is put.
CONSTANTS
  Message = {m1, m2}
  MaxPut = 4
SPECIFICATION FairQueueSpec
CHECK_DEADLOCK FALSE
INVARIANT NeverAsleepAtWork
 
 
PROPERTY StopReturns
