\* Two applications and the clients copy three times, one of the contents is large, and
\* two questions may wait.
CONSTANTS
  App = {a1, a2}
  Content = {v1, v2, big}
  Large = {big}
  Empty = Empty
  Engine = Engine
  Null = Null
  MaxAsked = 2
  MaxCopies = 3
SPECIFICATION FairClipboardSpec
CHECK_DEADLOCK FALSE
INVARIANT LastSetWins
 
PROPERTY ContentFollowsOwner
