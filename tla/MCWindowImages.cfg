\* Two clients in up to two groups, a window of two tiles, two changes; five while there
\* is one client.  No symmetry: the run checks liveness too.
CONSTANTS
  Client = {c1, c2}
  Quality = {1, 2}
  Tile = {t1, t2}
  Picture = {black, white}
  Unknown = Unknown
  ImageChecksumEnabled = TRUE
  MaxDraws = 5
  MaxDrawsForTwo = 2
SPECIFICATION BoundedImagesSpec
CHECK_DEADLOCK FALSE
INVARIANT StaleIsAccountedFor
PROPERTY ViewCatchesUp
