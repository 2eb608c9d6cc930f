\* Two clients hold up to three keys: one of each kind that the tables have.  The layout changes
\* once, or a client goes.
CONSTANTS
  Client = {c1, c2}
  Layout <- MCLayout
  Keysym <- MCKeysym
  Mapping <- MCMapping
  Sent = {"exclam", "brokenbar", "KP_1", "End", "Num_Lock", "Shift_R"}
  MaxHeld = 3
  MaxUpsets = 1
SYMMETRY MCSymmetry
SPECIFICATION KeyboardSpec
INVARIANT NothingStuck
INVARIANT NumLockRestored
 
