--------------------------- MODULE MCDisplayTree ---------------------------
(* Small instances of DisplayTree for TLC. *)
EXTENDS DisplayTree, TLC

\* Windows are compared for equality only.
WindowSymmetry == Permutations(Window)
=============================================================================
