----------------------------- MODULE MCKeyboard -----------------------------
(* Small instances of Keyboard for TLC, with two of its tables. *)
EXTENDS Keyboard, KeyboardLayouts, TLC

MCLayout == {"gb", "hu"}
MCKeysym == DOMAIN Common \cup DOMAIN Gb
MCMapping == [l \in MCLayout |-> [k \in DOMAIN Common \cup DOMAIN KeyMaps(l) |->
                                   IF k \in DOMAIN Common THEN Common[k] ELSE KeyMaps(l)[k]]]

MCSymmetry == Permutations(Client)
=============================================================================
