------------------------------- MODULE MCEvent -------------------------------
(* Three callers: a list from which the middle one can be removed.          *)
EXTENDS Event

CONSTANTS c1, c2, c3

Alike == Permutations({c1, c2, c3})
==============================================================================
