------------------------------ MODULE MCClient ------------------------------
(* Two reconnect goroutines: one returning after its hand-off, one new.     *)
EXTENDS Client

CONSTANTS g1, g2
=============================================================================
