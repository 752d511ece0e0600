---------------------------- MODULE MCAckBuffer -----------------------------
(* Small instances of AckBuffer. *)
EXTENDS AckBuffer, TLC

CONSTANTS p1, p2

Symmetric == Permutations(Producers)

Plain(size) == [size |-> size, receipt |-> FALSE, max |-> 0, ackRequested |-> FALSE]

Limited(size, max) == [size |-> size, receipt |-> TRUE, max |-> max, ackRequested |-> FALSE]

\* Frames with and without receipts and transmission limits.
LimitMessages == {Plain(0), Limited(0, 0), Limited(0, 1), Limited(0, 2)}

\* Sizes below and above the cap of 4; one kind has a transmission limit.
BlockMessages == {Plain(2), Limited(1, 1), Plain(6)}
=============================================================================
