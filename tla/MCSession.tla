----------------------------- MODULE MCSession ------------------------------
(* Small instances of Session. *)
EXTENDS Session

Message(receipt, max, ok) ==
  [receipt |-> receipt, max |-> max, ackRequested |-> FALSE, ok |-> ok]

\* Unlimited, limited to one transmission, and one that does not encode.
Mixed == {Message(FALSE, 0, TRUE), Message(TRUE, 1, TRUE), Message(FALSE, 0, FALSE)}
=============================================================================
