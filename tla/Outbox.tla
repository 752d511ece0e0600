------------------------------- MODULE Outbox -------------------------------
(***************************************************************************)
(* What a client promises of the messages it accepted, without the buffer, *)
(* the connections and the goroutines: each is received by the peer, in    *)
(* order, before it is confirmed; a confirmed one is never returned by     *)
(* Close; none disappears; and once the client is at rest, none changes    *)
(* its state.  Message s is the s-th accepted one.                         *)
(***************************************************************************)
EXTENDS Integers, Sequences

VARIABLES box,        \* of each message: held, acknowledged or retired
          garbled,    \* the messages that cannot be encoded, hence not sent
          received,   \* the messages the peer got
          returned,   \* what Close returned, once it has
          isOpen,     \* messages are accepted
          atRest      \* Close has let go of the receipts

vars == <<box, garbled, received, returned, isOpen, atRest>>

NotYet == {0}

HeldIn(b) == {s \in DOMAIN b : b[s] = "held"}

\* The peer, or nobody, has every message of S.
Arrived(S) == S \subseteq received \cup garbled

Init == /\ box = <<>>
        /\ garbled = {}
        /\ received = {}
        /\ returned = NotYet
        /\ isOpen = TRUE
        /\ atRest = FALSE

Accept == /\ isOpen
          /\ box' = Append(box, "held")
          /\ garbled' \in {garbled, garbled \cup {Len(box) + 1}}
          /\ UNCHANGED <<received, returned, isOpen, atRest>>

\* In order: what is still held before s has arrived.
Receive(s) == /\ s \in DOMAIN box \ garbled
              /\ Arrived({t \in HeldIn(box) : t < s})
              /\ received' = received \cup {s}
              /\ UNCHANGED <<box, garbled, returned, isOpen, atRest>>

\* A cumulative confirmation, of messages that arrived and were not returned.
Confirm(s) == /\ returned = NotYet
              /\ Arrived({t \in HeldIn(box) : t <= s})
              /\ box' = [t \in DOMAIN box |->
                           IF t <= s /\ box[t] = "held" THEN "acknowledged" ELSE box[t]]
              /\ UNCHANGED <<garbled, received, returned, isOpen, atRest>>

GiveUp(S) == /\ box' = [t \in DOMAIN box |-> IF t \in S THEN "retired" ELSE box[t]]
             /\ UNCHANGED <<garbled, received, returned, isOpen, atRest>>

\* Messages that used up their transmissions are given up.
Retire(S) == returned = NotYet /\ GiveUp(S)

\* A reconnect that Close does not wait for gives up messages that Close has
\* already collected: the caller gets them back, and they read retired.
RetireReturned(S) == returned # NotYet /\ ~atRest /\ GiveUp(S)

Shut == /\ isOpen' = FALSE
        /\ UNCHANGED <<box, garbled, received, returned, atRest>>

Return == /\ ~isOpen
          /\ returned = NotYet
          /\ returned' = HeldIn(box)
          /\ UNCHANGED <<box, garbled, received, isOpen, atRest>>

Rest == /\ returned # NotYet
        /\ atRest' = TRUE
        /\ UNCHANGED <<box, garbled, received, returned, isOpen>>

Next == \/ Accept \/ Shut \/ Return \/ Rest
        \/ \E s \in DOMAIN box : Receive(s) \/ Confirm(s)
        \/ \E S \in SUBSET HeldIn(box) : Retire(S) \/ RetireReturned(S)

Spec == Init /\ [][Next]_vars
=============================================================================
