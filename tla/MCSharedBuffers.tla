-------------------------- MODULE MCSharedBuffers ---------------------------
(* Three clients of three groups.  The second one limits the transmissions *)
(* of all its messages, the others of none.                                *)
EXTENDS SharedBuffers

CONSTANTS c1, c2, c3, k1, k2, k3, p1, q1, p2, p3

OwnerOf == (p1 :> c1) @@ (q1 :> c1) @@ (p2 :> c2) @@ (p3 :> c3)
GroupOf == (c1 :> k1) @@ (c2 :> k2) @@ (c3 :> k3)

Plan(plan) == [p \in Producers |-> IF p \in DOMAIN plan THEN plan[p] ELSE 0]

\* Two groups wait; two producers of one group wait; three groups are active.
Fleets == {Plan((q1 :> 2) @@ (p2 :> 2)),
           Plan((p1 :> 1) @@ (q1 :> 2) @@ (p2 :> 1)),
           Plan((p1 :> 2) @@ (p2 :> 1) @@ (p3 :> 1))}

TwoWait == {Plan((q1 :> 2) @@ (p2 :> 2)),
            Plan((p1 :> 1) @@ (q1 :> 2) @@ (p2 :> 1))}

Flows == (c1 :> {4}) @@ (c2 :> {4}) @@ (c3 :> {})

Limited(size, max) == [size |-> size, receipt |-> TRUE, max |-> max, ackRequested |-> FALSE]
Plain(size) == [size |-> size, receipt |-> FALSE, max |-> 0, ackRequested |-> FALSE]

OneLimit == (p1 :> {Plain(2)}) @@ (q1 :> {Plain(3)}) @@ (p2 :> {Limited(3, 1)})
              @@ (p3 :> {Plain(1)})

TwoOwners == (p1 :> c1) @@ (q1 :> c1) @@ (p2 :> c2)
TwoGroups == (c1 :> k1) @@ (c2 :> k2)
TwoFlows == (c1 :> {4}) @@ (c2 :> {4})
TwoLimits == (p1 :> {Plain(2)}) @@ (q1 :> {Plain(3)}) @@ (p2 :> {Limited(3, 1)})

OneOwner == (p1 :> c1)
OneGroup == (c1 :> k1)
OneFlow == (c1 :> {4})
OnePlan == {(p1 :> 3)}
MixedLimits == (p1 :> {Plain(3), Limited(1, 1)})
=============================================================================
