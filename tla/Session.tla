------------------------------ MODULE Session -------------------------------
(***************************************************************************)
(* The messages of one client from Ship to the proxy and back: the buffer, *)
(* the sender and the listener, the reconnect goroutine, Close and the     *)
(* receipts, over connections that break.  Client has the goroutines' own  *)
(* protocol in detail; here a connection is up from the start of its       *)
(* workers until disconnect has joined them.                               *)
(*                                                                         *)
(* A connection is a FIFO in each direction.  The proxy is honest: it      *)
(* acknowledges only numbers it has received, on this or an earlier        *)
(* connection.  What a broken connection still delivered was received      *)
(* before the break.                                                       *)
(***************************************************************************)
EXTENDS AckBufferOps

CONSTANTS Messages,   \* admission options, and whether msgpack can encode it
          Windows, NoFrame,
          MaxSeq,     \* bound: numbers assigned
          MaxAcks,    \* bound: ACKs under way
          Watched     \* the numbers whose receipts are observed

ASSUME SessionAssumption ==
  /\ Messages \subseteq [receipt : BOOLEAN, max : Nat, ackRequested : BOOLEAN, ok : BOOLEAN]
  /\ \A m \in Messages : ~m.receipt => m.max = 0
  /\ Windows \subseteq Nat /\ NoFrame \notin Nat

VARIABLES ab,            \* the buffer
          conn,          \* the workers run
          inHand,        \* the sender's frame between GetNextToDeliver and the write
          toPeer,        \* numbers written and not yet read by the proxy
          toClient,      \* ACKs under way
          received,      \* history: the numbers the proxy has got
          garbled,       \* history: the numbers whose message cannot be encoded
          rc,            \* the reconnect goroutine
          cl,            \* Close
          lifetime,      \* c.receiptLifetime
          owner,         \* lifetime of c.receiptOwner, "nil" before the first receipt
          shipping,      \* receipts admitted and not yet returned by ShipWithReceipt
          leftovers,     \* what Close returns
          ob,            \* one call of ObserveReceipt
          early          \* history: acknowledged before Close was called

wire == <<conn, inHand, toPeer, toClient>>
peer == <<received, garbled>>
receipts == <<lifetime, owner, shipping>>
vars == <<ab, wire, peer, rc, cl, receipts, leftovers, ob, early>>

NotYet == {0}

Idle == [pc |-> "idle", seq |-> 0, frame |-> "none", lifetime |-> "unknown"]

Init == /\ ab = NewAckBuffer
        /\ conn = TRUE /\ inHand = NoFrame /\ toPeer = <<>> /\ toClient = <<>>
        /\ received = {} /\ garbled = {}
        /\ rc = "idle" /\ cl = "open"
        /\ lifetime = "unknown" /\ owner = "nil" /\ shipping = {}
        /\ leftovers = NotYet
        /\ ob = Idle
        /\ early = {}

isClosing == cl # "open"

-----------------------------------------------------------------------------
(* Ship and ShipWithReceiptOptions; a call that finds no room is Add's      *)
(* matter (AckBuffer).                                                      *)

Ship(m) == /\ ab.isRunning /\ ab.isAvailable
           /\ ab.nextSeqNum <= MaxSeq
           /\ ab' = Admit(ab, m, 0, FALSE, 0)
           /\ garbled' = IF m.ok THEN garbled ELSE garbled \cup {ab.nextSeqNum}
           /\ shipping' = IF m.receipt THEN shipping \cup {ab.nextSeqNum} ELSE shipping
           /\ UNCHANGED <<wire, received, rc, cl, lifetime, owner, leftovers, ob, early>>

\* The owner that the first receipt creates, which may be during or after Close.
NewOwner == IF lifetime # "unknown" THEN lifetime
            ELSE IF isClosing THEN "closing" ELSE "live"

\* admissionReceiptOwner, and the receipt is returned.
Bind(s) == /\ s \in shipping
           /\ shipping' = shipping \ {s}
           /\ owner' = IF owner = "nil" THEN NewOwner ELSE owner
           /\ UNCHANGED <<ab, wire, peer, rc, cl, lifetime, leftovers, ob, early>>

-----------------------------------------------------------------------------
(* The workers and the connection. *)

\* sender, up to the encoding
Deliver == /\ conn /\ inHand = NoFrame
           /\ ab.isReadyToDeliver
           /\ ab' = GetNextToDeliver(ab)
           /\ inHand' = IF NextToDeliver(ab) = 0 THEN NoFrame ELSE NextToDeliver(ab)
           /\ UNCHANGED <<conn, toPeer, toClient, peer, rc, cl, receipts, leftovers, ob, early>>

\* A frame that does not encode is reported to OnError and passed over.
Write == /\ conn /\ inHand # NoFrame
         /\ toPeer' = IF inHand \in garbled THEN toPeer ELSE Append(toPeer, inHand)
         /\ inHand' = NoFrame
         /\ UNCHANGED <<ab, conn, toClient, peer, rc, cl, receipts, leftovers, ob, early>>

\* listener: ACK and FLOW
Listen == /\ conn /\ toClient # <<>>
          /\ ab' = Ack(ab, Head(toClient))
          /\ toClient' = Tail(toClient)
          /\ early' = IF isClosing THEN early
                      ELSE early \cup {s \in DOMAIN ab.receipts : ab'.receipts[s] = "acknowledged"}
          /\ UNCHANGED <<conn, inHand, toPeer, peer, rc, cl, receipts, leftovers, ob>>

Flow(cap) == /\ conn
             /\ ab' = UpdateCapacity(ab, cap)
             /\ UNCHANGED <<wire, peer, rc, cl, receipts, leftovers, ob, early>>

PeerRead == /\ toPeer # <<>>
            /\ received' = received \cup {Head(toPeer)}
            /\ toPeer' = Tail(toPeer)
            /\ UNCHANGED <<ab, conn, inHand, toClient, garbled, rc, cl, receipts, leftovers,
                           ob, early>>

PeerAck(s) == /\ conn /\ s \in received
              /\ Len(toClient) < MaxAcks
              /\ toClient' = Append(toClient, s)
              /\ UNCHANGED <<ab, conn, inHand, toPeer, peer, rc, cl, receipts, leftovers,
                             ob, early>>

-----------------------------------------------------------------------------
(* Reconnect and Close.  A worker's error, RECONNECT or the user's call     *)
(* starts the goroutine; disconnect closes the socket and joins.            *)

Reconnect == /\ conn /\ rc = "idle" /\ ~isClosing
             /\ rc' = "join"
             /\ UNCHANGED <<ab, wire, peer, cl, receipts, leftovers, ob, early>>

Disconnect == /\ conn' = FALSE /\ inHand' = NoFrame
              /\ toPeer' = <<>> /\ toClient' = <<>>

Join == /\ rc = "join"
        /\ Disconnect
        /\ rc' = "shrink"
        /\ UNCHANGED <<ab, peer, cl, receipts, leftovers, ob, early>>

Shrink == /\ rc = "shrink"
          /\ ab' = UpdateCapacity(ab, 1)
          /\ rc' = "reset"
          /\ UNCHANGED <<wire, peer, cl, receipts, leftovers, ob, early>>

ResetSkipped == /\ rc = "reset"
                /\ rc' = "dial"
                /\ UNCHANGED <<ab, wire, peer, cl, receipts, leftovers, ob, early>>

Reset == /\ rc = "reset"
         /\ ab' = ResetDelivery(ab)
         /\ rc' = "dial"
         /\ UNCHANGED <<wire, peer, cl, receipts, leftovers, ob, early>>

\* connectBeforeWorkers succeeds; the attempts that fail change nothing here.
Dial == /\ rc = "dial"
        /\ conn' = ~isClosing
        /\ rc' = "idle"
        /\ UNCHANGED <<ab, inHand, toPeer, toClient, peer, cl, receipts, leftovers, ob, early>>

Close == /\ cl = "open"
         /\ cl' = "mark"
         /\ UNCHANGED <<ab, wire, peer, rc, receipts, leftovers, ob, early>>

\* setReceiptLifetime(ReceiptClosing), and later ReceiptClosed
SetLifetime(from, value, to) ==
  /\ cl = from
  /\ lifetime' = value
  /\ owner' = IF owner = "nil" THEN "nil" ELSE value
  /\ cl' = to
  /\ UNCHANGED <<ab, wire, peer, rc, shipping, leftovers, ob, early>>

CloseAb == /\ cl = "seal"
           /\ ab' = CloseBuffer(ab)
           /\ cl' = "join"
           /\ UNCHANGED <<wire, peer, rc, receipts, leftovers, ob, early>>

CloseJoin == /\ cl = "join"
             /\ Disconnect
             /\ cl' = "collect"
             /\ UNCHANGED <<ab, peer, rc, receipts, leftovers, ob, early>>

Collect == /\ cl = "collect"
           /\ leftovers' = {f.seq : f \in GetUnAcked(ab)}
           /\ cl' = "detach"
           /\ UNCHANGED <<ab, wire, peer, rc, receipts, ob, early>>

Detach == /\ cl = "detach"
          /\ ab' = ReleaseReceiptTracking(ab)
          /\ cl' = "last"
          /\ UNCHANGED <<wire, peer, rc, receipts, leftovers, ob, early>>

-----------------------------------------------------------------------------
(* ObserveReceipt, one step for each atomic load. *)

Watch(s) == /\ ob.pc = "idle"
            /\ s \in DOMAIN ab.receipts \ shipping /\ ab.receipts[s] # "none"
            /\ ob' = [Idle EXCEPT !.pc = "lifetime", !.seq = s, !.frame = ab.receipts[s]]
            /\ UNCHANGED <<ab, wire, peer, rc, cl, receipts, leftovers, early>>

ReadLifetime ==
  /\ ob.pc = "lifetime"
  /\ ob' = [ob EXCEPT !.lifetime = owner,
                      !.pc = IF owner = "closed" THEN "reread" ELSE "closing"]
  /\ UNCHANGED <<ab, wire, peer, rc, cl, receipts, leftovers, early>>

RereadSkipped == ob.frame

Reread == ab.receipts[ob.seq]

RereadFrame ==
  /\ ob.pc = "reread"
  /\ ob' = [ob EXCEPT !.frame = IF Reread = "retained" THEN "unconfirmed" ELSE Reread,
                      !.pc = "done"]
  /\ UNCHANGED <<ab, wire, peer, rc, cl, receipts, leftovers, early>>

ReadClosingSkipped == ob.lifetime

ReadClosing == IF isClosing THEN "closing" ELSE ob.lifetime

FinishLifetime ==
  /\ ob.pc = "closing"
  /\ ob' = [ob EXCEPT !.lifetime = IF @ = "live" THEN ReadClosing ELSE @,
                      !.pc = "done"]
  /\ UNCHANGED <<ab, wire, peer, rc, cl, receipts, leftovers, early>>

Forget == /\ ob.pc = "done"
          /\ ob' = Idle
          /\ UNCHANGED <<ab, wire, peer, rc, cl, receipts, leftovers, early>>

Observe == \/ \E s \in Watched : Watch(s)
           \/ ReadLifetime \/ RereadFrame \/ FinishLifetime \/ Forget

Transport == \/ Deliver \/ Write \/ Listen \/ PeerRead
             \/ \E cap \in Windows : Flow(cap)
             \/ \E s \in received : PeerAck(s)

Reconnecting == Reconnect \/ Join \/ Shrink \/ Reset \/ Dial

Closing == \/ Close \/ CloseAb \/ CloseJoin \/ Collect \/ Detach
           \/ SetLifetime("mark", "closing", "seal")
           \/ SetLifetime("last", "closed", "closed")

Next == \/ \E m \in Messages : Ship(m)
        \/ \E s \in shipping : Bind(s)
        \/ Transport \/ Reconnecting \/ Closing \/ Observe

Spec == Init /\ [][Next]_vars

-----------------------------------------------------------------------------
(* Properties. *)

\* What the buffer says of each message, in the words of Outbox.
Box == [s \in 1 .. ab.nextSeqNum - 1 |->
          IF ab.receipts[s] \in {"acknowledged", "retired"} THEN ab.receipts[s]
          ELSE IF s \in Live(ab) THEN "held" ELSE "acknowledged"]

Detached == cl \in {"last", "closed"}

O == INSTANCE Outbox WITH box <- Box, returned <- leftovers, isOpen <- ab.isRunning,
                          atRest <- Detached

\* The client keeps Outbox's promises whatever connections break, frames are sent
\* again, ACKs come late and Close overlaps all of it: a cumulative ACK removes only
\* frames that the proxy has got (or that could not be encoded, client.go's sender
\* passes them over), Close returns exactly the frames that were not confirmed, and
\* those may still be retired by a reconnect, until Close has detached the receipts.
ImplementsOutbox == O!Spec

\* "prevents a closing client appearing live with an ACK learned only during Close":
\* live and acknowledged is observed only of an ACK from before Close.
LiveMeansBeforeClose ==
  ob.pc = "done" /\ ob.lifetime = "live" /\ ob.frame = "acknowledged" => ob.seq \in early

\* "Once joined, a final reread is stable": an observation of a closed client never
\* changes; what it calls unconfirmed was returned by Close, and what it calls
\* acknowledged was not.  What it calls retired may have been: RetiredNotReturned.
ClosedIsFinal ==
  ob.pc = "done" /\ ob.lifetime = "closed" =>
    /\ ob.frame = IF ab.receipts[ob.seq] = "retained" THEN "unconfirmed"
                  ELSE ab.receipts[ob.seq]
    /\ ob.frame = "unconfirmed" => ob.seq \in leftovers
    /\ ob.frame = "acknowledged" => ob.seq \notin leftovers

\* GetUnAcked leaves retired slots out, "Retired slots hold no message to recover":
\* a message that the closed client calls retired was not returned by Close.
RetiredNotReturned ==
  ob.pc = "done" /\ ob.lifetime = "closed" /\ ob.frame = "retired" => ob.seq \notin leftovers
=============================================================================
