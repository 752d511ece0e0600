----------------------------- MODULE AckBuffer ------------------------------
(***************************************************************************)
(* One AckBuffer and everything that calls it: producers in Add, the       *)
(* sender in GetNextToDeliver, the listener in Ack and UpdateCapacity, the *)
(* reconnect goroutine in UpdateCapacity and ResetDelivery, a caller of    *)
(* drain, and Close.  Each call holds the buffer's mutex, so one call, or  *)
(* one turn of a blocking call's loop, is one step.                        *)
(*                                                                         *)
(* The peer is arbitrary: it may acknowledge any number at any time.       *)
(***************************************************************************)
EXTENDS AckBufferOps

CONSTANTS Producers,   \* goroutines that call Add
          Messages,    \* what they add: payload size and admission options
          NoMessage,   \* a producer outside Add
          Windows,     \* the FLOW windows, and the 1 of a reconnect
          MaxSeq       \* bound: numbers assigned

ASSUME InputsAssumption ==
  /\ Messages \subseteq [size : Nat, receipt : BOOLEAN, max : Nat, ackRequested : BOOLEAN]
  /\ \A m \in Messages : ~m.receipt => m.max = 0
  /\ NoMessage \notin Messages
  /\ Windows \subseteq Nat
  /\ MaxSeq \in Nat

VARIABLES ab,         \* the buffer
          pc,        \* of each producer: idle, asleep on the wake channel, or woken
          want,      \* the message a producer is adding
          drainer,   \* the drain call: none, asleep, woken, drained or failed
          joined,    \* Close has stopped the transport workers
          log,       \* history: per number, its limit and how often it was handed out
                     \* (of an unlimited one only whether)
          wire       \* history: the frames given to the current connection, in order

vars == <<ab, pc, want, drainer, joined, log, wire>>

Init == /\ ab = NewAckBuffer
        /\ pc = [p \in Producers |-> "idle"]
        /\ want = [p \in Producers |-> NoMessage]
        /\ drainer = "none"
        /\ joined = FALSE
        /\ log = <<>>
        /\ wire = <<>>

-----------------------------------------------------------------------------
(* Waking: signalLocked closes the channel that blocked calls sampled under *)
(* the same lock as the condition they wait for.                            *)

WokenProducers(signal) ==
  [p \in Producers |-> IF signal /\ pc[p] = "asleep" THEN "woken" ELSE pc[p]]

WokenDrainerNever(signal) == drainer

WokenDrainer(signal) == IF signal /\ drainer = "asleep" THEN "woken" ELSE drainer

WakeIf(signal) == /\ pc' = WokenProducers(signal)
                  /\ drainer' = WokenDrainer(signal)

-----------------------------------------------------------------------------
(* Add. *)

Size(m) == IF MaxBytes # 0 THEN m.size ELSE 0

Return(p) == /\ pc' = [pc EXCEPT ![p] = "idle"]
             /\ want' = [want EXCEPT ![p] = NoMessage]

\* One turn of addWithReceipt's loop.
TryAdd(p, m) ==
  LET size == Size(m) IN
  \/ /\ ~ab.isRunning
     /\ Return(p)
     /\ UNCHANGED <<ab, log>>
  \/ /\ ab.isRunning
     /\ BlockedLocally(ab, size)
     /\ pc' = [pc EXCEPT ![p] = "asleep"]
     /\ want' = [want EXCEPT ![p] = m]
     /\ UNCHANGED <<ab, log>>
  \/ /\ ab.isRunning
     /\ ~BlockedLocally(ab, size)
     /\ ab' = Admit(ab, m, size, OverCap(ab, size), PressureStep(ab, size))
     /\ log' = Append(log, [max |-> m.max, sent |-> 0])
     /\ Return(p)

Waiting == {p \in Producers : pc[p] # "idle"}

Add(p, m) == /\ pc[p] = "idle"
             /\ ab.nextSeqNum + Cardinality(Waiting) <= MaxSeq
             /\ TryAdd(p, m)
             /\ UNCHANGED <<drainer, joined, wire>>

Retry(p) == /\ pc[p] = "woken"
            /\ TryAdd(p, want[p])
            /\ UNCHANGED <<drainer, joined, wire>>

Timeout(p) == /\ pc[p] \in {"asleep", "woken"}
              /\ Return(p)
              /\ UNCHANGED <<ab, drainer, joined, log, wire>>

-----------------------------------------------------------------------------
(* The transport workers, which Close stops. *)

Handed(s) == [log EXCEPT ![s].sent = IF log[s].max = 0 THEN 1 ELSE @ + 1]

Deliver ==
  /\ ~joined
  /\ ab.isReadyToDeliver
  /\ ab' = GetNextToDeliver(ab)
  /\ LET s == NextToDeliver(ab)
     IN IF s = 0 THEN UNCHANGED <<log, wire>>
        ELSE /\ log' = Handed(s)
             /\ wire' = Append(wire, FrameToSend(ab, s))
  /\ WakeIf(Fenced(ab) # {} /\ (NextToDeliver(ab) = 0 \/ Min(Fenced(ab)) < NextToDeliver(ab)))
  /\ UNCHANGED <<want, joined>>

ReceiveAck(seq) ==
  /\ ~joined
  /\ ab' = Ack(ab, seq)
  /\ WakeIf(AckAccepted(ab, seq))
  /\ UNCHANGED <<want, joined, log, wire>>

Resize(cap) ==
  /\ ab' = UpdateCapacity(ab, cap)
  /\ WakeIf(cap # ab.currentCapacity)
  /\ UNCHANGED <<want, joined, log, wire>>

RetirementSignalsNever == FALSE

RetirementSignals == \E s \in DOMAIN ab.tracked \ ab.retired : Exhausted(ab, s)

\* A new connection starts over: wire is what this connection has been given.
Reset ==
  /\ ab' = ResetDelivery(ab)
  /\ wire' = <<>>
  /\ WakeIf(RetirementSignals)
  /\ UNCHANGED <<want, joined, log>>

-----------------------------------------------------------------------------
(* Sealing, draining and closing. *)

DrainTurn(buf, expired) ==
  IF Len(buf.buff) = 0 THEN "drained"
  ELSE IF expired \/ buf.isClosed THEN "failed" ELSE "asleep"

BeginDrain == /\ ab.isRunning
              /\ ab' = Seal(ab)
              /\ WakeIf(TRUE)
              /\ UNCHANGED <<want, joined, log, wire>>

\* drain with a context that has not ended: seal, signal, first turn.
Drain == /\ drainer = "none"
         /\ ab' = Seal(ab)
         /\ pc' = WokenProducers(TRUE)
         /\ drainer' = DrainTurn(Seal(ab), FALSE)
         /\ UNCHANGED <<want, joined, log, wire>>

DrainRetry == /\ drainer = "woken"
              /\ drainer' = DrainTurn(ab, FALSE)
              /\ UNCHANGED <<ab, pc, want, joined, log, wire>>

DrainExpire == /\ drainer \in {"asleep", "woken"}
               /\ drainer' = DrainTurn(ab, TRUE)
               /\ UNCHANGED <<ab, pc, want, joined, log, wire>>

Close == /\ ~ab.isClosed
         /\ ab' = CloseBuffer(ab)
         /\ WakeIf(TRUE)
         /\ UNCHANGED <<want, joined, log, wire>>

\* Client.Close joins the workers after AckBuffer.Close (disconnect).
Join == /\ ab.isClosed
        /\ joined' = TRUE
        /\ UNCHANGED <<ab, pc, want, drainer, log, wire>>

ReleaseTracking == /\ joined
                   /\ ab' = ReleaseReceiptTracking(ab)
                   /\ UNCHANGED <<pc, want, drainer, joined, log, wire>>

Next == \/ \E p \in Producers, m \in Messages : Add(p, m)
        \/ \E p \in Producers : Retry(p) \/ Timeout(p)
        \/ Deliver
        \/ \E seq \in 0 .. MaxSeq + 1 : ReceiveAck(seq)
        \/ \E cap \in Windows : Resize(cap)
        \/ Reset
        \/ BeginDrain \/ Drain \/ DrainRetry \/ DrainExpire
        \/ Close \/ Join \/ ReleaseTracking

Spec == Init /\ [][Next]_vars

-----------------------------------------------------------------------------
(* Invariants. *)

\* Every field of the buffer and every history variable has its type.
TypeOK ==
  /\ BufferType(ab)
  /\ pc \in [Producers -> {"idle", "asleep", "woken"}]
  /\ want \in [Producers -> Messages \cup {NoMessage}]
  /\ \A p \in Producers : pc[p] # "idle" => want[p] # NoMessage
  /\ drainer \in {"none", "asleep", "woken", "drained", "failed"}
  /\ joined \in BOOLEAN
  /\ log \in Seq([max : Nat, sent : Nat]) /\ Len(log) = ab.nextSeqNum - 1
  /\ wire \in Seq([seq : Nat, ackRequested : BOOLEAN])

\* isAvailable is set exactly when the window has room, whatever order FLOW
\* resizes, reconnects, partial ACKs and retirements come in (the admission
\* stall of a window closed by a reconnect), and then buff[nextIndexFree] of
\* tryAddWithReceiptLocked is inside the backing array.
NoAdmissionStall ==
  /\ ab.isAvailable <=> Len(ab.buff) < ab.currentCapacity
  /\ ab.isAvailable => Len(ab.buff) < ab.backing

OnWire == {wire[i].seq : i \in DOMAIN wire}

\* On one connection each live frame is handed to the sender exactly once and
\* in order: the frames behind nextIndexToDeliver are the ones this connection
\* was given, although ACKs and releases move the index under the sender.
DeliveredExactlyOnce ==
  /\ \A s \in Live(ab) : s < Position(ab) <=> s \in OnWire
  /\ \A i, j \in DOMAIN wire : i < j => wire[i].seq < wire[j].seq

\* isReadyToDeliver is set exactly when a slot awaits the sender, so the sender
\* neither sleeps beside a frame nor spins on an empty buffer.
ReadyIffPending == ab.isReadyToDeliver <=> Pending(ab) # {}

\* The comment on deliverCursor: it is the first tracked entry at or after
\* nextIndexToDeliver, or nil when there is none.
CursorExact ==
  ab.deliverCursor = FirstOr0({s \in DOMAIN ab.tracked : s >= Position(ab)})

\* MaxTransmissions: a limited frame is handed out at most that often over all
\* connections, and is retired only once all its transmissions were used.
TransmissionLimit ==
  \A s \in DOMAIN log :
    /\ log[s].max # 0 => log[s].sent <= log[s].max
    /\ ab.receipts[s] = "retired" => log[s].max # 0 /\ log[s].sent = log[s].max

\* A receipt reads retained exactly while its frame is still in the buffer and
\* not retired: no frame leaves without its receipt saying how.
ReceiptTruth ==
  \A s \in DOMAIN ab.receipts :
    ab.receipts[s] # "none" => (ab.receipts[s] = "retained" <=> s \in Live(ab))

\* Retired slots never stand at the front: a retired tail does not wait for an
\* ACK that no frame can carry, and a drain with only retired frames is done.
HeadIsLive == ab.buff # <<>> => ab.firstSeqNum \notin ab.retired

\* DrainError names the first and the last frame awaiting an ACK and counts
\* exactly those, although retired placeholders lie among them.
DrainErrorExact ==
  ab.buff # <<>> => /\ FirstLive(ab) = Min(Live(ab))
                   /\ LastLive(ab) = Max(Live(ab))
                   /\ UnackedCount(ab) = Cardinality(GetUnAcked(ab))
                   /\ UnackedCount(ab) > 0

\* A producer sleeps in Add only while a new attempt would still fail: every
\* change that makes room signals the wake channel.
NoLostWakeup ==
  \A p \in Producers : pc[p] = "asleep" =>
    ab.isRunning /\ BlockedLocally(ab, Size(want[p]))

\* drain sleeps only while a frame is held and the buffer is open: the ACK or
\* the retirement that empties the buffer, and Close, wake it.
NoMissedDrain == drainer = "asleep" => ab.buff # <<>> /\ ~ab.isClosed

\* bytes is what the slots hold until Close returns it, and 0 afterwards.
BytesMatchSlots ==
  ab.bytes = IF ab.isClosed THEN 0 ELSE ChargeOf(ab, Held(ab))

\* The guarantee of tryAddLocked: a producer that waits for bytes, not for the
\* window, waits while the buffer holds a live frame that requests an ACK.
ByteWaitHasRequest ==
  (\E p \in Producers : pc[p] = "asleep" /\ ab.isAvailable) =>
    \E f \in GetUnAcked(ab) : f.ackRequested

\* The byte cap is exceeded by at most one message, and that message requests
\* an ACK, although retirement can clear lastFlaggedSeq at any time.
OvershootIsOneMessage ==
  MaxBytes # 0 /\ ab.bytes > MaxBytes =>
    \E f \in GetUnAcked(ab) : f.ackRequested /\ ab.bytes - f.size <= MaxBytes

-----------------------------------------------------------------------------
(* Action properties and liveness. *)

\* A receipt that reads acknowledged or retired keeps that state: in particular
\* no later cumulative ACK converts a retired frame (ReceiptRetired is final).
ReceiptsFinal ==
  [][\A s \in DOMAIN ab.receipts :
       ab.receipts[s] \in {"acknowledged", "retired"} => ab'.receipts[s] = ab.receipts[s]]_vars

\* An ACK, whatever number it carries, and a release of retired frames remove
\* only frames that this connection was given or that are retired.  The one
\* exception is Ack's special case: as long as this connection was given none of
\* the held frames, the first of them may go, sent on an earlier one or never.
AckWithinDelivered ==
  [][\A s \in Live(ab) : s < ab'.firstSeqNum =>
       \/ s \in OnWire
       \/ ab'.receipts[s] = "retired"
       \/ s = ab.firstSeqNum /\ Live(ab) \cap OnWire = {}]_vars

\* "Cannot ack if not delivered": a frame that has left the buffer was handed out,
\* on this or on an earlier connection.  Ack's special case, meant for "the
\* ResetDelivery scenario", also takes a first frame that was never sent.
NothingLostUnsent ==
  \A s \in DOMAIN log : s < ab.firstSeqNum => log[s].sent # 0

\* When the buffer is sealed, the last frame that will be sent asks for an ACK,
\* whatever is retired behind it: the drain does not wait for the periodic ACK.
DrainTailAsks ==
  [][Len(wire') > Len(wire) /\ ~ab.isRunning /\ Deliverable(ab') = {}
       => wire'[Len(wire')].ackRequested]_vars

\* The sender keeps calling GetNextToDeliver, woken goroutines run, and the
\* proxy's periodic ACK confirms the last frame it got on this connection.
PeriodicAck == /\ wire # <<>>
               /\ AckAccepted(ab, wire[Len(wire)].seq)
               /\ ReceiveAck(wire[Len(wire)].seq)

Fairness == /\ WF_vars(Deliver)
            /\ WF_vars(DrainRetry)
            /\ SF_vars(PeriodicAck)
            /\ \A p \in Producers : WF_vars(Retry(p))

FairSpec == Spec /\ Fairness

\* A drain that nobody cancels ends: every frame is acknowledged or retired, or
\* the buffer is closed.
DrainEnds == drainer \in {"asleep", "woken"} ~> drainer \in {"drained", "failed"}
=============================================================================
