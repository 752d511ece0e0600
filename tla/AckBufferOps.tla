---------------------------- MODULE AckBufferOps ----------------------------
(***************************************************************************)
(* The AckBuffer struct of ack_buffer.go as a record, and its methods as   *)
(* operators from records to records.  Every method runs under the         *)
(* buffer's mutex, so a state machine applies one operator per step.       *)
(*                                                                         *)
(* b.buff holds the slots 0 .. nextIndexFree-1 of the code, so             *)
(* nextIndexFree is Len(b.buff) and the code's slot i is b.buff[i+1];      *)
(* len(b.buff) of the code is b.backing.  The linked list of tracked       *)
(* admissions is ordered by sequence number and is kept as the function    *)
(* b.tracked from sequence numbers; a nil pointer is 0.  Receipt cells,    *)
(* which outlive the list, are b.receipts, indexed by sequence number.     *)
(* The isEmpty event is always written as the complement of                *)
(* isReadyToDeliver and is left out.  Sequence numbers start at 1 and are  *)
(* naturals: the uint64 wrap is not modelled here.                         *)
(***************************************************************************)
EXTENDS Integers, Sequences, FiniteSets, FiniteSetsExt

CONSTANTS MaxBytes,               \* AckBufferOptions.MaxBytes, 0 for no cap
          PressureStepDivisor,    \* pressureStepDivisor
          ReleasedRetiredMemory   \* releasedRetiredMemory

ASSUME ConstantsAssumption == /\ MaxBytes \in Nat
                              /\ PressureStepDivisor \in Nat \ {0}
                              /\ ReleasedRetiredMemory \in Nat \ {0}

InitialCapacity == 1

NewAckBuffer ==
  [isRunning |-> TRUE, isClosed |-> FALSE,
   buff |-> <<>>, backing |-> InitialCapacity,
   firstSeqNum |-> 1, nextSeqNum |-> 1,
   ackEvery |-> InitialCapacity, currentCapacity |-> InitialCapacity,
   nextIndexToDeliver |-> 0, isAvailable |-> TRUE, isReadyToDeliver |-> FALSE,
   retired |-> {}, releasedRetired |-> <<>>,
   tracked |-> [s \in {} |-> 0], deliverCursor |-> 0, receipts |-> <<>>,
   bytes |-> 0, lastFlaggedSeq |-> 0, bytesSinceFlag |-> 0]

BufferFields == DOMAIN NewAckBuffer

FrameStates == {"none", "retained", "acknowledged", "retired"}

SlotType == [seq : Nat, ackRequested : BOOLEAN, size : Nat]

-----------------------------------------------------------------------------
(* Small readings of the record. *)

NextIndexFree(b) == Len(b.buff)

Held(b) == b.firstSeqNum .. b.nextSeqNum - 1

Live(b) == Held(b) \ b.retired

Position(b) == b.firstSeqNum + b.nextIndexToDeliver

Pending(b) == Position(b) .. b.nextSeqNum - 1

FirstOr0(S) == IF S = {} THEN 0 ELSE Min(S)

ReceiptHead(b) == FirstOr0(DOMAIN b.tracked)

Larger(x, y) == IF x > y THEN x ELSE y

\* Subtraction of naturals that stops at 0.
Monus(x, y) == IF y \in 0 .. x THEN x - y ELSE 0

ChargeOf(b, S) == MapThenSumSet(LAMBDA s : b.buff[s - b.firstSeqNum + 1].size, S)

IsBuffer(b) == b = [f \in BufferFields |-> b[f]]

FlagsType(b) == /\ b.isRunning \in BOOLEAN /\ b.isClosed \in BOOLEAN
                /\ b.isAvailable \in BOOLEAN /\ b.isReadyToDeliver \in BOOLEAN

NumbersType(b) == /\ b.firstSeqNum \in Nat \ {0}
                  /\ b.nextSeqNum = b.firstSeqNum + Len(b.buff)
                  /\ b.nextIndexToDeliver \in 0 .. Len(b.buff)
                  /\ b.backing \in Nat \ {0} /\ b.currentCapacity \in Nat
                  /\ b.ackEvery \in Nat \ {0}

BytesType(b) == b.bytes \in Nat /\ b.lastFlaggedSeq \in Nat /\ b.bytesSinceFlag \in Nat

SequencesType(b) == /\ b.buff \in Seq(SlotType)
                    /\ b.releasedRetired \in Seq(Nat)
                    /\ b.receipts \in Seq(FrameStates)
                    /\ Len(b.receipts) = b.nextSeqNum - 1

TrackingType(b) == /\ b.retired \subseteq Held(b)
                   /\ DOMAIN b.tracked \subseteq Held(b)
                   /\ b.tracked \in [DOMAIN b.tracked -> [max : Nat, sends : Nat]]
                   /\ b.deliverCursor \in DOMAIN b.tracked \cup {0}

BufferType(b) == /\ IsBuffer(b) /\ FlagsType(b) /\ NumbersType(b) /\ BytesType(b)
                 /\ SequencesType(b) /\ TrackingType(b)

-----------------------------------------------------------------------------
(* Admission: tryAddWithReceiptLocked, split where the shared budget is     *)
(* consulted.  m is the message and the admission options; size is 0 when   *)
(* the buffer does no byte accounting.                                      *)

HeldFlaggedStrict(b) == b.lastFlaggedSeq # 0 /\ b.lastFlaggedSeq > b.firstSeqNum

HeldFlagged(b) == b.lastFlaggedSeq # 0 /\ b.lastFlaggedSeq >= b.firstSeqNum

OverCap(b, size) == MaxBytes # 0 /\ b.bytes + size > MaxBytes

BlockedLocally(b, size) == \/ ~b.isAvailable
                           \/ OverCap(b, size) /\ HeldFlagged(b)

PressureStep(b, size) ==
  IF MaxBytes # 0 /\ 2 * (b.bytes + size) >= MaxBytes
  THEN MaxBytes \div PressureStepDivisor ELSE 0

WantsAck(b, m, size, forced, step) ==
  \/ m.ackRequested
  \/ b.nextSeqNum % b.ackEvery = 0
  \/ forced
  \/ step # 0 /\ b.bytesSinceFlag + size >= step

CursorAfterAdmit(b, m) ==
  IF m.receipt /\ b.deliverCursor = 0 THEN b.nextSeqNum ELSE b.deliverCursor

Admit(b, m, size, forced, step) ==
  LET seq == b.nextSeqNum
      ack == WantsAck(b, m, size, forced, step)
  IN [b EXCEPT
        !.nextSeqNum = seq + 1,
        !.lastFlaggedSeq = IF ack THEN seq ELSE @,
        !.bytesSinceFlag = IF ack THEN 0 ELSE @ + size,
        !.tracked = IF ~m.receipt THEN @
                    ELSE [s \in DOMAIN b.tracked \cup {seq} |->
                            IF s = seq THEN [max |-> m.max, sends |-> 0]
                            ELSE b.tracked[s]],
        !.deliverCursor = CursorAfterAdmit(b, m),
        !.receipts = Append(@, IF m.receipt THEN "retained" ELSE "none"),
        !.buff = Append(@, [seq |-> seq, ackRequested |-> ack, size |-> size]),
        !.bytes = @ + size,
        !.isAvailable = Len(b.buff) + 1 < b.currentCapacity,
        !.isReadyToDeliver = TRUE]

-----------------------------------------------------------------------------
(* Removal: removePrefixLocked, dropReceiptsLocked, releaseRetiredHeadLocked *)
(* and retireLocked.                                                         *)

ShrunkBacking(cap, free, backing) ==
  LET target == Larger(Larger(cap, free), InitialCapacity)
  IN IF backing > target THEN target ELSE backing

IndexAfterRemovalOffByOne(b, n) ==
  IF b.nextIndexToDeliver > n THEN b.nextIndexToDeliver - n + 1 ELSE 0

IndexAfterRemovalRestarted(b, n) == 0

IndexAfterRemoval(b, n) ==
  IF b.nextIndexToDeliver > n THEN b.nextIndexToDeliver - n ELSE 0

BytesAfterRemovalUnclamped(b, S) == b.bytes - ChargeOf(b, S)

BytesAfterRemoval(b, S) == Monus(b.bytes, ChargeOf(b, S))

CursorAfterDrop(b, gone) ==
  IF b.deliverCursor \in gone THEN FirstOr0(DOMAIN b.tracked \ gone)
  ELSE b.deliverCursor

ReceiptAfterDropConverted(state, acknowledge) ==
  IF acknowledge /\ state # "none" THEN "acknowledged" ELSE state

ReceiptAfterDropIgnored(state, acknowledge) == state

ReceiptAfterDrop(state, acknowledge) ==
  IF acknowledge /\ state = "retained" THEN "acknowledged" ELSE state

\* removePrefixLocked and then dropReceiptsLocked, which every caller runs
\* after it: the first n >= 1 slots and their tracked entries leave.
RemovePrefix(b, n, acknowledge) ==
  LET free == Len(b.buff) - n
      gone == b.firstSeqNum .. b.firstSeqNum + n - 1
  IN [b EXCEPT
        !.firstSeqNum = @ + n,
        !.buff = SubSeq(@, n + 1, Len(@)),
        !.bytes = BytesAfterRemoval(b, gone),
        !.backing = IF free <= b.currentCapacity
                    THEN ShrunkBacking(b.currentCapacity, free, @) ELSE @,
        !.isAvailable = free < b.currentCapacity,
        !.nextIndexToDeliver = IndexAfterRemoval(b, n),
        !.isReadyToDeliver = IF IndexAfterRemoval(b, n) >= free THEN FALSE ELSE @,
        !.retired = @ \ gone,
        !.tracked = [s \in DOMAIN b.tracked \ gone |-> b.tracked[s]],
        !.deliverCursor = CursorAfterDrop(b, gone \cap DOMAIN b.tracked),
        !.receipts = [s \in DOMAIN b.receipts |->
                        IF s \in gone \cap DOMAIN b.tracked
                        THEN ReceiptAfterDrop(b.receipts[s], acknowledge)
                        ELSE b.receipts[s]]]

RetiredHeadNone(b) == 0

\* How many retired slots stand at the front of the buffer.
RetiredHead(b) == IF Live(b) = {} THEN Len(b.buff)
                  ELSE Min(Live(b)) - b.firstSeqNum

\* releasedRetiredRing: the latest ReleasedRetiredMemory numbers added.
Remember(ring, first, n) ==
  LET all == ring \o [i \in 1..n |-> first + i - 1]
  IN SubSeq(all, Larger(1, Len(all) - ReleasedRetiredMemory + 1), Len(all))

ReleaseRetiredHead(b) ==
  LET n == RetiredHead(b)
  IN IF b.retired = {} \/ n = 0 THEN b
     ELSE [RemovePrefix(b, n, FALSE) EXCEPT
             !.releasedRetired = Remember(@, b.firstSeqNum, n)]

FlagAfterRetireKept(b, S) == b.lastFlaggedSeq

FlagAfterRetire(b, S) == IF b.lastFlaggedSeq \in S THEN 0 ELSE b.lastFlaggedSeq

\* retireLocked for every sequence number of S.
Retire(b, S) ==
  [b EXCEPT
     !.receipts = [s \in DOMAIN b.receipts |->
                     IF s \in S THEN "retired" ELSE b.receipts[s]],
     !.buff = [i \in DOMAIN b.buff |->
                 IF b.firstSeqNum + i - 1 \in S
                 THEN [seq |-> b.firstSeqNum + i - 1, ackRequested |-> FALSE, size |-> 0]
                 ELSE b.buff[i]],
     !.retired = @ \cup S,
     !.bytes = BytesAfterRemoval(b, S),
     !.lastFlaggedSeq = FlagAfterRetire(b, S)]

-----------------------------------------------------------------------------
(* Ack. *)

DeliveredEnoughByOne(b, index) == index <= b.nextIndexToDeliver

\* Only delivered slots are acknowledged, or the first one while the index is 0:
\* after a reset, and whenever all that was delivered has been acknowledged.
DeliveredEnough(b, index) == \/ index < b.nextIndexToDeliver
                             \/ b.nextIndexToDeliver = 0 /\ index = 0

AckAccepted(b, seq) ==
  /\ seq \in b.firstSeqNum .. b.firstSeqNum + Len(b.buff) - 1
  /\ seq < b.nextSeqNum
  /\ seq - b.firstSeqNum < b.backing
  /\ DeliveredEnough(b, seq - b.firstSeqNum)

\* Ack returns nil for a remembered released number, an error for any other
\* number it does not accept; neither changes the buffer.
LateAckTolerated(b, seq) == /\ seq \notin Held(b)
                            /\ \E i \in DOMAIN b.releasedRetired :
                                 b.releasedRetired[i] = seq

Ack(b, seq) ==
  IF LateAckTolerated(b, seq) \/ ~AckAccepted(b, seq) THEN b
  ELSE ReleaseRetiredHead(RemovePrefix(b, seq - b.firstSeqNum + 1, TRUE))

-----------------------------------------------------------------------------
(* Delivery: GetNextToDeliver.  The loop passes over retired slots, retires *)
(* frames that used up their transmissions, and hands out the first other   *)
(* slot.  An entry is seen only if the cursor stands on it when the loop    *)
(* gets there: the cursor moves from entry to entry, so the entries seen    *)
(* are those from the cursor on, provided the cursor is not behind the      *)
(* delivery position (0, for nil, always is).                               *)

CursorSees(b, s) == /\ s \in DOMAIN b.tracked
                    /\ b.deliverCursor >= Position(b)
                    /\ s >= b.deliverCursor

Exhausted(b, s) == /\ b.tracked[s].max # 0
                   /\ b.tracked[s].sends >= b.tracked[s].max

Fenced(b) == {s \in Pending(b) \ b.retired : CursorSees(b, s) /\ Exhausted(b, s)}

Deliverable(b) == (Pending(b) \ b.retired) \ Fenced(b)

CursorAt(b, s) ==
  IF b.deliverCursor < Position(b) THEN b.deliverCursor
  ELSE FirstOr0({t \in DOMAIN b.tracked : t >= s /\ t >= b.deliverCursor})

\* The loop up to slot s: the fenced frames before s are retired on the way.
PassTo(b, s) ==
  LET fenced == {t \in Fenced(b) : t < s}
      moved  == [b EXCEPT !.nextIndexToDeliver = s - b.firstSeqNum,
                          !.deliverCursor = CursorAt(b, s)]
  IN IF fenced = {} THEN moved ELSE ReleaseRetiredHead(Retire(moved, fenced))

CountSendUncounted(b, s) == b.tracked

CountSend(b, s) ==
  IF b.deliverCursor = s /\ b.tracked[s].max # 0
  THEN [b.tracked EXCEPT ![s].sends = @ + 1] ELSE b.tracked

HandOff(b, s) ==
  [b EXCEPT !.tracked = CountSend(b, s),
            !.deliverCursor = IF @ = s THEN FirstOr0({t \in DOMAIN b.tracked : t > s})
                              ELSE @,
            !.nextIndexToDeliver = @ + 1,
            !.isReadyToDeliver = IF b.nextIndexToDeliver + 1 >= Len(b.buff)
                                 THEN FALSE ELSE @]

\* The frame the next call hands out, 0 when there is none.
NextToDeliver(b) == FirstOr0(Deliverable(b))

OnlyLastSlotAfter(b, s) == s = b.nextSeqNum - 1

OnlyRetiredAfter(b, s) == (s + 1 .. b.nextSeqNum - 1) \subseteq b.retired

\* The frame given to the sender: the final frame of a sealed buffer goes out
\* as a copy that asks for one more ACK.
FrameToSend(b, s) ==
  LET n == b.buff[s - b.firstSeqNum + 1]
  IN [seq |-> n.seq,
      ackRequested |-> n.ackRequested \/ (~b.isRunning /\ OnlyRetiredAfter(b, s))]

GetNextToDeliver(b) ==
  LET s == NextToDeliver(b)
  IN IF s = 0
     THEN [PassTo(b, b.nextSeqNum) EXCEPT !.isReadyToDeliver = FALSE]
     ELSE HandOff(PassTo(b, s), s)

ResetCursorKept(b) == b.deliverCursor

ResetCursor(b) == ReceiptHead(b)

ReadyAfterResetKept(b) == b.isReadyToDeliver

ReadyAfterReset(b) == b.nextIndexToDeliver < Len(b.buff)

ResetDelivery(b) ==
  LET spent == {s \in DOMAIN b.tracked \ b.retired : Exhausted(b, s)}
      reset == [b EXCEPT !.nextIndexToDeliver = 0, !.deliverCursor = ResetCursor(b)]
      after == ReleaseRetiredHead(Retire(reset, spent))
  IN [after EXCEPT !.isReadyToDeliver = ReadyAfterReset(after)]

-----------------------------------------------------------------------------
(* Window, lifetime and reporting. *)

AckEvery(cap) == Larger(cap \div 2, 1)

RoomOnlyWhenGrown(b, cap) == IF cap > b.backing THEN TRUE ELSE b.isAvailable

RoomInWindow(b, cap) == Len(b.buff) < cap

UpdateCapacity(b, cap) ==
  IF cap = b.currentCapacity THEN b
  ELSE [b EXCEPT
          !.backing = ShrunkBacking(cap, Len(b.buff), Larger(@, cap)),
          !.currentCapacity = cap,
          !.isAvailable = RoomInWindow(b, cap),
          !.ackEvery = AckEvery(cap)]

Seal(b) == [b EXCEPT !.isRunning = FALSE]

CloseBuffer(b) == [b EXCEPT !.isRunning = FALSE, !.isClosed = TRUE, !.bytes = 0]

ReleaseReceiptTracking(b) == [b EXCEPT !.tracked = [s \in {} |-> 0], !.deliverCursor = 0]

GetUnAcked(b) == {b.buff[i] : i \in {j \in DOMAIN b.buff :
                                       b.firstSeqNum + j - 1 \notin b.retired}}

\* liveSeqBoundsLocked: both scans stop where they meet.
FirstLive(b) ==
  LET stop == {s \in Held(b) : s \notin b.retired \/ s = b.nextSeqNum - 1}
  IN b.buff[Min(stop) - b.firstSeqNum + 1].seq

LastLiveIsLastSlot(b) == b.nextSeqNum - 1

LastLive(b) ==
  LET stop == {s \in FirstLive(b) .. b.nextSeqNum - 1 :
                 s \notin b.retired \/ s = FirstLive(b)}
  IN b.buff[Max(stop) - b.firstSeqNum + 1].seq

UnackedCount(b) == Len(b.buff) - Cardinality(b.retired)
=============================================================================
