------------------------- MODULE AckBufferOpsProofs -------------------------
(***************************************************************************)
(* What every method of AckBuffer keeps, proved on the record of           *)
(* AckBufferOps for every value of the constants and every buffer.  The    *)
(* parameter lg is the history that AckBuffer keeps: per number, its limit *)
(* and how often it was handed out.                                        *)
(*                                                                         *)
(* Core is the part of the invariant that every operator keeps; the        *)
(* readiness of the delivery event and the liveness of the head are broken *)
(* inside ResetDelivery and Ack and repaired before they return, so they   *)
(* are separate.                                                           *)
(***************************************************************************)
EXTENDS AckBufferOps, SequenceTheorems, WellFoundedInduction, TLAPS

-----------------------------------------------------------------------------
(* The invariant of the record. *)

Window(x) == /\ x.isAvailable <=> Len(x.buff) < x.currentCapacity
             /\ x.currentCapacity <= x.backing
             /\ Len(x.buff) <= x.backing

CursorAtPosition(x) ==
  /\ x.deliverCursor # 0 => x.deliverCursor >= Position(x)
  /\ \A s \in DOMAIN x.tracked : s >= Position(x) =>
       x.deliverCursor # 0 /\ x.deliverCursor <= s

\* What the receipt cells say of the slots.
Marks(x) == \A s \in DOMAIN x.receipts :
              /\ s \in x.retired => x.receipts[s] = "retired"
              /\ x.receipts[s] = "retired" /\ s \in Held(x) => s \in x.retired
              /\ x.receipts[s] = "retained" => s \in Live(x)
              /\ x.receipts[s] = "acknowledged" => s \notin Held(x)

\* What the tracked entries say of the history.
Counts(x, lg) ==
  \A s \in DOMAIN x.tracked :
    /\ x.receipts[s] # "none"
    /\ x.tracked[s].max = lg[s].max
    /\ lg[s].max # 0 => x.tracked[s].sends = lg[s].sent

Limits(x, lg) ==
  \A s \in DOMAIN lg :
    /\ lg[s].max # 0 => x.receipts[s] # "none" /\ lg[s].sent <= lg[s].max
    /\ x.receipts[s] = "retired" => lg[s].max # 0 /\ lg[s].sent = lg[s].max

\* No frame ahead of the sender has used up its transmissions.
FreshAhead(x, lg) ==
  \A s \in DOMAIN x.tracked \ x.retired :
    s >= Position(x) /\ lg[s].max # 0 => lg[s].sent < lg[s].max

LogType(x, lg) == lg \in Seq([max : Nat, sent : Nat]) /\ Len(lg) = x.nextSeqNum - 1

Core(x, lg) == /\ BufferType(x)
               /\ LogType(x, lg)
               /\ Window(x)
               /\ CursorAtPosition(x)
               /\ Marks(x)
               /\ Counts(x, lg)
               /\ Limits(x, lg)

\* Until Close has joined the workers, every receipt of a held frame is tracked.
Tracked(x) == \A s \in Held(x) : x.receipts[s] # "none" => s \in DOMAIN x.tracked

Ready(x) == x.isReadyToDeliver <=> x.nextIndexToDeliver < Len(x.buff)

LiveHead(x) == Len(x.buff) > 0 => x.firstSeqNum \notin x.retired

-----------------------------------------------------------------------------
(* Least elements. *)

\* A non-empty set of naturals has a least element, which Min returns.
LEMMA MinIsLeast ==
  ASSUME NEW S, S \subseteq Nat, S # {}
  PROVE  Min(S) \in S /\ \A y \in S : Min(S) <= y
<1>1. PICK x \in S : \A y \in S : ~(<<y, x>> \in OpToRel(<, Nat))
  BY Zenon, NatLessThanWellFounded, WFMin
<1>2. \A y \in S : x <= y
  <2>1. SUFFICES ASSUME NEW y \in S PROVE x <= y
    OBVIOUS
  <2>2. y \in Nat /\ x \in Nat
    OBVIOUS
  <2>3. ~(<<y, x>> \in {ss \in Nat \X Nat : ss[1] < ss[2]})
    BY <1>1 DEF OpToRel
  <2> QED BY <2>2, <2>3
<1> QED BY Zenon, <1>2 DEF Min

\* FirstOr0 of an empty set is nil, of any other set its least element.
LEMMA FirstOr0Is ==
  ASSUME NEW S, S \subseteq Nat
  PROVE  /\ S = {} => FirstOr0(S) = 0
         /\ S # {} => FirstOr0(S) \in S /\ \A y \in S : FirstOr0(S) <= y
BY Zenon, MinIsLeast DEF FirstOr0

-----------------------------------------------------------------------------
(* Elementary facts. *)

\* The numbers and domains that follow from the type of a buffer.
LEMMA TypeFacts ==
  ASSUME NEW x, BufferType(x)
  PROVE  /\ x.firstSeqNum \in Nat \ {0} /\ x.nextSeqNum \in Nat \ {0}
         /\ Len(x.buff) \in Nat /\ x.nextSeqNum = x.firstSeqNum + Len(x.buff)
         /\ x.nextIndexToDeliver \in Nat /\ x.nextIndexToDeliver <= Len(x.buff)
         /\ Position(x) \in Nat \ {0}
         /\ Position(x) = x.firstSeqNum + x.nextIndexToDeliver
         /\ Position(x) <= x.nextSeqNum
         /\ DOMAIN x.buff = 1 .. Len(x.buff)
         /\ DOMAIN x.receipts = 1 .. x.nextSeqNum - 1
         /\ Held(x) \subseteq DOMAIN x.receipts
         /\ x.retired \subseteq Held(x) /\ DOMAIN x.tracked \subseteq Held(x)
         /\ DOMAIN x.tracked \subseteq Nat /\ x.deliverCursor \in Nat
<1>1. x.buff \in Seq(SlotType) /\ x.receipts \in Seq(FrameStates)
      /\ Len(x.receipts) = x.nextSeqNum - 1
  BY DEF BufferType, SequencesType
<1>2. Len(x.buff) \in Nat /\ DOMAIN x.buff = 1 .. Len(x.buff)
  BY <1>1, LenProperties
<1>3. DOMAIN x.receipts = 1 .. x.nextSeqNum - 1
  BY <1>1, LenProperties
<1>4. /\ x.firstSeqNum \in Nat \ {0} /\ x.nextSeqNum \in Nat \ {0}
      /\ x.nextSeqNum = x.firstSeqNum + Len(x.buff)
      /\ x.nextIndexToDeliver \in Nat /\ x.nextIndexToDeliver <= Len(x.buff)
      /\ Position(x) \in Nat \ {0} /\ Position(x) <= x.nextSeqNum
      /\ Position(x) = x.firstSeqNum + x.nextIndexToDeliver
  BY <1>2 DEF BufferType, NumbersType, Position
<1>5. /\ x.retired \subseteq Held(x) /\ DOMAIN x.tracked \subseteq Held(x)
      /\ x.deliverCursor \in DOMAIN x.tracked \cup {0}
  BY DEF BufferType, TrackingType
<1>6. Held(x) \subseteq Nat /\ Held(x) \subseteq DOMAIN x.receipts
  BY <1>3, <1>4 DEF Held
<1> QED BY <1>2, <1>3, <1>4, <1>5, <1>6

\* CursorExact, the comment on deliverCursor, is CursorAtPosition.
LEMMA CursorIsFirst ==
  ASSUME NEW x, BufferType(x), CursorAtPosition(x)
  PROVE  x.deliverCursor = FirstOr0({s \in DOMAIN x.tracked : s >= Position(x)})
<1> DEFINE S == {s \in DOMAIN x.tracked : s >= Position(x)}
<1>1. /\ x.deliverCursor \in DOMAIN x.tracked \cup {0}
      /\ DOMAIN x.tracked \subseteq Nat
      /\ Position(x) \in Nat \ {0}
  BY TypeFacts DEF BufferType, TrackingType
<1>2. CASE x.deliverCursor = 0
  <2>1. S = {}
    BY <1>2 DEF CursorAtPosition
  <2> QED BY <1>2, <2>1, <1>1, FirstOr0Is
<1>3. CASE x.deliverCursor # 0
  <2>1. x.deliverCursor \in S /\ \A y \in S : x.deliverCursor <= y
    BY <1>1, <1>3 DEF CursorAtPosition
  <2>2. FirstOr0(S) \in S /\ \A y \in S : FirstOr0(S) <= y
    BY <2>1, <1>1, FirstOr0Is
  <2>3. x.deliverCursor <= FirstOr0(S) /\ FirstOr0(S) <= x.deliverCursor
    BY <2>1, <2>2
  <2>4. x.deliverCursor \in Nat /\ FirstOr0(S) \in Nat
    BY <1>1, <2>1, <2>2
  <2> QED BY <2>3, <2>4
<1> QED BY <1>2, <1>3

-----------------------------------------------------------------------------
(* Removal. *)

Gone(x, n) == x.firstSeqNum .. x.firstSeqNum + n - 1

\* r is x without its first n slots, field by field.
PrefixRemoved(x, n, acknowledge, r) ==
  /\ IsBuffer(r)
  /\ r.isRunning = x.isRunning /\ r.isClosed = x.isClosed
  /\ r.nextSeqNum = x.nextSeqNum /\ r.ackEvery = x.ackEvery
  /\ r.currentCapacity = x.currentCapacity
  /\ r.releasedRetired = x.releasedRetired
  /\ r.lastFlaggedSeq = x.lastFlaggedSeq
  /\ r.bytesSinceFlag = x.bytesSinceFlag
  /\ r.firstSeqNum = x.firstSeqNum + n
  /\ r.buff = SubSeq(x.buff, n + 1, Len(x.buff))
  /\ r.bytes = BytesAfterRemoval(x, Gone(x, n))
  /\ r.backing = IF Len(x.buff) - n <= x.currentCapacity
                 THEN ShrunkBacking(x.currentCapacity, Len(x.buff) - n, x.backing)
                 ELSE x.backing
  /\ r.isAvailable = (Len(x.buff) - n < x.currentCapacity)
  /\ r.nextIndexToDeliver = IndexAfterRemoval(x, n)
  /\ r.isReadyToDeliver = IF IndexAfterRemoval(x, n) >= Len(x.buff) - n THEN FALSE
                          ELSE x.isReadyToDeliver
  /\ r.retired = x.retired \ Gone(x, n)
  /\ r.tracked = [s \in DOMAIN x.tracked \ Gone(x, n) |-> x.tracked[s]]
  /\ r.deliverCursor = CursorAfterDrop(x, Gone(x, n) \cap DOMAIN x.tracked)
  /\ r.receipts = [s \in DOMAIN x.receipts |->
                     IF s \in Gone(x, n) \cap DOMAIN x.tracked
                     THEN ReceiptAfterDrop(x.receipts[s], acknowledge)
                     ELSE x.receipts[s]]

\* RemovePrefix does what PrefixRemoved says.
LEMMA RemovePrefixFields ==
  ASSUME NEW x, BufferType(x), NEW n, NEW acknowledge,
         NEW r, r = RemovePrefix(x, n, acknowledge)
  PROVE  PrefixRemoved(x, n, acknowledge, r)
<1>1. IsBuffer(x)
  BY DEF BufferType
<1>2. IsBuffer(r)
  BY ZenonT(40), <1>1 DEF IsBuffer, BufferFields, NewAckBuffer, RemovePrefix
<1> QED BY Zenon, <1>1, <1>2 DEF PrefixRemoved, Gone, RemovePrefix, IsBuffer,
                          BufferFields, NewAckBuffer

\* A function on 1 .. k is a sequence of length k.
LEMMA SeqOfFunction ==
  ASSUME NEW S, NEW k \in Nat, NEW f \in [1 .. k -> S]
  PROVE  f \in Seq(S) /\ Len(f) = k
OBVIOUS

\* The numbers of a removed prefix are the first n held ones.
LEMMA GoneIs ==
  ASSUME NEW x, BufferType(x), NEW n \in Nat \ {0}, n <= Len(x.buff),
         NEW r, r.firstSeqNum = x.firstSeqNum + n, r.nextSeqNum = x.nextSeqNum
  PROVE  Held(r) = Held(x) \ Gone(x, n) /\ Gone(x, n) \subseteq Held(x)
<1>1. /\ x.firstSeqNum \in Nat \ {0} /\ Len(x.buff) \in Nat
      /\ x.nextSeqNum = x.firstSeqNum + Len(x.buff)
  BY TypeFacts
<1>2. Held(r) = x.firstSeqNum + n .. x.nextSeqNum - 1
  BY DEF Held
<1> QED BY <1>1, <1>2 DEF Held, Gone

\* A removed prefix leaves the buffer well typed.
LEMMA RemovePrefixType ==
  ASSUME NEW x, BufferType(x), NEW n \in Nat \ {0}, n <= Len(x.buff),
         NEW acknowledge \in BOOLEAN, NEW r, PrefixRemoved(x, n, acknowledge, r)
  PROVE  /\ BufferType(r)
         /\ Len(r.buff) = Len(x.buff) - n
         /\ Position(r) = Larger(Position(x), x.firstSeqNum + n)
<1> DEFINE free == Len(x.buff) - n
           gone == Gone(x, n)
<1>1. free \in Nat /\ n \in Nat /\ x.firstSeqNum \in Nat \ {0}
  BY TypeFacts
<1>2. r.buff = SubSeq(x.buff, n + 1, Len(x.buff)) /\ IsBuffer(r)
  BY DEF PrefixRemoved
<1>3. r.buff \in Seq(SlotType) /\ Len(r.buff) = free
  <2>1. x.buff \in Seq(SlotType) /\ Len(x.buff) \in Nat
    BY TypeFacts DEF BufferType, SequencesType
  <2>2. \A i \in n + 1 .. Len(x.buff) : x.buff[i] \in SlotType
    BY <2>1, ElementOfSeq
  <2> QED BY <1>2, <1>1, <2>1, SubSeqProperties
<1>4. FlagsType(r) /\ BytesType(r)
  <2>1. /\ r.isRunning = x.isRunning /\ r.isClosed = x.isClosed
        /\ r.isAvailable = (free < x.currentCapacity)
        /\ r.isReadyToDeliver = IF IndexAfterRemoval(x, n) >= free THEN FALSE
                                ELSE x.isReadyToDeliver
        /\ r.bytes = Monus(x.bytes, ChargeOf(x, gone))
        /\ r.lastFlaggedSeq = x.lastFlaggedSeq
        /\ r.bytesSinceFlag = x.bytesSinceFlag
    BY DEF PrefixRemoved, BytesAfterRemoval
  <2>2. r.bytes \in Nat
    BY <2>1 DEF Monus, BufferType, BytesType
  <2>3. BytesType(r)
    BY <2>1, <2>2 DEF BufferType, BytesType
  <2>4. FlagsType(x)
    BY DEF BufferType
  <2>5. r.isAvailable \in BOOLEAN
    BY <2>1
  <2>6. r.isReadyToDeliver \in BOOLEAN
    BY Zenon, <2>1, <2>4 DEF FlagsType
  <2> QED BY Zenon, <2>1, <2>3, <2>4, <2>5, <2>6 DEF FlagsType
<1>5. /\ r.firstSeqNum = x.firstSeqNum + n /\ r.nextSeqNum = x.nextSeqNum
      /\ r.nextIndexToDeliver = IndexAfterRemoval(x, n)
  BY DEF PrefixRemoved
<1>6. NumbersType(r)
  <2>1. /\ r.ackEvery = x.ackEvery /\ r.currentCapacity = x.currentCapacity
        /\ r.backing = IF free <= x.currentCapacity
                       THEN ShrunkBacking(x.currentCapacity, free, x.backing)
                       ELSE x.backing
    BY DEF PrefixRemoved
  <2>2. r.nextIndexToDeliver \in 0 .. free
    <3>1. x.nextIndexToDeliver \in Nat /\ x.nextIndexToDeliver <= Len(x.buff)
          /\ Len(x.buff) \in Nat
      BY TypeFacts
    <3> QED BY <1>1, <1>5, <3>1 DEF IndexAfterRemoval
  <2>3. r.backing \in Nat \ {0}
    BY <1>1, <2>1 DEF ShrunkBacking, Larger, BufferType, NumbersType, InitialCapacity
  <2>4. x.ackEvery \in Nat \ {0} /\ x.currentCapacity \in Nat
    BY DEF BufferType, NumbersType
  <2>5. r.firstSeqNum \in Nat \ {0} /\ r.nextSeqNum = r.firstSeqNum + Len(r.buff)
    BY SMTT(30), <1>1, <1>3, <1>5, TypeFacts
  <2> QED BY <1>3, <2>1, <2>2, <2>3, <2>4, <2>5 DEF NumbersType
<1>7. SequencesType(r)
  <2>1. /\ r.releasedRetired = x.releasedRetired
        /\ r.receipts = [s \in DOMAIN x.receipts |->
                           IF s \in gone \cap DOMAIN x.tracked
                           THEN ReceiptAfterDrop(x.receipts[s], acknowledge)
                           ELSE x.receipts[s]]
    BY DEF PrefixRemoved
  <2>2. x.receipts \in Seq(FrameStates) /\ DOMAIN x.receipts = 1 .. x.nextSeqNum - 1
    BY TypeFacts DEF BufferType, SequencesType
  <2>3. \A s \in DOMAIN x.receipts : r.receipts[s] \in FrameStates
    <3>1. \A s \in DOMAIN x.receipts : x.receipts[s] \in FrameStates
      BY Zenon, <2>2, ElementOfSeq, LenProperties
    <3>2. \A f \in FrameStates : ReceiptAfterDrop(f, acknowledge) \in FrameStates
      BY DEF ReceiptAfterDrop, FrameStates
    <3> QED BY <2>1, <3>1, <3>2
  <2>4. x.nextSeqNum - 1 \in Nat
    BY TypeFacts
  <2>5. r.receipts \in [1 .. x.nextSeqNum - 1 -> FrameStates]
    BY Zenon, <2>1, <2>2, <2>3
  <2>6. r.receipts \in Seq(FrameStates) /\ Len(r.receipts) = x.nextSeqNum - 1
    BY <2>4, <2>5, SeqOfFunction
  <2> QED BY <1>3, <1>5, <2>1, <2>6 DEF SequencesType, BufferType
<1>8. TrackingType(r)
  <2>1. /\ r.retired = x.retired \ gone
        /\ r.tracked = [s \in DOMAIN x.tracked \ gone |-> x.tracked[s]]
        /\ r.deliverCursor = CursorAfterDrop(x, gone \cap DOMAIN x.tracked)
    BY DEF PrefixRemoved
  <2>2. Held(r) = Held(x) \ gone
    BY <1>5, GoneIs
  <2>3. r.retired \subseteq Held(r) /\ DOMAIN r.tracked \subseteq Held(r)
    BY <2>1, <2>2, TypeFacts
  <2>4. r.tracked \in [DOMAIN r.tracked -> [max : Nat, sends : Nat]]
    BY <2>1 DEF BufferType, TrackingType
  <2>5. r.deliverCursor \in DOMAIN r.tracked \cup {0}
    <3>1. DOMAIN x.tracked \ (gone \cap DOMAIN x.tracked) = DOMAIN r.tracked
      BY <2>1
    <3>2. DOMAIN r.tracked \subseteq Nat
      BY <2>1, TypeFacts
    <3>3. FirstOr0(DOMAIN r.tracked) \in DOMAIN r.tracked \cup {0}
      BY <3>2, FirstOr0Is
    <3>4. x.deliverCursor \in DOMAIN x.tracked \cup {0}
      BY DEF BufferType, TrackingType
    <3> QED BY Zenon, <2>1, <3>1, <3>3, <3>4 DEF CursorAfterDrop
  <2> QED BY <2>3, <2>4, <2>5 DEF TrackingType
<1>9. Position(r) = Larger(Position(x), x.firstSeqNum + n)
  <2>1. x.nextIndexToDeliver \in Nat /\ n \in Nat
    BY TypeFacts
  <2>2. r.nextIndexToDeliver = IF x.nextIndexToDeliver > n
                               THEN x.nextIndexToDeliver - n ELSE 0
    BY <1>5 DEF IndexAfterRemoval
  <2> QED BY <1>1, <1>5, <2>1, <2>2 DEF Position, Larger
<1> QED BY <1>2, <1>3, <1>4, <1>6, <1>7, <1>8, <1>9 DEF BufferType

\* Removing an acknowledged prefix, or one of retired frames, keeps Core.
LEMMA RemovePrefixCore ==
  ASSUME NEW x, NEW lg, Core(x, lg), NEW n \in Nat \ {0}, n <= Len(x.buff),
         NEW acknowledge \in BOOLEAN,
         acknowledge => Tracked(x),
         ~acknowledge => Gone(x, n) \subseteq x.retired,
         NEW r, PrefixRemoved(x, n, acknowledge, r)
  PROVE  Core(r, lg)
<1>1. BufferType(x) /\ BufferType(r)
      /\ Len(r.buff) = Len(x.buff) - n
      /\ Position(r) = Larger(Position(x), x.firstSeqNum + n)
  BY RemovePrefixType DEF Core
<1>2. /\ r.firstSeqNum = x.firstSeqNum + n /\ r.nextSeqNum = x.nextSeqNum
      /\ r.retired = x.retired \ Gone(x, n)
      /\ r.tracked = [s \in DOMAIN x.tracked \ Gone(x, n) |-> x.tracked[s]]
  BY DEF PrefixRemoved
<1>3. Held(r) = Held(x) \ Gone(x, n) /\ Gone(x, n) \subseteq Held(x)
  BY <1>1, <1>2, GoneIs
<1>4. DOMAIN r.receipts = DOMAIN x.receipts
      /\ \A s \in DOMAIN x.receipts :
           r.receipts[s] = IF s \in Gone(x, n) \cap DOMAIN x.tracked
                           THEN ReceiptAfterDrop(x.receipts[s], acknowledge)
                           ELSE x.receipts[s]
  BY DEF PrefixRemoved
<1>5. LogType(r, lg)
  BY <1>2 DEF Core, LogType
<1>6. Window(r)
  <2>1. /\ r.backing = IF Len(x.buff) - n <= x.currentCapacity
                       THEN ShrunkBacking(x.currentCapacity, Len(x.buff) - n, x.backing)
                       ELSE x.backing
        /\ r.currentCapacity = x.currentCapacity
        /\ r.isAvailable = (Len(x.buff) - n < x.currentCapacity)
    BY DEF PrefixRemoved
  <2>2. x.currentCapacity <= x.backing /\ Len(x.buff) <= x.backing
    BY DEF Core, Window
  <2>3. x.backing \in Nat \ {0} /\ x.currentCapacity \in Nat /\ Len(x.buff) \in Nat
    BY <1>1, TypeFacts DEF BufferType, NumbersType
  <2>4. r.currentCapacity <= r.backing /\ Len(r.buff) <= r.backing
    BY <1>1, <2>1, <2>2, <2>3 DEF ShrunkBacking, Larger, InitialCapacity
  <2> QED BY Zenon, <1>1, <2>1, <2>4 DEF Window
<1>7. CursorAtPosition(r)
  <2>1. r.deliverCursor = CursorAfterDrop(x, Gone(x, n) \cap DOMAIN x.tracked)
    BY DEF PrefixRemoved
  <2>2. CursorAtPosition(x)
    BY DEF Core
  <2>3. DOMAIN r.tracked = DOMAIN x.tracked \ Gone(x, n)
        /\ DOMAIN r.tracked = DOMAIN x.tracked \ (Gone(x, n) \cap DOMAIN x.tracked)
    BY <1>2
  <2>4. \A s \in DOMAIN r.tracked : s >= x.firstSeqNum + n /\ s \in Nat
    BY <1>1, <1>2, <1>3, <2>3, TypeFacts DEF Held
  <2>5. CASE x.deliverCursor \in Gone(x, n) \cap DOMAIN x.tracked
    <3>1. r.deliverCursor = FirstOr0(DOMAIN r.tracked)
      BY Zenon, <2>1, <2>3, <2>5 DEF CursorAfterDrop
    <3>2. Position(x) <= x.firstSeqNum + n /\ Position(r) = x.firstSeqNum + n
      <4>1. x.deliverCursor # 0
        BY <1>1, <2>5, TypeFacts DEF Gone
      <4>2. x.deliverCursor >= Position(x) /\ x.deliverCursor <= x.firstSeqNum + n - 1
        BY <2>2, <2>5, <4>1 DEF CursorAtPosition, Gone
      <4> QED BY <1>1, <4>2, TypeFacts DEF Larger
    <3>3. DOMAIN r.tracked = {} => r.deliverCursor = 0
      BY <3>1, <2>4, FirstOr0Is
    <3>4. DOMAIN r.tracked # {} => r.deliverCursor \in DOMAIN r.tracked
                                   /\ \A s \in DOMAIN r.tracked : r.deliverCursor <= s
      BY <3>1, <2>4, FirstOr0Is
    <3>5. 0 \notin DOMAIN r.tracked
      BY <2>4, <1>1, TypeFacts
    <3> QED BY <3>2, <3>3, <3>4, <3>5, <2>4 DEF CursorAtPosition
  <2>6. CASE x.deliverCursor \notin Gone(x, n) \cap DOMAIN x.tracked
    <3>1. r.deliverCursor = x.deliverCursor
      BY <2>1, <2>6 DEF CursorAfterDrop
    <3>2. r.deliverCursor # 0 => r.deliverCursor \in DOMAIN r.tracked
      BY <1>1 DEF BufferType, TrackingType
    <3>3. Position(x) \in Nat /\ x.firstSeqNum + n \in Nat
      BY <1>1, TypeFacts
    <3>4. Position(r) >= Position(x) /\ (Position(r) = Position(x) \/ Position(r) = x.firstSeqNum + n)
      BY <1>1, <3>3 DEF Larger
    <3>5. r.deliverCursor # 0 => r.deliverCursor >= Position(r)
      BY <3>1, <3>2, <3>4, <2>2, <2>4 DEF CursorAtPosition
    <3>6. ASSUME NEW s \in DOMAIN r.tracked, s >= Position(r)
          PROVE  r.deliverCursor # 0 /\ r.deliverCursor <= s
      <4>1. s \in Nat /\ s \in DOMAIN x.tracked
        BY <2>3, <2>4
      <4>2. s >= Position(x)
        BY <3>3, <3>4, <3>6, <4>1
      <4> QED BY <4>1, <4>2, <3>1, <2>2 DEF CursorAtPosition
    <3> QED BY <3>5, <3>6 DEF CursorAtPosition
  <2> QED BY <2>5, <2>6
<1>8. Marks(r)
  <2>1. Marks(x)
    BY DEF Core
  <2>2. SUFFICES ASSUME NEW s \in DOMAIN x.receipts
                 PROVE  /\ s \in r.retired => r.receipts[s] = "retired"
                        /\ r.receipts[s] = "retired" /\ s \in Held(r) => s \in r.retired
                        /\ r.receipts[s] = "retained" => s \in Live(r)
                        /\ r.receipts[s] = "acknowledged" => s \notin Held(r)
    BY <1>4 DEF Marks
  <2>3. CASE s \in Gone(x, n)
    <3>1. s \in Held(x) /\ s \notin Held(r) /\ s \notin r.retired
      BY <1>2, <1>3, <2>3
    <3>2. r.receipts[s] # "retained"
      BY <1>4, <2>1, <2>3, <3>1 DEF Marks, ReceiptAfterDrop, Live, Tracked
    <3> QED BY <3>1, <3>2
  <2>4. CASE s \notin Gone(x, n)
    BY <1>2, <1>3, <1>4, <2>1, <2>4 DEF Marks, Live
  <2> QED BY <2>3, <2>4
<1>9. Counts(r, lg)
  <2>1. DOMAIN x.tracked \subseteq DOMAIN x.receipts
    BY <1>1, TypeFacts
  <2> QED BY <1>2, <1>4, <2>1 DEF Core, Counts
<1>10. Limits(r, lg)
  <2>1. DOMAIN lg = DOMAIN x.receipts
    BY <1>1, TypeFacts, LenProperties DEF Core, LogType
  <2>2. \A s \in DOMAIN x.receipts :
          /\ r.receipts[s] = "none" => x.receipts[s] = "none"
          /\ r.receipts[s] = "retired" => x.receipts[s] = "retired"
    BY <1>4 DEF ReceiptAfterDrop
  <2> QED BY <2>1, <2>2 DEF Core, Limits
<1> QED BY <1>1, <1>5, <1>6, <1>7, <1>8, <1>9, <1>10 DEF Core

\* What a removed prefix does not disturb, besides Core.
LEMMA RemovePrefixRest ==
  ASSUME NEW x, NEW lg, BufferType(x), NEW n \in Nat \ {0}, n <= Len(x.buff),
         NEW acknowledge \in BOOLEAN, NEW r, PrefixRemoved(x, n, acknowledge, r)
  PROVE  /\ Tracked(x) => Tracked(r)
         /\ Ready(x) => Ready(r)
         /\ FreshAhead(x, lg) => FreshAhead(r, lg)
<1>1. /\ BufferType(r) /\ Len(r.buff) = Len(x.buff) - n
      /\ Position(r) = Larger(Position(x), x.firstSeqNum + n)
  BY RemovePrefixType
<1>2. /\ r.firstSeqNum = x.firstSeqNum + n /\ r.nextSeqNum = x.nextSeqNum
      /\ r.retired = x.retired \ Gone(x, n)
      /\ r.tracked = [s \in DOMAIN x.tracked \ Gone(x, n) |-> x.tracked[s]]
      /\ r.nextIndexToDeliver = IndexAfterRemoval(x, n)
  BY DEF PrefixRemoved
<1>3. Held(r) = Held(x) \ Gone(x, n) /\ Held(x) \subseteq DOMAIN x.receipts
  BY <1>2, GoneIs, TypeFacts
<1>4. Tracked(x) => Tracked(r)
  <2>1. \A s \in DOMAIN x.receipts \ Gone(x, n) : r.receipts[s] = x.receipts[s]
    BY DEF PrefixRemoved
  <2> QED BY <1>2, <1>3, <2>1 DEF Tracked
<1>5. Ready(x) => Ready(r)
  <2>1. x.nextIndexToDeliver \in Nat /\ Len(x.buff) \in Nat
        /\ x.nextIndexToDeliver <= Len(x.buff)
    BY TypeFacts
  <2>2. r.isReadyToDeliver = IF r.nextIndexToDeliver >= Len(r.buff) THEN FALSE
                             ELSE x.isReadyToDeliver
    BY Zenon, <1>1, <1>2 DEF PrefixRemoved
  <2>3. r.nextIndexToDeliver < Len(r.buff) => x.nextIndexToDeliver < Len(x.buff)
    BY <1>1, <1>2, <2>1 DEF IndexAfterRemoval
  <2>4. r.nextIndexToDeliver \in Nat /\ Len(r.buff) \in Nat
    BY <1>1, TypeFacts
  <2> QED BY <2>2, <2>3, <2>4 DEF Ready
<1>6. FreshAhead(x, lg) => FreshAhead(r, lg)
  <2>1. SUFFICES ASSUME FreshAhead(x, lg), NEW s \in DOMAIN r.tracked \ r.retired,
                        s >= Position(r), lg[s].max # 0
                 PROVE  lg[s].sent < lg[s].max
    BY DEF FreshAhead
  <2>2. s \in DOMAIN x.tracked \ x.retired
    BY <1>2
  <2>3. s >= Position(x)
    <3>1. s \in Nat /\ Position(x) \in Nat /\ x.firstSeqNum + n \in Nat
      BY <2>2, TypeFacts
    <3> QED BY <3>1, <2>1, <1>1 DEF Larger
  <2> QED BY <2>1, <2>2, <2>3 DEF FreshAhead
<1> QED BY <1>4, <1>5, <1>6

\* RetiredHead counts the retired slots at the front.
LEMMA RetiredHeadIs ==
  ASSUME NEW x, BufferType(x)
  PROVE  /\ RetiredHead(x) \in 0 .. Len(x.buff)
         /\ Gone(x, RetiredHead(x)) \subseteq x.retired
         /\ RetiredHead(x) < Len(x.buff) => x.firstSeqNum + RetiredHead(x) \in Live(x)
<1>1. /\ x.firstSeqNum \in Nat \ {0} /\ Len(x.buff) \in Nat
      /\ x.nextSeqNum = x.firstSeqNum + Len(x.buff)
  BY TypeFacts
<1>2. CASE Live(x) = {}
  BY <1>1, <1>2 DEF RetiredHead, Live, Held, Gone
<1>3. CASE Live(x) # {}
  <2>1. Live(x) \subseteq Nat
    BY <1>1 DEF Live, Held
  <2>2. Min(Live(x)) \in Live(x) /\ \A y \in Live(x) : Min(Live(x)) <= y
    BY <1>3, <2>1, MinIsLeast
  <2>3. Min(Live(x)) \in Held(x) /\ RetiredHead(x) = Min(Live(x)) - x.firstSeqNum
    BY <1>3, <2>2 DEF RetiredHead, Live
  <2>4. RetiredHead(x) \in 0 .. Len(x.buff)
        /\ x.firstSeqNum + RetiredHead(x) = Min(Live(x))
    BY <1>1, <2>3 DEF Held
  <2>5. ASSUME NEW s \in Gone(x, RetiredHead(x)) PROVE s \in x.retired
    <3>1. s \in Held(x) /\ ~(Min(Live(x)) <= s)
      BY <1>1, <2>3, <2>5 DEF Gone, Held
    <3> QED BY <3>1, <2>2 DEF Live
  <2> QED BY <2>2, <2>4, <2>5
<1> QED BY <1>2, <1>3

\* The ring of released retired numbers stays a sequence of naturals.
LEMMA RememberType ==
  ASSUME NEW ring \in Seq(Nat), NEW first \in Nat \ {0}, NEW n \in Nat
  PROVE  Remember(ring, first, n) \in Seq(Nat)
<1> DEFINE new == [i \in 1 .. n |-> first + i - 1]
           all == ring \o new
           from == Larger(1, Len(all) - ReleasedRetiredMemory + 1)
<1>1. new \in Seq(Nat)
  <2>1. new \in [1 .. n -> Nat]
    OBVIOUS
  <2> QED BY <2>1, SeqOfFunction
<1> HIDE DEF new
<1>2. all \in Seq(Nat)
  BY <1>1, ConcatProperties
<1> HIDE DEF all
<1>3. Len(all) \in Nat /\ from \in Nat \ {0}
  BY <1>2, LenProperties, ConstantsAssumption DEF Larger
<1> HIDE DEF from
<1>4. \A i \in from .. Len(all) : all[i] \in Nat
  BY <1>2, <1>3, ElementOfSeq
<1>5. SubSeq(all, from, Len(all)) \in Seq(Nat)
  BY <1>3, <1>4, SubSeqProperties
<1> QED BY Zenon, <1>5 DEF Remember, all, new, from

\* The fields Core and the rest of the invariant read, and a type-preserving
\* change of the others.
Agree(x, r) ==
  /\ IsBuffer(r) /\ FlagsType(r) /\ BytesType(r)
  /\ r.releasedRetired \in Seq(Nat)
  /\ r.buff = x.buff /\ r.backing = x.backing
  /\ r.firstSeqNum = x.firstSeqNum /\ r.nextSeqNum = x.nextSeqNum
  /\ r.ackEvery = x.ackEvery /\ r.currentCapacity = x.currentCapacity
  /\ r.nextIndexToDeliver = x.nextIndexToDeliver
  /\ r.isAvailable = x.isAvailable
  /\ r.retired = x.retired /\ r.tracked = x.tracked
  /\ r.deliverCursor = x.deliverCursor /\ r.receipts = x.receipts

\* Changing the lifetime flags, the byte counters or the ring of released
\* numbers disturbs nothing.
LEMMA AgreeKeeps ==
  ASSUME NEW x, NEW r, NEW lg, Agree(x, r)
  PROVE  /\ Core(x, lg) => Core(r, lg)
         /\ Tracked(x) => Tracked(r)
         /\ FreshAhead(x, lg) => FreshAhead(r, lg)
         /\ LiveHead(x) => LiveHead(r)
         /\ Held(r) = Held(x) /\ Position(r) = Position(x)
<1>1. Held(r) = Held(x) /\ Position(r) = Position(x) /\ Live(r) = Live(x)
  BY DEF Agree, Held, Position, Live
<1>2. ASSUME Core(x, lg) PROVE Core(r, lg)
  <2>1. NumbersType(r)
    BY <1>2 DEF Agree, Core, BufferType, NumbersType
  <2>2. SequencesType(r)
    BY <1>2 DEF Agree, Core, BufferType, SequencesType
  <2>3. TrackingType(r)
    BY <1>1, <1>2 DEF Agree, Core, BufferType, TrackingType
  <2>4. BufferType(r)
    BY <2>1, <2>2, <2>3 DEF BufferType, Agree
  <2>5. Window(r) /\ LogType(r, lg)
    BY <1>2 DEF Core, Agree, Window, LogType
  <2>6. CursorAtPosition(r) /\ Marks(r)
    BY <1>1, <1>2 DEF Core, Agree, CursorAtPosition, Marks
  <2>7. Counts(r, lg) /\ Limits(r, lg)
    BY <1>1, <1>2 DEF Core, Agree, Counts, Limits
  <2> QED BY <2>4, <2>5, <2>6, <2>7 DEF Core
<1>3. Tracked(x) => Tracked(r)
  BY <1>1 DEF Tracked, Agree
<1>4. FreshAhead(x, lg) => FreshAhead(r, lg)
  BY <1>1 DEF FreshAhead, Agree
<1>5. LiveHead(x) => LiveHead(r)
  BY DEF LiveHead, Agree
<1> QED BY <1>1, <1>2, <1>3, <1>4, <1>5

\* releaseRetiredHeadLocked keeps the invariant and leaves a live head.
LEMMA ReleaseKeeps ==
  ASSUME NEW x, NEW lg, Core(x, lg), NEW r, r = ReleaseRetiredHead(x)
  PROVE  /\ Core(r, lg) /\ LiveHead(r)
         /\ Tracked(x) => Tracked(r)
         /\ Ready(x) => Ready(r)
         /\ FreshAhead(x, lg) => FreshAhead(r, lg)
<1> DEFINE n == RetiredHead(x)
           q == RemovePrefix(x, n, FALSE)
<1>1. /\ BufferType(x) /\ n \in Nat /\ n <= Len(x.buff)
      /\ Gone(x, n) \subseteq x.retired
      /\ n < Len(x.buff) => x.firstSeqNum + n \in Live(x)
      /\ x.firstSeqNum \in Nat \ {0} /\ Len(x.buff) \in Nat
      /\ x.nextSeqNum = x.firstSeqNum + Len(x.buff)
  BY RetiredHeadIs, TypeFacts DEF Core
<1>2. CASE x.retired = {} \/ n = 0
  <2>1. r = x
    BY Zenon, <1>2 DEF ReleaseRetiredHead
  <2>2. LiveHead(x)
    <3>1. CASE x.retired = {}
      BY <3>1 DEF LiveHead
    <3>2. CASE n = 0
      BY <1>1, <3>2 DEF LiveHead, Live
    <3> QED BY <1>2, <3>1, <3>2
  <2> QED BY <2>1, <2>2
<1>3. CASE ~(x.retired = {} \/ n = 0)
  <2>1. PrefixRemoved(x, n, FALSE, q) /\ n \in Nat \ {0}
    BY Zenon, <1>1, <1>3, RemovePrefixFields
  <2>2. r = [q EXCEPT !.releasedRetired = Remember(@, x.firstSeqNum, n)]
    BY <1>3 DEF ReleaseRetiredHead
  <2> HIDE DEF q, n
  <2>3. Core(q, lg)
    BY Zenon, <1>1, <2>1, RemovePrefixCore
  <2>4. /\ Tracked(x) => Tracked(q)
        /\ Ready(x) => Ready(q)
        /\ FreshAhead(x, lg) => FreshAhead(q, lg)
    BY Zenon, <1>1, <2>1, RemovePrefixRest
  <2>5. IsBuffer(q) /\ FlagsType(q) /\ BytesType(q) /\ q.releasedRetired \in Seq(Nat)
    BY <2>3 DEF Core, BufferType, SequencesType
  <2>6. Remember(q.releasedRetired, x.firstSeqNum, n) \in Seq(Nat)
    BY Zenon, <1>1, <2>5, RememberType
  <2>7. Agree(q, r) /\ r.isReadyToDeliver = q.isReadyToDeliver
    <3>1. IsBuffer(r)
      BY Zenon, <2>2, <2>5 DEF IsBuffer, BufferFields, NewAckBuffer
    <3> QED BY ZenonT(40), <2>2, <2>5, <2>6, <3>1 DEF Agree, IsBuffer, BufferFields,
              NewAckBuffer, FlagsType, BytesType
  <2>8. LiveHead(q)
    <3>1. Len(q.buff) = Len(x.buff) - n
      BY Zenon, <1>1, <2>1, RemovePrefixType
    <3>2. q.firstSeqNum = x.firstSeqNum + n /\ q.retired = x.retired \ Gone(x, n)
      BY <2>1 DEF PrefixRemoved
    <3> QED BY <1>1, <3>1, <3>2 DEF LiveHead, Live
  <2>9. Ready(q) => Ready(r)
    BY <2>7 DEF Ready, Agree
  <2> QED BY <2>3, <2>4, <2>7, <2>8, <2>9, AgreeKeeps
<1> QED BY <1>2, <1>3

\* The whole invariant of the buffer between two calls.
Sound(x, lg) == Core(x, lg) /\ FreshAhead(x, lg) /\ Ready(x) /\ LiveHead(x)

\* Ack keeps the invariant, whatever number the peer sends.
LEMMA AckKeeps ==
  ASSUME NEW x, NEW lg, Sound(x, lg), Tracked(x), NEW seq, NEW r, r = Ack(x, seq)
  PROVE  Sound(r, lg) /\ Tracked(r)
<1> DEFINE n == seq - x.firstSeqNum + 1
           q == RemovePrefix(x, n, TRUE)
<1>1. CASE LateAckTolerated(x, seq) \/ ~AckAccepted(x, seq)
  BY Zenon, <1>1 DEF Ack
<1>2. CASE ~(LateAckTolerated(x, seq) \/ ~AckAccepted(x, seq))
  <2>1. r = ReleaseRetiredHead(q)
    BY <1>2 DEF Ack
  <2>2. BufferType(x) /\ Core(x, lg)
    BY DEF Sound, Core
  <2>3. n \in Nat \ {0} /\ n <= Len(x.buff)
    BY SMTT(30), <1>2, <2>2, TypeFacts DEF AckAccepted
  <2>4. PrefixRemoved(x, n, TRUE, q)
    BY Zenon, <2>2, RemovePrefixFields
  <2> HIDE DEF n, q
  <2>5. Core(q, lg)
    BY Zenon, <2>2, <2>3, <2>4, RemovePrefixCore
  <2>6. Tracked(q) /\ Ready(q) /\ FreshAhead(q, lg)
    BY Zenon, <2>2, <2>3, <2>4, RemovePrefixRest DEF Sound
  <2> QED BY <2>1, <2>5, <2>6, ReleaseKeeps DEF Sound
<1> QED BY <1>1, <1>2

-----------------------------------------------------------------------------
(* Retirement and reset. *)

\* The history has one entry, with its types, for every number assigned.
LEMMA LogFacts ==
  ASSUME NEW x, NEW lg, Core(x, lg)
  PROVE  /\ DOMAIN lg = DOMAIN x.receipts /\ DOMAIN x.tracked \subseteq DOMAIN lg
         /\ \A s \in DOMAIN lg : lg[s] \in [max : Nat, sent : Nat]
         /\ \A s \in DOMAIN x.tracked : x.tracked[s] \in [max : Nat, sends : Nat]
<1>1. lg \in Seq([max : Nat, sent : Nat]) /\ Len(lg) = x.nextSeqNum - 1
  BY DEF Core, LogType
<1>2. DOMAIN lg = 1 .. x.nextSeqNum - 1
      /\ \A s \in DOMAIN lg : lg[s] \in [max : Nat, sent : Nat]
  BY Zenon, <1>1, LenProperties, ElementOfSeq
<1>3. DOMAIN lg = DOMAIN x.receipts /\ DOMAIN x.tracked \subseteq DOMAIN lg
  BY <1>2, TypeFacts DEF Core
<1>4. \A s \in DOMAIN x.tracked : x.tracked[s] \in [max : Nat, sends : Nat]
  BY DEF Core, BufferType, TrackingType
<1> QED BY <1>2, <1>3, <1>4

\* A tracked entry is exhausted exactly when the history says so.
LEMMA ExhaustedIs ==
  ASSUME NEW x, NEW lg, Core(x, lg), NEW s \in DOMAIN x.tracked
  PROVE  /\ Exhausted(x, s) => lg[s].max # 0 /\ lg[s].sent = lg[s].max
         /\ lg[s].max # 0 /\ ~Exhausted(x, s) => lg[s].sent < lg[s].max
<1>1. s \in DOMAIN lg /\ lg[s].max \in Nat /\ lg[s].sent \in Nat
  BY LogFacts
<1>2. x.tracked[s].max = lg[s].max
      /\ (lg[s].max # 0 => x.tracked[s].sends = lg[s].sent)
  BY DEF Core, Counts
<1>3. lg[s].max # 0 => lg[s].sent <= lg[s].max
  BY <1>1 DEF Core, Limits
<1> QED BY <1>1, <1>2, <1>3 DEF Exhausted

\* r is x with the frames of S retired: what becomes of the slots and receipts.
FramesRetired(x, S, r) ==
  /\ r.isRunning = x.isRunning /\ r.isClosed = x.isClosed
  /\ r.firstSeqNum = x.firstSeqNum /\ r.nextSeqNum = x.nextSeqNum
  /\ r.nextIndexToDeliver = x.nextIndexToDeliver
  /\ r.isAvailable = x.isAvailable /\ r.isReadyToDeliver = x.isReadyToDeliver
  /\ r.tracked = x.tracked /\ r.retired = x.retired \cup S
  /\ r.bytes = BytesAfterRemoval(x, S)
  /\ r.lastFlaggedSeq = FlagAfterRetire(x, S)
  /\ r.receipts = [s \in DOMAIN x.receipts |->
                     IF s \in S THEN "retired" ELSE x.receipts[s]]
  /\ r.buff = [i \in DOMAIN x.buff |->
                 IF x.firstSeqNum + i - 1 \in S
                 THEN [seq |-> x.firstSeqNum + i - 1, ackRequested |-> FALSE, size |-> 0]
                 ELSE x.buff[i]]

\* retireLocked on exhausted frames keeps Core.
LEMMA RetireKeeps ==
  ASSUME NEW x, NEW lg, Core(x, lg),
         NEW S, S \subseteq DOMAIN x.tracked \ x.retired,
         \A s \in S : Exhausted(x, s),
         NEW r, r = Retire(x, S)
  PROVE  /\ Core(r, lg)
         /\ Tracked(x) => Tracked(r)
         /\ FramesRetired(x, S, r)
         /\ Live(r) = Live(x) \ S /\ Position(r) = Position(x)
<1>1. BufferType(x) /\ IsBuffer(x)
  BY DEF Core, BufferType
<1>2. IsBuffer(r)
  BY ZenonT(40), <1>1 DEF Retire, IsBuffer, BufferFields, NewAckBuffer
<1>3. /\ r.isRunning = x.isRunning /\ r.isClosed = x.isClosed
      /\ r.backing = x.backing /\ r.firstSeqNum = x.firstSeqNum
      /\ r.nextSeqNum = x.nextSeqNum /\ r.ackEvery = x.ackEvery
      /\ r.currentCapacity = x.currentCapacity
      /\ r.nextIndexToDeliver = x.nextIndexToDeliver
      /\ r.isAvailable = x.isAvailable /\ r.isReadyToDeliver = x.isReadyToDeliver
      /\ r.retired = x.retired \cup S /\ r.releasedRetired = x.releasedRetired
      /\ r.tracked = x.tracked /\ r.deliverCursor = x.deliverCursor
      /\ r.bytesSinceFlag = x.bytesSinceFlag
      /\ r.bytes = BytesAfterRemoval(x, S)
      /\ r.lastFlaggedSeq = FlagAfterRetire(x, S)
  BY <1>1 DEF Retire, IsBuffer, BufferFields, NewAckBuffer
<1>4. /\ r.receipts = [s \in DOMAIN x.receipts |->
                        IF s \in S THEN "retired" ELSE x.receipts[s]]
      /\ r.buff = [i \in DOMAIN x.buff |->
                    IF x.firstSeqNum + i - 1 \in S
                    THEN [seq |-> x.firstSeqNum + i - 1, ackRequested |-> FALSE, size |-> 0]
                    ELSE x.buff[i]]
  BY <1>1 DEF Retire, IsBuffer, BufferFields, NewAckBuffer
<1>5. /\ x.firstSeqNum \in Nat \ {0} /\ Len(x.buff) \in Nat
      /\ DOMAIN x.buff = 1 .. Len(x.buff)
      /\ x.nextSeqNum - 1 \in Nat /\ DOMAIN x.receipts = 1 .. x.nextSeqNum - 1
      /\ DOMAIN x.tracked \subseteq Held(x) /\ x.retired \subseteq Held(x)
      /\ Held(x) \subseteq DOMAIN x.receipts
  BY <1>1, TypeFacts
<1>6. /\ Held(r) = Held(x) /\ Position(r) = Position(x) /\ Live(r) = Live(x) \ S
      /\ S \subseteq Held(x)
  BY <1>3, <1>5 DEF Held, Position, Live
<1>7. r.buff \in Seq(SlotType) /\ Len(r.buff) = Len(x.buff)
  <2>1. x.buff \in Seq(SlotType)
    BY <1>1 DEF BufferType, SequencesType
  <2>2. \A i \in 1 .. Len(x.buff) : x.buff[i] \in SlotType
    BY <2>1, ElementOfSeq
  <2>3. \A i \in 1 .. Len(x.buff) :
          [seq |-> x.firstSeqNum + i - 1, ackRequested |-> FALSE, size |-> 0] \in SlotType
    BY <1>5 DEF SlotType
  <2>4. r.buff \in [1 .. Len(x.buff) -> SlotType]
    BY <1>4, <1>5, <2>2, <2>3
  <2> QED BY <1>5, <2>4, SeqOfFunction
<1>8. r.receipts \in Seq(FrameStates) /\ Len(r.receipts) = x.nextSeqNum - 1
  <2>1. x.receipts \in Seq(FrameStates) /\ Len(x.receipts) = x.nextSeqNum - 1
    BY <1>1 DEF BufferType, SequencesType
  <2>2. \A s \in DOMAIN x.receipts : x.receipts[s] \in FrameStates
    BY <1>5, <2>1, ElementOfSeq
  <2>3. r.receipts \in [1 .. x.nextSeqNum - 1 -> FrameStates]
    BY <1>4, <1>5, <2>2 DEF FrameStates
  <2> QED BY SMTT(30), <1>5, <2>3, SeqOfFunction
<1>9. BufferType(r)
  <2>1. FlagsType(r)
    BY <1>1, <1>3 DEF BufferType, FlagsType
  <2>2. NumbersType(r)
    BY <1>1, <1>3, <1>7 DEF BufferType, NumbersType
  <2>3. SequencesType(r)
    BY <1>1, <1>3, <1>7, <1>8 DEF BufferType, SequencesType
  <2>4. TrackingType(r)
    BY <1>1, <1>3, <1>5, <1>6 DEF BufferType, TrackingType
  <2>5. BytesType(r)
    <3>1. BytesType(x)
      BY <1>1 DEF BufferType
    <3>2. r.bytes \in Nat
      BY <1>3, <3>1 DEF BytesAfterRemoval, Monus, BytesType
    <3> QED BY <1>3, <3>1, <3>2 DEF BytesType, FlagAfterRetire
  <2> QED BY <1>2, <2>1, <2>2, <2>3, <2>4, <2>5 DEF BufferType
<1>10. LogType(r, lg) /\ Window(r)
  BY <1>3, <1>7 DEF Core, LogType, Window
<1>11. CursorAtPosition(r)
  BY <1>3, <1>6 DEF Core, CursorAtPosition
<1>12. Marks(r)
  <2>1. Marks(x)
    BY DEF Core
  <2> QED BY <1>3, <1>4, <1>6, <2>1 DEF Marks
<1>13. Counts(r, lg)
  BY <1>3, <1>4, <1>5 DEF Core, Counts
<1>14. Limits(r, lg)
  <2>1. \A s \in S : lg[s].max # 0 /\ lg[s].sent = lg[s].max
    BY ExhaustedIs
  <2>2. DOMAIN lg = DOMAIN x.receipts
    BY LogFacts
  <2> QED BY <1>4, <2>1, <2>2 DEF Core, Limits
<1>15. Tracked(x) => Tracked(r)
  BY <1>3, <1>4, <1>5, <1>6 DEF Tracked
<1>16. FramesRetired(x, S, r)
  BY Zenon, <1>3, <1>4 DEF FramesRetired
<1> QED BY <1>6, <1>9, <1>10, <1>11, <1>12, <1>13, <1>14, <1>15, <1>16 DEF Core

\* ResetDelivery before it retires anything.
StartOver(x) == [x EXCEPT !.nextIndexToDeliver = 0, !.deliverCursor = ResetCursor(x)]

\* q is x with the sender and the cursor back at the front, field by field.
AtFront(x, q) ==
  /\ IsBuffer(q)
  /\ q.isRunning = x.isRunning /\ q.isClosed = x.isClosed
  /\ q.buff = x.buff /\ q.backing = x.backing
  /\ q.firstSeqNum = x.firstSeqNum
  /\ q.nextSeqNum = x.nextSeqNum /\ q.ackEvery = x.ackEvery
  /\ q.currentCapacity = x.currentCapacity
  /\ q.nextIndexToDeliver = 0
  /\ q.isAvailable = x.isAvailable /\ q.isReadyToDeliver = x.isReadyToDeliver
  /\ q.retired = x.retired /\ q.releasedRetired = x.releasedRetired
  /\ q.tracked = x.tracked /\ q.receipts = x.receipts
  /\ q.deliverCursor = FirstOr0(DOMAIN x.tracked)
  /\ q.bytes = x.bytes /\ q.lastFlaggedSeq = x.lastFlaggedSeq
  /\ q.bytesSinceFlag = x.bytesSinceFlag

\* Moving the sender and the cursor back to the front keeps the invariant.
LEMMA StartOverKeeps ==
  ASSUME NEW x, NEW lg, Core(x, lg), NEW q, q = StartOver(x)
  PROVE  AtFront(x, q) /\ Core(q, lg) /\ Held(q) = Held(x) /\ Live(q) = Live(x)
<1>2. BufferType(x) /\ IsBuffer(x)
  BY DEF Core, BufferType
<1>3. AtFront(x, q)
  BY Zenon, <1>2 DEF AtFront, StartOver, IsBuffer, BufferFields, NewAckBuffer, ResetCursor,
                     ReceiptHead
<1>5. /\ x.firstSeqNum \in Nat \ {0} /\ Len(x.buff) \in Nat
      /\ DOMAIN x.tracked \subseteq Held(x) /\ DOMAIN x.tracked \subseteq Nat
  BY <1>2, TypeFacts
<1>6. Held(q) = Held(x) /\ Live(q) = Live(x) /\ Position(q) = x.firstSeqNum
  BY <1>3, <1>5 DEF AtFront, Held, Live, Position
<1>7. /\ DOMAIN x.tracked = {} => q.deliverCursor = 0
      /\ DOMAIN x.tracked # {} => /\ q.deliverCursor \in DOMAIN x.tracked
                                  /\ \A s \in DOMAIN x.tracked : q.deliverCursor <= s
  BY <1>3, <1>5, FirstOr0Is DEF AtFront
<1>8. Core(q, lg)
  <2>1. FlagsType(q) /\ BytesType(q)
    BY <1>2, <1>3 DEF AtFront, BufferType, FlagsType, BytesType
  <2>2. NumbersType(q)
    BY <1>2, <1>3, <1>5 DEF AtFront, BufferType, NumbersType
  <2>3. SequencesType(q)
    BY <1>2, <1>3 DEF AtFront, BufferType, SequencesType
  <2>4. TrackingType(q)
    BY <1>2, <1>3, <1>6, <1>7 DEF AtFront, BufferType, TrackingType
  <2>5. LogType(q, lg) /\ Window(q)
    BY <1>3 DEF AtFront, Core, LogType, Window
  <2>6. CursorAtPosition(q)
    <3>1. \A s \in DOMAIN x.tracked : s >= x.firstSeqNum /\ s # 0
      BY SMTT(30), <1>5 DEF Held
    <3> QED BY <1>3, <1>6, <1>7, <3>1 DEF AtFront, CursorAtPosition
  <2>7. Marks(q) /\ Counts(q, lg) /\ Limits(q, lg)
    BY <1>3, <1>6 DEF AtFront, Core, Marks, Counts, Limits
  <2> QED BY <1>3, <2>1, <2>2, <2>3, <2>4, <2>5, <2>6, <2>7 DEF AtFront, Core, BufferType
<1> QED BY <1>3, <1>6, <1>8

\* ResetDelivery: the spent frames are retired before anything is sent again.
LEMMA ResetKeeps ==
  ASSUME NEW x, NEW lg, Core(x, lg), NEW r, r = ResetDelivery(x)
  PROVE  Sound(r, lg) /\ (Tracked(x) => Tracked(r))
<1> DEFINE spent == {s \in DOMAIN x.tracked \ x.retired : Exhausted(x, s)}
           reset == [x EXCEPT !.nextIndexToDeliver = 0, !.deliverCursor = ResetCursor(x)]
           y == Retire(reset, spent)
           z == ReleaseRetiredHead(y)
<1>1. r = [z EXCEPT !.isReadyToDeliver = ReadyAfterReset(z)]
  BY DEF ResetDelivery
<1>2. AtFront(x, reset) /\ Core(reset, lg) /\ Held(reset) = Held(x)
  BY Zenon, StartOverKeeps DEF StartOver
<1>3. reset.tracked = x.tracked /\ reset.retired = x.retired /\ reset.receipts = x.receipts
  BY <1>2 DEF AtFront
<1>4. \A s \in DOMAIN x.tracked : Exhausted(reset, s) <=> Exhausted(x, s)
  BY <1>3 DEF Exhausted
<1> HIDE DEF reset
<1>9. /\ Core(y, lg) /\ (Tracked(reset) => Tracked(y))
      /\ y.tracked = x.tracked /\ y.retired = x.retired \cup spent
  <2>1. spent \subseteq DOMAIN reset.tracked \ reset.retired
        /\ \A s \in spent : Exhausted(reset, s)
    BY <1>3, <1>4
  <2> HIDE DEF spent
  <2>2. Core(y, lg) /\ (Tracked(reset) => Tracked(y)) /\ FramesRetired(reset, spent, y)
    BY Zenon, <1>2, <2>1, RetireKeeps
  <2> QED BY <1>3, <2>2 DEF FramesRetired
<1>10. Tracked(x) => Tracked(y)
  BY <1>2, <1>3, <1>9 DEF Tracked
<1>11. FreshAhead(y, lg)
  <2>1. SUFFICES ASSUME NEW s \in DOMAIN y.tracked \ y.retired, lg[s].max # 0
                 PROVE  lg[s].sent < lg[s].max
    BY DEF FreshAhead
  <2>2. s \in DOMAIN x.tracked /\ ~Exhausted(x, s)
    BY <1>9
  <2> QED BY <2>1, <2>2, ExhaustedIs
<1> HIDE DEF y
<1>12. /\ Core(z, lg) /\ LiveHead(z) /\ FreshAhead(z, lg)
       /\ Tracked(x) => Tracked(z)
  BY <1>9, <1>10, <1>11, ReleaseKeeps
<1> HIDE DEF z
<1>13. IsBuffer(z) /\ FlagsType(z) /\ BytesType(z) /\ z.releasedRetired \in Seq(Nat)
  BY <1>12 DEF Core, BufferType, SequencesType
<1>14. r.isReadyToDeliver = (z.nextIndexToDeliver < Len(z.buff)) /\ IsBuffer(r)
  BY <1>1, <1>13 DEF IsBuffer, BufferFields, NewAckBuffer, ReadyAfterReset
<1>15. Agree(z, r)
  <2>1. r.isReadyToDeliver \in BOOLEAN
    BY <1>14
  <2> QED BY <1>1, <1>13, <1>14, <2>1 DEF Agree, IsBuffer, BufferFields,
            NewAckBuffer, FlagsType, BytesType
<1>16. Ready(r)
  BY Zenon, <1>14, <1>15 DEF Ready, Agree
<1> QED BY <1>12, <1>15, <1>16, AgreeKeeps DEF Sound
=============================================================================
