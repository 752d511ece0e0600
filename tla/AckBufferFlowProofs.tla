------------------------ MODULE AckBufferFlowProofs -------------------------
(***************************************************************************)
(* What the methods that send, resize, seal and admit keep; the ones that  *)
(* remove and retire are in AckBufferOpsProofs.  At the end, the charge of *)
(* a set of slots as a sum: what it is for no slot, one slot and two sets. *)
(***************************************************************************)
EXTENDS AckBufferOpsProofs, FiniteSetTheorems

-----------------------------------------------------------------------------
(* Delivery. *)

\* The pre-send fence of GetNextToDeliver never fires: a frame that used up its
\* transmissions was retired by the reset that put it ahead of the sender.
LEMMA NothingFenced ==
  ASSUME NEW x, NEW lg, Core(x, lg), FreshAhead(x, lg)
  PROVE  Fenced(x) = {}
<1>1. SUFFICES ASSUME NEW s \in Fenced(x) PROVE FALSE
  OBVIOUS
<1>2. s \in DOMAIN x.tracked \ x.retired /\ Exhausted(x, s) /\ s >= Position(x)
  BY <1>1, TypeFacts DEF Fenced, CursorSees, Pending, Core
<1>3. lg[s].max # 0 /\ lg[s].sent = lg[s].max
  BY <1>2, ExhaustedIs
<1>4. lg[s].sent < lg[s].max
  BY <1>2, <1>3 DEF FreshAhead
<1>5. lg[s].max \in Nat
  BY <1>2, LogFacts
<1> QED BY <1>3, <1>4, <1>5

\* r is x with the delivery position moved to s, field by field.
Moved(x, s, r) ==
  /\ IsBuffer(r)
  /\ r.isRunning = x.isRunning /\ r.isClosed = x.isClosed
  /\ r.buff = x.buff /\ r.backing = x.backing
  /\ r.firstSeqNum = x.firstSeqNum /\ r.nextSeqNum = x.nextSeqNum
  /\ r.ackEvery = x.ackEvery /\ r.currentCapacity = x.currentCapacity
  /\ r.isAvailable = x.isAvailable /\ r.isReadyToDeliver = x.isReadyToDeliver
  /\ r.retired = x.retired /\ r.releasedRetired = x.releasedRetired
  /\ r.tracked = x.tracked /\ r.receipts = x.receipts
  /\ r.bytes = x.bytes /\ r.lastFlaggedSeq = x.lastFlaggedSeq
  /\ r.bytesSinceFlag = x.bytesSinceFlag
  /\ r.nextIndexToDeliver = s - x.firstSeqNum
  /\ r.deliverCursor = CursorAt(x, s)

\* Passing over slots keeps the invariant and sets the cursor for the new
\* position.
LEMMA PassKeeps ==
  ASSUME NEW x, NEW lg, Core(x, lg), FreshAhead(x, lg),
         NEW s \in Position(x) .. x.nextSeqNum, NEW r, r = PassTo(x, s)
  PROVE  Moved(x, s, r) /\ Core(r, lg) /\ FreshAhead(r, lg) /\ Position(r) = s
<1>1. BufferType(x) /\ IsBuffer(x)
  BY DEF Core, BufferType
<1>2. r = [x EXCEPT !.nextIndexToDeliver = s - x.firstSeqNum,
                    !.deliverCursor = CursorAt(x, s)]
  BY NothingFenced DEF PassTo
<1>3. Moved(x, s, r)
  BY ZenonT(40), <1>1, <1>2 DEF Moved, IsBuffer, BufferFields, NewAckBuffer
<1>4. /\ x.firstSeqNum \in Nat \ {0} /\ Len(x.buff) \in Nat
      /\ x.nextSeqNum = x.firstSeqNum + Len(x.buff)
      /\ Position(x) \in Nat \ {0} /\ Position(x) >= x.firstSeqNum
      /\ DOMAIN x.tracked \subseteq Nat /\ s \in Nat
  BY <1>1, TypeFacts
<1>5. /\ Held(r) = Held(x) /\ Live(r) = Live(x) /\ Position(r) = s
      /\ r.nextIndexToDeliver \in 0 .. Len(x.buff)
  BY <1>3, <1>4 DEF Moved, Held, Live, Position
<1>8. CursorAtPosition(r) /\ r.deliverCursor \in DOMAIN r.tracked \cup {0}
  <2> DEFINE T == {t \in DOMAIN x.tracked : t >= s /\ t >= x.deliverCursor}
  <2>1. r.tracked = x.tracked
    BY <1>3 DEF Moved
  <2>2. CASE x.deliverCursor = 0
    <3>1. r.deliverCursor = 0
      BY <1>3, <1>4, <2>2 DEF Moved, CursorAt
    <3>2. \A t \in DOMAIN x.tracked : ~(t >= s)
      BY <1>4, <2>2 DEF Core, CursorAtPosition
    <3> QED BY <1>5, <2>1, <3>1, <3>2 DEF CursorAtPosition
  <2>3. CASE x.deliverCursor # 0
    <3>1. x.deliverCursor >= Position(x) /\ x.deliverCursor \in Nat
      BY <1>1, <2>3, TypeFacts DEF Core, CursorAtPosition
    <3>2. r.deliverCursor = FirstOr0(T)
      BY <1>3, <1>4, <3>1 DEF Moved, CursorAt
    <3>3. \A t \in DOMAIN x.tracked : t >= s <=> t \in T
      <4>1. \A t \in DOMAIN x.tracked : t >= s => x.deliverCursor <= t
        BY <1>4 DEF Core, CursorAtPosition
      <4> QED BY <1>4, <3>1, <4>1
    <3>4. T \subseteq Nat /\ T \subseteq DOMAIN x.tracked /\ 0 \notin T
      BY <1>4
    <3> HIDE DEF T
    <3>5. T = {} => r.deliverCursor = 0
      BY <3>2, <3>4, FirstOr0Is
    <3>6. T # {} => r.deliverCursor \in T /\ \A t \in T : r.deliverCursor <= t
      BY Zenon, <3>2, <3>4, FirstOr0Is
    <3> QED BY Zenon, <1>5, <2>1, <3>3, <3>4, <3>5, <3>6 DEF CursorAtPosition
  <2> QED BY <2>2, <2>3
<1>9. Core(r, lg)
  <2>1. FlagsType(r) /\ BytesType(r)
    BY <1>1, <1>3 DEF Moved, BufferType, FlagsType, BytesType
  <2>2. NumbersType(r)
    BY <1>1, <1>3, <1>5 DEF Moved, BufferType, NumbersType
  <2>3. SequencesType(r)
    BY <1>1, <1>3 DEF Moved, BufferType, SequencesType
  <2>4. TrackingType(r)
    BY <1>1, <1>3, <1>5, <1>8 DEF Moved, BufferType, TrackingType
  <2>5. LogType(r, lg) /\ Window(r)
    BY <1>3 DEF Moved, Core, LogType, Window
  <2>6. Marks(r) /\ Counts(r, lg) /\ Limits(r, lg)
    BY <1>3, <1>5 DEF Moved, Core, Marks, Counts, Limits
  <2> QED BY SMTT(30), <1>3, <1>8, <2>1, <2>2, <2>3, <2>4, <2>5, <2>6
          DEF Moved, Core, BufferType
<1>10. FreshAhead(r, lg)
  BY <1>3, <1>4, <1>5 DEF Moved, FreshAhead
<1> QED BY <1>3, <1>5, <1>9, <1>10

\* The history after frame s was handed out.
HandedOut(lg, s) == [lg EXCEPT ![s].sent = IF lg[s].max = 0 THEN 1 ELSE @ + 1]

\* HandedOut changes the count of s and of no other number.
LEMMA HandedOutIs ==
  ASSUME NEW lg \in Seq([max : Nat, sent : Nat]), NEW s \in 1 .. Len(lg)
  PROVE  /\ HandedOut(lg, s) \in Seq([max : Nat, sent : Nat])
         /\ Len(HandedOut(lg, s)) = Len(lg) /\ DOMAIN HandedOut(lg, s) = DOMAIN lg
         /\ \A t \in DOMAIN lg : HandedOut(lg, s)[t].max = lg[t].max
         /\ \A t \in DOMAIN lg \ {s} : HandedOut(lg, s)[t].sent = lg[t].sent
         /\ lg[s].max # 0 => HandedOut(lg, s)[s].sent = lg[s].sent + 1
<1>1. /\ lg \in [1 .. Len(lg) -> [max : Nat, sent : Nat]]
      /\ DOMAIN lg = 1 .. Len(lg) /\ Len(lg) \in Nat
  BY Zenon, LenProperties
<1>2. HandedOut(lg, s) \in [1 .. Len(lg) -> [max : Nat, sent : Nat]]
  BY <1>1 DEF HandedOut
<1>3. /\ HandedOut(lg, s) \in Seq([max : Nat, sent : Nat])
      /\ Len(HandedOut(lg, s)) = Len(lg)
  BY Zenon, <1>1, <1>2, SeqOfFunction
<1> QED BY <1>1, <1>2, <1>3 DEF HandedOut

\* Handing out the frame at the delivery position keeps the invariant, and
\* counts one more transmission of a limited frame.
LEMMA HandOffKeeps ==
  ASSUME NEW x, NEW lg, Core(x, lg), FreshAhead(x, lg), Tracked(x), LiveHead(x),
         NEW s \in Live(x), Position(x) = s,
         x.isReadyToDeliver = TRUE,
         NEW r, r = HandOff(x, s),
         NEW l2, l2 = HandedOut(lg, s)
  PROVE  Sound(r, l2) /\ Tracked(r)
<1>1. BufferType(x) /\ IsBuffer(x)
  BY DEF Core, BufferType
<1>2. IsBuffer(r)
  BY ZenonT(40), <1>1 DEF HandOff, IsBuffer, BufferFields, NewAckBuffer
<1>3. /\ r.isRunning = x.isRunning /\ r.isClosed = x.isClosed
      /\ r.buff = x.buff /\ r.backing = x.backing
      /\ r.firstSeqNum = x.firstSeqNum /\ r.nextSeqNum = x.nextSeqNum
      /\ r.ackEvery = x.ackEvery /\ r.currentCapacity = x.currentCapacity
      /\ r.isAvailable = x.isAvailable
      /\ r.retired = x.retired /\ r.releasedRetired = x.releasedRetired
      /\ r.receipts = x.receipts
      /\ r.bytes = x.bytes /\ r.lastFlaggedSeq = x.lastFlaggedSeq
      /\ r.bytesSinceFlag = x.bytesSinceFlag
      /\ r.nextIndexToDeliver = x.nextIndexToDeliver + 1
  BY <1>1 DEF HandOff, IsBuffer, BufferFields, NewAckBuffer
<1>4. /\ r.tracked = CountSend(x, s)
      /\ r.deliverCursor = IF x.deliverCursor = s
                           THEN FirstOr0({t \in DOMAIN x.tracked : t > s})
                           ELSE x.deliverCursor
      /\ r.isReadyToDeliver = IF x.nextIndexToDeliver + 1 >= Len(x.buff) THEN FALSE
                              ELSE TRUE
  BY Zenon, <1>1 DEF HandOff, IsBuffer, BufferFields, NewAckBuffer
<1>5. /\ x.firstSeqNum \in Nat \ {0} /\ Len(x.buff) \in Nat
      /\ x.nextSeqNum = x.firstSeqNum + Len(x.buff)
      /\ x.nextIndexToDeliver \in Nat /\ s = x.firstSeqNum + x.nextIndexToDeliver
      /\ DOMAIN x.tracked \subseteq Nat /\ x.deliverCursor \in Nat
      /\ DOMAIN x.tracked \subseteq Held(x) /\ Held(x) \subseteq DOMAIN x.receipts
      /\ DOMAIN x.receipts = 1 .. x.nextSeqNum - 1
  BY <1>1, TypeFacts
<1>6. s \in Held(x) /\ s \notin x.retired /\ s \in Nat \ {0} /\ s < x.nextSeqNum
  BY <1>5 DEF Live, Held
<1>7. Held(r) = Held(x) /\ Live(r) = Live(x) /\ Position(r) = s + 1
  BY <1>3, <1>5 DEF Held, Live, Position
<1>8. r.nextIndexToDeliver \in 0 .. Len(x.buff)
  BY SMTT(30), <1>3, <1>5, <1>6
<1>9. /\ DOMAIN r.tracked = DOMAIN x.tracked
      /\ r.tracked \in [DOMAIN r.tracked -> [max : Nat, sends : Nat]]
      /\ \A t \in DOMAIN x.tracked : r.tracked[t].max = x.tracked[t].max
      /\ \A t \in DOMAIN x.tracked \ {s} : r.tracked[t].sends = x.tracked[t].sends
      /\ x.deliverCursor = s /\ s \in DOMAIN x.tracked /\ x.tracked[s].max # 0
           => r.tracked[s].sends = x.tracked[s].sends + 1
  <2>1. x.tracked \in [DOMAIN x.tracked -> [max : Nat, sends : Nat]]
    BY <1>1 DEF BufferType, TrackingType
  <2>2. CASE x.deliverCursor = s /\ x.tracked[s].max # 0
    <3>1. s \in DOMAIN x.tracked
      BY <1>1, <1>6, <2>2 DEF BufferType, TrackingType
    <3>2. r.tracked = [x.tracked EXCEPT ![s].sends = @ + 1]
      BY <1>4, <2>2 DEF CountSend
    <3> QED BY <2>1, <3>1, <3>2
  <2>3. CASE ~(x.deliverCursor = s /\ x.tracked[s].max # 0)
    BY <1>4, <2>1, <2>3 DEF CountSend
  <2> QED BY <2>2, <2>3
<1>10. s \in DOMAIN x.tracked => x.deliverCursor = s
  <2>1. ASSUME s \in DOMAIN x.tracked
        PROVE  /\ x.deliverCursor # 0 /\ x.deliverCursor <= s
               /\ x.deliverCursor >= s
    BY <2>1, <1>5 DEF Core, CursorAtPosition
  <2> QED BY <1>5, <1>6, <2>1
<1>11. CursorAtPosition(r) /\ r.deliverCursor \in DOMAIN r.tracked \cup {0}
  <2> DEFINE T == {t \in DOMAIN x.tracked : t > s}
  <2>1. CASE x.deliverCursor = s
    <3>1. r.deliverCursor = FirstOr0(T) /\ T \subseteq Nat /\ 0 \notin T
      BY <1>4, <1>5, <1>6, <2>1
    <3>2. \A t \in DOMAIN x.tracked : t >= s + 1 <=> t \in T
      BY SMTT(30), <1>5, <1>6
    <3>3. T \subseteq DOMAIN x.tracked
      OBVIOUS
    <3> HIDE DEF T
    <3>4. T = {} => r.deliverCursor = 0
      BY <3>1, FirstOr0Is
    <3>5. T # {} => r.deliverCursor \in T /\ \A t \in T : r.deliverCursor <= t
      BY Zenon, <3>1, FirstOr0Is
    <3> QED BY ZenonT(40), <1>7, <1>9, <3>1, <3>2, <3>3, <3>4, <3>5 DEF CursorAtPosition
  <2>2. CASE x.deliverCursor # s
    <3>1. r.deliverCursor = x.deliverCursor /\ s \notin DOMAIN x.tracked
      BY SMTT(30), <1>4, <1>10, <2>2
    <3>2. x.deliverCursor # 0 => x.deliverCursor >= s
      BY DEF Core, CursorAtPosition
    <3>3. x.deliverCursor # 0 => x.deliverCursor >= s + 1
      BY SMTT(30), <1>5, <1>6, <2>2, <3>2
    <3>4. \A t \in DOMAIN x.tracked : t >= s + 1 =>
            x.deliverCursor # 0 /\ x.deliverCursor <= t
      BY <1>5, <1>6 DEF Core, CursorAtPosition
    <3>5. x.deliverCursor \in DOMAIN x.tracked \cup {0}
      BY <1>1 DEF BufferType, TrackingType
    <3> QED BY SMTT(30), <1>7, <1>9, <3>1, <3>3, <3>4, <3>5 DEF CursorAtPosition
  <2> QED BY <2>1, <2>2
<1>12. BufferType(r)
  <2>1. FlagsType(r) /\ BytesType(r)
    BY <1>1, <1>3, <1>4 DEF BufferType, FlagsType, BytesType
  <2>2. NumbersType(r)
    BY <1>1, <1>3, <1>8 DEF BufferType, NumbersType
  <2>3. SequencesType(r)
    BY SMTT(30), <1>1, <1>3 DEF BufferType, SequencesType
  <2>4. TrackingType(r)
    BY <1>1, <1>3, <1>7, <1>9, <1>11 DEF BufferType, TrackingType
  <2> QED BY SMTT(30), <1>2, <2>1, <2>2, <2>3, <2>4 DEF BufferType
<1>13. /\ LogType(r, l2) /\ DOMAIN l2 = DOMAIN lg
       /\ \A t \in DOMAIN lg : l2[t].max = lg[t].max
       /\ \A t \in DOMAIN lg \ {s} : l2[t].sent = lg[t].sent
       /\ lg[s].max # 0 => l2[s].sent = lg[s].sent + 1
  <2>1. /\ lg \in Seq([max : Nat, sent : Nat]) /\ Len(lg) = x.nextSeqNum - 1
        /\ x.nextSeqNum - 1 \in Nat /\ s \in 1 .. x.nextSeqNum - 1
    BY <1>5, <1>6 DEF Core, LogType
  <2>2. s \in 1 .. Len(lg)
    BY <2>1
  <2> QED BY ZenonT(40), <1>3, <2>1, <2>2, HandedOutIs DEF LogType
<1>14. DOMAIN lg = DOMAIN x.receipts /\ DOMAIN x.tracked \subseteq DOMAIN lg
       /\ \A t \in DOMAIN lg : lg[t].max \in Nat /\ lg[t].sent \in Nat
  BY LogFacts
<1>15. lg[s].max # 0 => s \in DOMAIN x.tracked /\ lg[s].sent < lg[s].max
  <2>1. lg[s].max # 0 => x.receipts[s] # "none"
    BY <1>5, <1>6, <1>14 DEF Core, Limits
  <2>2. lg[s].max # 0 => s \in DOMAIN x.tracked
    BY <1>6, <2>1 DEF Tracked
  <2>3. s >= Position(x) /\ s \notin x.retired
    BY <1>5, <1>6
  <2> QED BY <2>2, <2>3 DEF FreshAhead
<1>16. Counts(r, l2)
  <2>1. SUFFICES ASSUME NEW t \in DOMAIN x.tracked
                 PROVE  /\ x.receipts[t] # "none"
                        /\ r.tracked[t].max = l2[t].max
                        /\ l2[t].max # 0 => r.tracked[t].sends = l2[t].sent
    BY <1>3, <1>9 DEF Counts
  <2>2. /\ x.receipts[t] # "none" /\ x.tracked[t].max = lg[t].max
        /\ lg[t].max # 0 => x.tracked[t].sends = lg[t].sent
    BY DEF Core, Counts
  <2>3. CASE t = s
    BY SMTT(30), <1>9, <1>10, <1>13, <1>14, <2>2, <2>3
  <2>4. CASE t # s
    BY SMTT(30), <1>9, <1>13, <1>14, <2>2, <2>4
  <2> QED BY <2>3, <2>4
<1>17. Limits(r, l2)
  <2>1. SUFFICES ASSUME NEW t \in DOMAIN lg
                 PROVE  /\ l2[t].max # 0 => x.receipts[t] # "none" /\ l2[t].sent <= l2[t].max
                        /\ x.receipts[t] = "retired" => l2[t].max # 0 /\ l2[t].sent = l2[t].max
    BY <1>3, <1>13 DEF Limits
  <2>2. /\ lg[t].max # 0 => x.receipts[t] # "none" /\ lg[t].sent <= lg[t].max
        /\ x.receipts[t] = "retired" => lg[t].max # 0 /\ lg[t].sent = lg[t].max
    BY DEF Core, Limits
  <2>3. x.receipts[s] # "retired"
    BY <1>5, <1>6 DEF Core, Marks
  <2>4. CASE t = s
    BY SMTT(30), <1>13, <1>14, <1>15, <2>2, <2>3, <2>4
  <2>5. CASE t # s
    BY SMTT(30), <1>13, <2>2, <2>5
  <2> QED BY <2>4, <2>5
<1>18. Window(r) /\ Marks(r)
  BY <1>3, <1>7 DEF Core, Window, Marks
<1>19. Core(r, l2)
  BY SMTT(30), <1>11, <1>12, <1>13, <1>16, <1>17, <1>18 DEF Core
<1>20. FreshAhead(r, l2)
  <2>1. SUFFICES ASSUME NEW t \in DOMAIN x.tracked \ x.retired, t >= s + 1, l2[t].max # 0
                 PROVE  l2[t].sent < l2[t].max
    BY <1>3, <1>7, <1>9 DEF FreshAhead
  <2>2. t >= s /\ t # s /\ t \in DOMAIN lg
    BY <1>5, <1>6, <1>14, <2>1
  <2>3. lg[t].max # 0 => lg[t].sent < lg[t].max
    BY <2>2 DEF FreshAhead
  <2> QED BY SMTT(30), <1>13, <2>1, <2>2, <2>3
<1>21. Ready(r) /\ LiveHead(r) /\ Tracked(r)
  <2>1. Ready(r)
    BY <1>3, <1>4, <1>5 DEF Ready
  <2>2. LiveHead(r) /\ Tracked(r)
    BY <1>3, <1>7, <1>9 DEF LiveHead, Tracked
  <2> QED BY SMTT(30), <2>1, <2>2
<1> QED BY <1>19, <1>20, <1>21 DEF Sound

\* GetNextToDeliver keeps the invariant; what it hands out is a held frame.
LEMMA DeliverKeeps ==
  ASSUME NEW x, NEW lg, Sound(x, lg), Tracked(x), x.isReadyToDeliver = TRUE,
         NEW s, s = NextToDeliver(x), NEW r, r = GetNextToDeliver(x)
  PROVE  /\ s = 0 => Sound(r, lg) /\ Tracked(r)
         /\ s # 0 => /\ Sound(r, HandedOut(lg, s)) /\ Tracked(r)
                     /\ s \in Held(x)
<1>1. Core(x, lg) /\ FreshAhead(x, lg) /\ LiveHead(x) /\ BufferType(x)
  BY DEF Sound, Core
<1>2. /\ x.firstSeqNum \in Nat \ {0} /\ Len(x.buff) \in Nat
      /\ x.nextSeqNum = x.firstSeqNum + Len(x.buff)
      /\ Position(x) \in Nat \ {0} /\ Position(x) <= x.nextSeqNum
      /\ x.firstSeqNum <= Position(x)
  BY <1>1, TypeFacts
<1>3. CASE s = 0
  <2> DEFINE q == PassTo(x, x.nextSeqNum)
  <2>1. r = [q EXCEPT !.isReadyToDeliver = FALSE]
    BY <1>3 DEF GetNextToDeliver
  <2>2. x.nextSeqNum \in Position(x) .. x.nextSeqNum
    BY <1>2
  <2>3. Moved(x, x.nextSeqNum, q) /\ Core(q, lg) /\ FreshAhead(q, lg)
    BY <1>1, <2>2, PassKeeps
  <2> HIDE DEF q
  <2>4. IsBuffer(q) /\ FlagsType(q) /\ BytesType(q) /\ q.releasedRetired \in Seq(Nat)
    BY <2>3 DEF Core, BufferType, SequencesType
  <2>5. IsBuffer(r)
    BY Zenon, <2>1, <2>4 DEF IsBuffer, BufferFields, NewAckBuffer
  <2>6. Agree(q, r) /\ r.isReadyToDeliver = FALSE
    BY ZenonT(40), <2>1, <2>4, <2>5 DEF Agree, IsBuffer, BufferFields, NewAckBuffer,
       FlagsType, BytesType
  <2>7. Tracked(q) /\ LiveHead(q)
    BY <1>1, <2>3 DEF Moved, Tracked, LiveHead, Held
  <2>8. Ready(r)
    <3>1. r.nextIndexToDeliver = Len(x.buff) /\ r.buff = x.buff
      BY <1>2, <2>3, <2>6 DEF Moved, Agree
    <3> QED BY <1>2, <2>6, <3>1 DEF Ready
  <2> QED BY <1>3, <2>3, <2>6, <2>7, <2>8, AgreeKeeps DEF Sound
<1>4. CASE s # 0
  <2> DEFINE q == PassTo(x, s)
  <2>1. r = HandOff(q, s)
    BY <1>4 DEF GetNextToDeliver
  <2>2. s \in Pending(x) \ x.retired
    <3>1. Deliverable(x) \subseteq Pending(x) \ x.retired /\ Pending(x) \subseteq Nat
      BY <1>2 DEF Deliverable, Pending
    <3>2. Deliverable(x) # {} /\ Deliverable(x) \subseteq Nat
      BY <1>4, <3>1, FirstOr0Is DEF NextToDeliver
    <3>3. s \in Deliverable(x)
      BY <3>2, FirstOr0Is DEF NextToDeliver
    <3> QED BY <3>1, <3>3
  <2>3. s \in Position(x) .. x.nextSeqNum /\ s \in Live(x) /\ s \in Held(x)
    BY <1>2, <2>2 DEF Pending, Live, Held
  <2>4. /\ Moved(x, s, q) /\ Core(q, lg) /\ FreshAhead(q, lg) /\ Position(q) = s
    BY SMTT(30), <1>1, <2>3, PassKeeps
  <2> HIDE DEF q
  <2>5. Tracked(q) /\ LiveHead(q) /\ Live(q) = Live(x) /\ q.isReadyToDeliver = TRUE
    BY <1>1, <2>4 DEF Moved, Tracked, LiveHead, Live, Held
  <2>6. s \in Live(q)
    BY <2>3, <2>5
  <2>7. Sound(r, HandedOut(lg, s)) /\ Tracked(r)
    BY Zenon, <2>1, <2>4, <2>5, <2>6, HandOffKeeps
  <2> QED BY <1>4, <2>3, <2>7
<1> QED BY <1>3, <1>4

-----------------------------------------------------------------------------
(* Window and lifetime. *)

\* UpdateCapacity keeps the invariant for every window, 0 included.
LEMMA CapacityKeeps ==
  ASSUME NEW x, NEW lg, Sound(x, lg), NEW cap \in Nat, NEW r, r = UpdateCapacity(x, cap)
  PROVE  Sound(r, lg) /\ (Tracked(x) => Tracked(r))
<1>1. CASE cap = x.currentCapacity
  BY <1>1 DEF UpdateCapacity
<1>2. CASE cap # x.currentCapacity
  <2>1. BufferType(x) /\ IsBuffer(x) /\ Core(x, lg)
    BY DEF Sound, Core, BufferType
  <2>2. r = [x EXCEPT
               !.backing = ShrunkBacking(cap, Len(x.buff), Larger(@, cap)),
               !.currentCapacity = cap,
               !.isAvailable = RoomInWindow(x, cap),
               !.ackEvery = AckEvery(cap)]
    BY <1>2 DEF UpdateCapacity
  <2>3. /\ IsBuffer(r)
        /\ r.isRunning = x.isRunning /\ r.isClosed = x.isClosed
        /\ r.buff = x.buff
        /\ r.firstSeqNum = x.firstSeqNum /\ r.nextSeqNum = x.nextSeqNum
        /\ r.nextIndexToDeliver = x.nextIndexToDeliver
        /\ r.isReadyToDeliver = x.isReadyToDeliver
        /\ r.retired = x.retired /\ r.releasedRetired = x.releasedRetired
        /\ r.tracked = x.tracked /\ r.deliverCursor = x.deliverCursor
        /\ r.receipts = x.receipts
        /\ r.bytes = x.bytes /\ r.lastFlaggedSeq = x.lastFlaggedSeq
        /\ r.bytesSinceFlag = x.bytesSinceFlag
        /\ r.backing = ShrunkBacking(cap, Len(x.buff), Larger(x.backing, cap))
        /\ r.currentCapacity = cap
        /\ r.isAvailable = RoomInWindow(x, cap)
        /\ r.ackEvery = AckEvery(cap)
    BY ZenonT(40), <2>1, <2>2 DEF IsBuffer, BufferFields, NewAckBuffer
  <2>4. Held(r) = Held(x) /\ Position(r) = Position(x) /\ Live(r) = Live(x)
    BY <2>3 DEF Held, Position, Live
  <2>5. Len(x.buff) \in Nat /\ x.backing \in Nat \ {0} /\ Len(x.buff) <= x.backing
    BY <2>1, TypeFacts DEF Core, Window, BufferType, NumbersType
  <2>6. /\ r.backing \in Nat \ {0} /\ cap <= r.backing /\ Len(x.buff) <= r.backing
    BY <2>3, <2>5 DEF ShrunkBacking, Larger, InitialCapacity
  <2>7. r.ackEvery \in Nat \ {0}
    BY <2>3 DEF AckEvery, Larger
  <2>8. BufferType(r)
    <3>1. r.isAvailable \in BOOLEAN
      BY <2>3 DEF RoomInWindow
    <3>2. FlagsType(r)
      BY <2>1, <2>3, <3>1 DEF BufferType, FlagsType
    <3>3. BytesType(r)
      BY <2>1, <2>3 DEF BufferType, BytesType
    <3>4. NumbersType(r)
      BY <2>1, <2>3, <2>6, <2>7 DEF BufferType, NumbersType
    <3>5. SequencesType(r)
      BY SMTT(30), <2>1, <2>3 DEF BufferType, SequencesType
    <3>6. TrackingType(r)
      BY <2>1, <2>3, <2>4 DEF BufferType, TrackingType
    <3> QED BY SMTT(30), <2>3, <3>2, <3>3, <3>4, <3>5, <3>6 DEF BufferType
  <2>9. Window(r)
    BY ZenonT(40), <2>3, <2>6 DEF Window, RoomInWindow
  <2>10. LogType(r, lg) /\ CursorAtPosition(r) /\ Marks(r)
    BY SMTT(30), <2>1, <2>3, <2>4 DEF Core, LogType, CursorAtPosition, Marks
  <2>11. Counts(r, lg) /\ Limits(r, lg)
    BY <2>1, <2>3 DEF Core, Counts, Limits
  <2>12. FreshAhead(r, lg) /\ LiveHead(r) /\ Ready(r) /\ (Tracked(x) => Tracked(r))
    BY <2>3, <2>4 DEF Sound, FreshAhead, LiveHead, Ready, Tracked
  <2> QED BY <2>8, <2>9, <2>10, <2>11, <2>12 DEF Sound, Core
<1> QED BY <1>1, <1>2

\* Sealing and closing change only flags and the byte charge.
LEMMA SealKeeps ==
  ASSUME NEW x, NEW lg, Sound(x, lg), NEW r, r = Seal(x) \/ r = CloseBuffer(x)
  PROVE  Sound(r, lg) /\ (Tracked(x) => Tracked(r))
<1>1. Core(x, lg) /\ IsBuffer(x) /\ FlagsType(x) /\ BytesType(x)
      /\ x.releasedRetired \in Seq(Nat)
  BY DEF Sound, Core, BufferType, SequencesType
<1>2. Agree(x, r) /\ r.isReadyToDeliver = x.isReadyToDeliver
  <2>1. CASE r = Seal(x)
    <3>1. IsBuffer(r)
      BY Zenon, <1>1, <2>1 DEF Seal, IsBuffer, BufferFields, NewAckBuffer
    <3> QED BY Zenon, <1>1, <2>1, <3>1 DEF Seal, Agree, IsBuffer, BufferFields,
              NewAckBuffer, FlagsType, BytesType
  <2>2. CASE r = CloseBuffer(x)
    <3>1. IsBuffer(r)
      BY ZenonT(40), <1>1, <2>2 DEF CloseBuffer, IsBuffer, BufferFields, NewAckBuffer
    <3> QED BY Zenon, <1>1, <2>2, <3>1 DEF CloseBuffer, Agree, IsBuffer, BufferFields,
              NewAckBuffer, FlagsType, BytesType
  <2> QED BY <2>1, <2>2
<1>3. Ready(r)
  BY <1>2 DEF Sound, Ready, Agree
<1> QED BY <1>2, <1>3, AgreeKeeps DEF Sound

\* Dropping the tracked entries after the workers joined keeps the invariant.
LEMMA ReleaseTrackingKeeps ==
  ASSUME NEW x, NEW lg, Sound(x, lg), NEW r, r = ReleaseReceiptTracking(x)
  PROVE  Sound(r, lg)
<1>1. BufferType(x) /\ IsBuffer(x) /\ Core(x, lg)
  BY DEF Sound, Core, BufferType
<1>2. /\ IsBuffer(r)
      /\ r.isRunning = x.isRunning /\ r.isClosed = x.isClosed
      /\ r.buff = x.buff /\ r.backing = x.backing
      /\ r.firstSeqNum = x.firstSeqNum /\ r.nextSeqNum = x.nextSeqNum
      /\ r.ackEvery = x.ackEvery /\ r.currentCapacity = x.currentCapacity
      /\ r.nextIndexToDeliver = x.nextIndexToDeliver
      /\ r.isAvailable = x.isAvailable /\ r.isReadyToDeliver = x.isReadyToDeliver
      /\ r.retired = x.retired /\ r.releasedRetired = x.releasedRetired
      /\ r.receipts = x.receipts
      /\ r.bytes = x.bytes /\ r.lastFlaggedSeq = x.lastFlaggedSeq
      /\ r.bytesSinceFlag = x.bytesSinceFlag
      /\ r.deliverCursor = 0 /\ r.tracked = [s \in {} |-> 0]
  BY ZenonT(40), <1>1 DEF ReleaseReceiptTracking, IsBuffer, BufferFields, NewAckBuffer
<1>3. Held(r) = Held(x) /\ Live(r) = Live(x) /\ DOMAIN r.tracked = {}
  BY <1>2 DEF Held, Live
<1>4. BufferType(r)
  <2>1. FlagsType(r) /\ BytesType(r) /\ NumbersType(r)
    BY <1>1, <1>2 DEF BufferType, FlagsType, BytesType, NumbersType
  <2>2. SequencesType(r)
    BY <1>1, <1>2 DEF BufferType, SequencesType
  <2>3. TrackingType(r)
    <3>1. r.tracked \in [DOMAIN r.tracked -> [max : Nat, sends : Nat]]
      BY SMTT(30), <1>2, <1>3
    <3> QED BY SMTT(30), <1>1, <1>2, <1>3, <3>1 DEF BufferType, TrackingType
  <2> QED BY SMTT(30), <1>2, <2>1, <2>2, <2>3 DEF BufferType
<1>5. LogType(r, lg) /\ Window(r) /\ Marks(r) /\ Limits(r, lg)
  BY SMTT(30), <1>1, <1>2, <1>3 DEF Core, LogType, Window, Marks, Limits
<1>6. CursorAtPosition(r) /\ Counts(r, lg) /\ FreshAhead(r, lg)
  BY SMTT(30), <1>2, <1>3 DEF CursorAtPosition, Counts, FreshAhead
<1>7. Ready(r) /\ LiveHead(r)
  BY <1>2 DEF Sound, Ready, LiveHead
<1> QED BY <1>4, <1>5, <1>6, <1>7 DEF Sound, Core

-----------------------------------------------------------------------------
(* Admission. *)

\* What Add is called with: only receipts carry a limit.
IsInput(m) == m.receipt \in BOOLEAN /\ m.max \in Nat /\ (~m.receipt => m.max = 0)

\* The history after m was admitted.
Logged(lg, m) == Append(lg, [max |-> m.max, sent |-> 0])

\* Admit keeps the invariant when the window has room.
LEMMA AdmitKeeps ==
  ASSUME NEW x, NEW lg, Sound(x, lg), x.isAvailable, NEW m, IsInput(m),
         NEW size \in Nat, NEW forced, NEW step
  PROVE  /\ Sound(Admit(x, m, size, forced, step), Logged(lg, m))
         /\ Tracked(x) => Tracked(Admit(x, m, size, forced, step))
<1> DEFINE r == Admit(x, m, size, forced, step)
           l2 == Append(lg, [max |-> m.max, sent |-> 0])
<1>0. m.receipt \in BOOLEAN /\ m.max \in Nat /\ (~m.receipt => m.max = 0)
  BY DEF IsInput
<1> DEFINE seq == x.nextSeqNum
           ack == WantsAck(x, m, size, forced, step)
           slot == [seq |-> seq, ackRequested |-> ack, size |-> size]
           cell == IF m.receipt THEN "retained" ELSE "none"
<1>1. BufferType(x) /\ IsBuffer(x) /\ Core(x, lg)
  BY DEF Sound, Core, BufferType
<1>2. IsBuffer(r)
  <2> DEFINE track == IF ~m.receipt THEN x.tracked
                      ELSE [s \in DOMAIN x.tracked \cup {seq} |->
                              IF s = seq THEN [max |-> m.max, sends |-> 0]
                              ELSE x.tracked[s]]
             flag == IF ack THEN seq ELSE x.lastFlaggedSeq
             since == IF ack THEN 0 ELSE x.bytesSinceFlag + size
             cells == Append(x.receipts, cell)
             slots == Append(x.buff, slot)
             room == Len(x.buff) + 1 < x.currentCapacity
  <2>1. r = [x EXCEPT !.nextSeqNum = seq + 1, !.lastFlaggedSeq = flag,
                      !.bytesSinceFlag = since, !.tracked = track,
                      !.deliverCursor = CursorAfterAdmit(x, m), !.receipts = cells,
                      !.buff = slots, !.bytes = @ + size, !.isAvailable = room,
                      !.isReadyToDeliver = TRUE]
    BY DEF Admit
  <2> HIDE DEF track, flag, since, cells, slots, room
  <2> HIDE DEF seq
  <2> QED BY Zenon, <1>1, <2>1 DEF IsBuffer, BufferFields, NewAckBuffer
<1>3. /\ r.isRunning = x.isRunning /\ r.isClosed = x.isClosed
      /\ r.backing = x.backing /\ r.firstSeqNum = x.firstSeqNum
      /\ r.ackEvery = x.ackEvery /\ r.currentCapacity = x.currentCapacity
      /\ r.nextIndexToDeliver = x.nextIndexToDeliver
      /\ r.retired = x.retired /\ r.releasedRetired = x.releasedRetired
      /\ r.nextSeqNum = seq + 1
      /\ r.isAvailable = (Len(x.buff) + 1 < x.currentCapacity)
      /\ r.isReadyToDeliver = TRUE
      /\ r.deliverCursor = CursorAfterAdmit(x, m)
  BY <1>1 DEF Admit, IsBuffer, BufferFields, NewAckBuffer
<1>4. /\ r.lastFlaggedSeq = IF ack THEN seq ELSE x.lastFlaggedSeq
      /\ r.bytesSinceFlag = IF ack THEN 0 ELSE x.bytesSinceFlag + size
      /\ r.bytes = x.bytes + size
      /\ r.receipts = Append(x.receipts, cell)
      /\ r.buff = Append(x.buff, slot)
  BY <1>1 DEF Admit, IsBuffer, BufferFields, NewAckBuffer
<1>5. r.tracked = IF ~m.receipt THEN x.tracked
                  ELSE [s \in DOMAIN x.tracked \cup {seq} |->
                          IF s = seq THEN [max |-> m.max, sends |-> 0]
                          ELSE x.tracked[s]]
  BY <1>1 DEF Admit, IsBuffer, BufferFields, NewAckBuffer
<1>6. /\ x.firstSeqNum \in Nat \ {0} /\ Len(x.buff) \in Nat /\ seq \in Nat \ {0}
      /\ seq = x.firstSeqNum + Len(x.buff)
      /\ x.nextIndexToDeliver \in Nat /\ x.nextIndexToDeliver <= Len(x.buff)
      /\ Position(x) \in Nat \ {0} /\ Position(x) <= seq
      /\ DOMAIN x.receipts = 1 .. seq - 1
      /\ DOMAIN x.tracked \subseteq Held(x) /\ x.retired \subseteq Held(x)
      /\ DOMAIN x.tracked \subseteq Nat /\ x.deliverCursor \in Nat
  BY <1>1, TypeFacts
<1> HIDE DEF r, l2
<1>7. ack \in BOOLEAN
  BY DEF WantsAck
<1> HIDE DEF ack
<1>8. r.buff \in Seq(SlotType) /\ Len(r.buff) = Len(x.buff) + 1
  <2>1. x.buff \in Seq(SlotType)
    BY <1>1 DEF BufferType, SequencesType
  <2>2. slot \in SlotType
    BY <1>6, <1>7 DEF SlotType
  <2> HIDE DEF slot
  <2> QED BY <1>4, <2>1, <2>2, AppendProperties
<1>9. /\ r.receipts \in Seq(FrameStates) /\ Len(r.receipts) = seq
      /\ DOMAIN r.receipts = 1 .. seq
      /\ \A s \in 1 .. seq - 1 : r.receipts[s] = x.receipts[s]
      /\ r.receipts[seq] = cell
  <2>1. x.receipts \in Seq(FrameStates) /\ Len(x.receipts) = seq - 1
    BY <1>1 DEF BufferType, SequencesType
  <2>2. cell \in FrameStates
    BY DEF FrameStates
  <2> HIDE DEF cell
  <2>3. /\ r.receipts \in Seq(FrameStates) /\ Len(r.receipts) = Len(x.receipts) + 1
        /\ \A s \in 1 .. Len(x.receipts) : r.receipts[s] = x.receipts[s]
        /\ r.receipts[Len(x.receipts) + 1] = cell
    BY <1>4, <2>1, <2>2, AppendProperties
  <2>4. Len(x.receipts) + 1 = seq
    BY <1>6, <2>1
  <2> QED BY <2>1, <2>3, <2>4, LenProperties
<1>10. /\ l2 \in Seq([max : Nat, sent : Nat]) /\ Len(l2) = seq
       /\ DOMAIN lg = 1 .. seq - 1 /\ DOMAIN l2 = 1 .. seq
       /\ \A s \in 1 .. seq - 1 : l2[s] = lg[s]
       /\ l2[seq] = [max |-> m.max, sent |-> 0]
  <2>1. lg \in Seq([max : Nat, sent : Nat]) /\ Len(lg) = seq - 1
    BY <1>1 DEF Core, LogType
  <2>2. [max |-> m.max, sent |-> 0] \in [max : Nat, sent : Nat]
    BY <1>0
  <2>3. /\ l2 \in Seq([max : Nat, sent : Nat]) /\ Len(l2) = Len(lg) + 1
        /\ \A s \in 1 .. Len(lg) : l2[s] = lg[s]
        /\ l2[Len(lg) + 1] = [max |-> m.max, sent |-> 0]
    BY <2>1, <2>2, AppendProperties DEF l2
  <2>4. Len(lg) + 1 = seq
    BY <1>6, <2>1
  <2> QED BY SMTT(30), <2>1, <2>3, <2>4, LenProperties
<1>11. /\ Held(r) = Held(x) \cup {seq} /\ seq \notin Held(x)
       /\ Held(x) \subseteq 1 .. seq - 1
       /\ Live(r) = Live(x) \cup {seq} /\ Position(r) = Position(x)
  <2>1. Held(r) = Held(x) \cup {seq} /\ seq \notin Held(x) /\ Held(x) \subseteq 1 .. seq - 1
    BY SMTT(30), <1>3, <1>6 DEF Held
  <2> QED BY SMTT(30), <1>3, <1>6, <2>1 DEF Live, Position
<1>12. /\ DOMAIN r.tracked = IF m.receipt THEN DOMAIN x.tracked \cup {seq}
                             ELSE DOMAIN x.tracked
       /\ \A s \in DOMAIN x.tracked : r.tracked[s] = x.tracked[s]
       /\ m.receipt => r.tracked[seq] = [max |-> m.max, sends |-> 0]
       /\ seq \notin DOMAIN x.tracked
  BY SMTT(30), <1>5, <1>6, <1>11
<1>13. CursorAtPosition(r) /\ r.deliverCursor \in DOMAIN r.tracked \cup {0}
  <2>1. /\ x.deliverCursor # 0 => x.deliverCursor >= Position(x)
        /\ \A s \in DOMAIN x.tracked : s >= Position(x) =>
             x.deliverCursor # 0 /\ x.deliverCursor <= s
        /\ x.deliverCursor \in DOMAIN x.tracked \cup {0}
    BY <1>1 DEF Core, CursorAtPosition, BufferType, TrackingType
  <2>2. x.deliverCursor <= seq
    BY SMTT(30), <1>6, <1>11, <2>1
  <2>3. CASE m.receipt /\ x.deliverCursor = 0
    <3>1. r.deliverCursor = seq
      BY SMTT(30), <1>3, <2>3 DEF CursorAfterAdmit
    <3> QED BY SMTT(30), <1>6, <1>11, <1>12, <2>1, <2>3, <3>1 DEF CursorAtPosition
  <2>4. CASE ~(m.receipt /\ x.deliverCursor = 0)
    <3>1. r.deliverCursor = x.deliverCursor
      BY <1>3, <2>4 DEF CursorAfterAdmit
    <3> QED BY SMTT(30), <1>6, <1>11, <1>12, <2>1, <2>2, <2>4, <3>1 DEF CursorAtPosition
  <2> QED BY SMTT(30), <2>3, <2>4
<1>14. BufferType(r)
  <2>1. FlagsType(r)
    <3>1. r.isAvailable \in BOOLEAN
      BY <1>3
    <3> QED BY Zenon, <1>1, <1>3, <3>1 DEF BufferType, FlagsType
  <2>2. BytesType(r)
    <3>1. BytesType(x)
      BY <1>1 DEF BufferType
    <3>2. r.bytes \in Nat
      BY SMTT(30), <1>4, <3>1 DEF BytesType
    <3>3. r.lastFlaggedSeq \in Nat
      BY <1>4, <1>6, <3>1 DEF BytesType
    <3>4. r.bytesSinceFlag \in Nat
      BY <1>4, <3>1 DEF BytesType
    <3> QED BY <3>2, <3>3, <3>4 DEF BytesType
  <2>3. NumbersType(r)
    <3>1. x.backing \in Nat \ {0} /\ x.currentCapacity \in Nat /\ x.ackEvery \in Nat \ {0}
      BY <1>1 DEF BufferType, NumbersType
    <3>2. r.firstSeqNum \in Nat \ {0} /\ r.nextSeqNum = r.firstSeqNum + Len(r.buff)
      <4>1. r.nextSeqNum = x.firstSeqNum + Len(x.buff) + 1
        BY <1>3, <1>6
      <4>2. Len(r.buff) = Len(x.buff) + 1 /\ r.firstSeqNum = x.firstSeqNum
        BY <1>3, <1>8
      <4>3. x.firstSeqNum \in Nat \ {0} /\ Len(x.buff) \in Nat
        BY <1>6
      <4> QED BY SMTT(30), <4>1, <4>2, <4>3
    <3>3. r.nextIndexToDeliver \in 0 .. Len(r.buff)
      BY SMTT(30), <1>3, <1>6, <1>8
    <3> QED BY <1>3, <3>1, <3>2, <3>3 DEF NumbersType
  <2>4. SequencesType(r)
    <3>1. r.nextSeqNum - 1 = seq
      BY <1>3, <1>6
    <3> QED BY SMTT(30), <1>1, <1>3, <1>8, <1>9, <3>1 DEF BufferType, SequencesType
  <2>5. TrackingType(r)
    <3>1. x.tracked \in [DOMAIN x.tracked -> [max : Nat, sends : Nat]]
      BY <1>1 DEF BufferType, TrackingType
    <3>2. r.tracked \in [DOMAIN r.tracked -> [max : Nat, sends : Nat]]
      BY SMTT(30), <1>0, <1>5, <3>1
    <3>3. r.retired \subseteq Held(r) /\ DOMAIN r.tracked \subseteq Held(r)
      BY SMTT(30), <1>3, <1>6, <1>11, <1>12
    <3> QED BY <1>13, <3>2, <3>3 DEF TrackingType
  <2> QED BY SMTT(30), <1>2, <2>1, <2>2, <2>3, <2>4, <2>5 DEF BufferType
<1>15. LogType(r, l2)
  BY <1>3, <1>6, <1>10 DEF LogType
<1>16. Window(r)
  <2>1. /\ Len(x.buff) < x.currentCapacity /\ x.currentCapacity <= x.backing
        /\ x.currentCapacity \in Nat /\ x.backing \in Nat
    BY <1>1 DEF Core, Window, BufferType, NumbersType
  <2>2. Len(r.buff) <= r.backing /\ r.currentCapacity <= r.backing
    BY SMTT(30), <1>3, <1>6, <1>8, <2>1
  <2> QED BY Zenon, <1>3, <1>8, <2>2 DEF Window
<1>17. Marks(r)
  <2>1. Marks(x)
    BY <1>1 DEF Core
  <2>2. SUFFICES ASSUME NEW s \in 1 .. seq
                 PROVE  /\ s \in r.retired => r.receipts[s] = "retired"
                        /\ r.receipts[s] = "retired" /\ s \in Held(r) => s \in r.retired
                        /\ r.receipts[s] = "retained" => s \in Live(r)
                        /\ r.receipts[s] = "acknowledged" => s \notin Held(r)
    BY <1>9 DEF Marks
  <2>3. CASE s = seq
    BY ZenonT(40), <1>3, <1>6, <1>9, <1>11, <2>3
  <2>4. CASE s # seq
    <3>1. s \in 1 .. seq - 1
      BY SMTT(30), <1>6, <2>4
    <3>2. /\ r.receipts[s] = x.receipts[s] /\ r.retired = x.retired
          /\ s \in Held(r) <=> s \in Held(x)
          /\ s \in Live(r) <=> s \in Live(x)
      BY SMTT(30), <1>3, <1>9, <1>11, <2>4, <3>1
    <3>3. s \in DOMAIN x.receipts
      BY <1>6, <3>1
    <3> QED BY <2>1, <3>2, <3>3 DEF Marks
  <2> QED BY <2>3, <2>4
<1>18. Counts(r, l2)
  <2>1. SUFFICES ASSUME NEW s \in DOMAIN r.tracked
                 PROVE  /\ r.receipts[s] # "none"
                        /\ r.tracked[s].max = l2[s].max
                        /\ l2[s].max # 0 => r.tracked[s].sends = l2[s].sent
    BY DEF Counts
  <2>2. CASE s = seq
    BY SMTT(30), <1>9, <1>10, <1>12, <2>2
  <2>3. CASE s # seq
    <3>1. s \in DOMAIN x.tracked /\ s \in 1 .. seq - 1
      BY <1>6, <1>11, <1>12, <2>3
    <3>2. /\ r.receipts[s] = x.receipts[s] /\ l2[s] = lg[s]
          /\ r.tracked[s] = x.tracked[s]
      BY ZenonT(40), <1>9, <1>10, <1>12, <3>1
    <3> QED BY <1>1, <3>1, <3>2 DEF Core, Counts
  <2> QED BY <2>2, <2>3
<1>19. Limits(r, l2)
  <2>1. SUFFICES ASSUME NEW s \in 1 .. seq
                 PROVE  /\ l2[s].max # 0 => r.receipts[s] # "none" /\ l2[s].sent <= l2[s].max
                        /\ r.receipts[s] = "retired" => l2[s].max # 0 /\ l2[s].sent = l2[s].max
    BY <1>10 DEF Limits
  <2>2. CASE s = seq
    BY SMTT(30), <1>0, <1>9, <1>10, <2>2
  <2>3. CASE s # seq
    <3>1. s \in 1 .. seq - 1
      BY <1>6, <2>3
    <3>2. r.receipts[s] = x.receipts[s] /\ l2[s] = lg[s] /\ s \in DOMAIN lg
      BY SMTT(30), <1>9, <1>10, <3>1
    <3> QED BY SMTT(30), <1>1, <3>2 DEF Core, Limits
  <2> QED BY SMTT(30), <2>2, <2>3
<1>20. FreshAhead(r, l2)
  <2>1. SUFFICES ASSUME NEW s \in DOMAIN r.tracked \ r.retired,
                        s >= Position(r), l2[s].max # 0
                 PROVE  l2[s].sent < l2[s].max
    BY SMTT(30) DEF FreshAhead
  <2>2. CASE s = seq
    BY SMTT(30), <1>0, <1>10, <2>1, <2>2
  <2>3. CASE s # seq
    <3>1. s \in DOMAIN x.tracked \ x.retired /\ s \in 1 .. seq - 1
      BY ZenonT(40), <1>3, <1>6, <1>11, <1>12, <2>3
    <3> QED BY <1>10, <1>11, <2>1, <3>1 DEF Sound, FreshAhead
  <2> QED BY <2>2, <2>3
<1>21. Ready(r)
  BY <1>3, <1>6, <1>8 DEF Ready
<1>22. LiveHead(r)
  <2>1. CASE Len(x.buff) = 0
    BY SMTT(30), <1>3, <1>6, <2>1 DEF LiveHead, Held
  <2>2. CASE Len(x.buff) # 0
    BY <1>3, <1>6, <2>2 DEF Sound, LiveHead
  <2> QED BY SMTT(30), <2>1, <2>2
<1>23. Tracked(x) => Tracked(r)
  <2>1. SUFFICES ASSUME Tracked(x), NEW s \in Held(r), r.receipts[s] # "none"
                 PROVE  s \in DOMAIN r.tracked
    BY DEF Tracked
  <2>2. CASE s = seq
    BY SMTT(30), <1>9, <1>12, <2>1, <2>2
  <2>3. CASE s # seq
    <3>1. s \in Held(x) /\ s \in 1 .. seq - 1
      BY <1>11, <2>3
    <3> QED BY SMTT(30), <1>9, <1>12, <2>1, <3>1 DEF Tracked
  <2> QED BY <2>2, <2>3
<1> QED BY ZenonT(40), <1>13, <1>14, <1>15, <1>16, <1>17, <1>18, <1>19, <1>20, <1>21, <1>22, <1>23
        DEF Sound, Core, Logged, r, l2
-----------------------------------------------------------------------------
(* A new buffer. *)

\* A new buffer is sound.
LEMMA NewIsSound == Sound(NewAckBuffer, <<>>) /\ Tracked(NewAckBuffer)
<1> DEFINE x == NewAckBuffer
<1>1. /\ x.isRunning = TRUE /\ x.isClosed = FALSE
      /\ x.buff = <<>> /\ x.backing = 1
      /\ x.firstSeqNum = 1 /\ x.nextSeqNum = 1
      /\ x.ackEvery = 1 /\ x.currentCapacity = 1
      /\ x.nextIndexToDeliver = 0 /\ x.isAvailable = TRUE /\ x.isReadyToDeliver = FALSE
      /\ x.retired = {} /\ x.releasedRetired = <<>>
      /\ x.tracked = [s \in {} |-> 0] /\ x.deliverCursor = 0 /\ x.receipts = <<>>
      /\ x.bytes = 0 /\ x.lastFlaggedSeq = 0 /\ x.bytesSinceFlag = 0
  BY DEF NewAckBuffer, InitialCapacity
<1>2. IsBuffer(x)
  BY Zenon DEF IsBuffer, BufferFields, NewAckBuffer
<1> HIDE DEF x
<1>3. /\ <<>> \in Seq(SlotType) /\ <<>> \in Seq(Nat) /\ <<>> \in Seq(FrameStates)
      /\ <<>> \in Seq([max : Nat, sent : Nat])
      /\ Len(<<>>) = 0 /\ DOMAIN <<>> = {}
  BY EmptySeq, LenProperties
<1>4. Held(x) = {} /\ DOMAIN x.tracked = {}
  BY <1>1 DEF Held
<1>5. BufferType(x)
  <2>1. FlagsType(x)
    BY <1>1, Zenon DEF FlagsType
  <2>6. BytesType(x)
    BY <1>1 DEF BytesType
  <2>5. NumbersType(x)
    <3>1. Len(x.buff) = 0
      BY <1>1, <1>3
    <3> QED BY <1>1, <3>1 DEF NumbersType
  <2>2. SequencesType(x)
    BY <1>1, <1>3 DEF SequencesType
  <2>3. x.tracked \in [DOMAIN x.tracked -> [max : Nat, sends : Nat]]
    BY <1>1
  <2>4. TrackingType(x)
    BY <1>1, <1>4, <2>3 DEF TrackingType
  <2> QED BY SMTT(30), <1>2, <2>1, <2>2, <2>4, <2>5, <2>6 DEF BufferType
<1>6. LogType(x, <<>>) /\ Window(x) /\ CursorAtPosition(x)
  BY SMTT(30), <1>1, <1>3, <1>4 DEF LogType, Window, CursorAtPosition
<1>7. Marks(x) /\ Counts(x, <<>>) /\ Limits(x, <<>>)
  BY SMTT(30), <1>1, <1>3, <1>4 DEF Marks, Counts, Limits
<1>8. FreshAhead(x, <<>>) /\ Ready(x) /\ LiveHead(x) /\ Tracked(x)
  BY <1>1, <1>3, <1>4 DEF FreshAhead, Ready, LiveHead, Tracked
<1> QED BY SMTT(30), <1>5, <1>6, <1>7, <1>8 DEF Sound, Core, x

-----------------------------------------------------------------------------
(* Sums over slots. *)

\* Nothing weighs nothing.
LEMMA NoCharge == ASSUME NEW x PROVE ChargeOf(x, {}) = 0
<1> DEFINE op(s) == x.buff[s - x.firstSeqNum + 1].size
           pick(s) == CHOOSE t \in s : TRUE
           sum == CHOOSE g : g = [s \in SUBSET {} |-> IF s = {} THEN 0
                                  ELSE op(pick(s)) + g[s \ {pick(s)}]]
<1>1. \E g : g = [s \in SUBSET {} |-> IF s = {} THEN 0 ELSE op(pick(s)) + g[s \ {pick(s)}]]
  <2>1. SUBSET {} = {{}}
    OBVIOUS
  <2> DEFINE g == [s \in {{}} |-> 0]
  <2>2. g = [s \in SUBSET {} |-> IF s = {} THEN 0 ELSE op(pick(s)) + g[s \ {pick(s)}]]
    BY <2>1
  <2> QED BY Zenon, <2>2
<1>2. sum = [s \in SUBSET {} |-> IF s = {} THEN 0 ELSE op(pick(s)) + sum[s \ {pick(s)}]]
  BY Zenon, <1>1
<1>3. ChargeOf(x, {}) = sum[{}]
  BY Zenon DEF ChargeOf, MapThenSumSet, MapThenFoldSet
<1> HIDE DEF sum
<1> QED BY <1>2, <1>3

Pick(T) == CHOOSE t \in T : TRUE

\* g is the function that MapThenSumSet folds with on the subsets of U.
Sums(w, U, g) ==
  g = [T \in SUBSET U |-> IF T = {} THEN 0 ELSE w[Pick(T)] + g[T \ {Pick(T)}]]

\* The members of V weigh the same.
Alike(w, v, V) == \A t \in V : w[t] = v[t]

\* A non-empty set has the element that Pick names.
LEMMA PickIs == ASSUME NEW T, T # {} PROVE Pick(T) \in T
BY Zenon DEF Pick

\* A set of subsets of a finite set has a least one.
LEMMA LeastSubset ==
  ASSUME NEW S, IsFiniteSet(S), NEW Bad, Bad \subseteq SUBSET S, Bad # {}
  PROVE  \E T \in Bad : \A U \in Bad : U \subseteq T => U = T
<1>1. IsWellFoundedOn(StrictSubsetOrdering(S), SUBSET S)
  BY Zenon, FS_StrictSubsetOrderingWellFounded, FS_FiniteSubsetsOfFinite
<1>2. PICK T \in Bad : \A U \in Bad : ~(<<U, T>> \in StrictSubsetOrdering(S))
  BY Zenon, <1>1, WFMin
<1>3. \A U \in Bad : U \subseteq T => U = T
  <2>1. SUFFICES ASSUME NEW U \in Bad, U \subseteq T, U # T PROVE FALSE
    OBVIOUS
  <2>2. <<U, T>> \in StrictSubsetOrdering(S)
    BY SMTT(30), <2>1 DEF StrictSubsetOrdering
  <2> QED BY <1>2, <2>2
<1> QED BY <1>3

\* Two such functions agree where the weights do.
LEMMA SumsAgree ==
  ASSUME NEW U, IsFiniteSet(U), NEW V, V \subseteq U, NEW w, NEW v,
         Alike(w, v, V), NEW g, Sums(w, U, g), NEW h, Sums(v, V, h)
  PROVE  \A T \in SUBSET V : g[T] = h[T]
<1> DEFINE Bad == {R \in SUBSET V : g[R] # h[R]}
<1>1. SUFFICES ASSUME Bad # {} PROVE FALSE
  OBVIOUS
<1>2. PICK R \in Bad : \A Q \in Bad : Q \subseteq R => Q = R
  <2>1. Bad \subseteq SUBSET U
    OBVIOUS
  <2> HIDE DEF Bad
  <2> QED BY SMTT(30), <1>1, <2>1, LeastSubset
<1>3. R \in SUBSET U /\ R \in SUBSET V /\ g[R] # h[R]
  OBVIOUS
<1>4. /\ g[R] = IF R = {} THEN 0 ELSE w[Pick(R)] + g[R \ {Pick(R)}]
      /\ h[R] = IF R = {} THEN 0 ELSE v[Pick(R)] + h[R \ {Pick(R)}]
  BY Zenon, <1>3 DEF Sums
<1>5. R # {}
  BY <1>3, <1>4
<1>6. Pick(R) \in R
  BY <1>5, PickIs
<1>7. g[R \ {Pick(R)}] = h[R \ {Pick(R)}]
  BY <1>2, <1>3, <1>6
<1>8. w[Pick(R)] = v[Pick(R)]
  BY <1>3, <1>6 DEF Alike
<1> QED BY SMTT(30), <1>3, <1>4, <1>5, <1>7, <1>8

\* There is such a function on the subsets of every finite set.
LEMMA SumsExist ==
  ASSUME NEW S, IsFiniteSet(S), NEW w
  PROVE  \E g : Sums(w, S, g)
<1> DEFINE Bad == {U \in SUBSET S : ~\E g : Sums(w, U, g)}
<1>1. SUFFICES ASSUME S \in Bad PROVE FALSE
  OBVIOUS
<1>2. PICK U \in Bad : \A V \in Bad : V \subseteq U => V = U
  <2>1. Bad \subseteq SUBSET S /\ Bad # {}
    BY <1>1
  <2> HIDE DEF Bad
  <2> QED BY <2>1, LeastSubset
<1>3. U \in SUBSET S /\ ~\E g : Sums(w, U, g)
  OBVIOUS
<1> DEFINE G(V) == CHOOSE g : Sums(w, V, g)
           rest(T) == T \ {Pick(T)}
           h == [T \in SUBSET U |-> IF T = {} THEN 0 ELSE w[Pick(T)] + G(rest(T))[rest(T)]]
<1>4. ASSUME NEW V \in SUBSET U, V # U PROVE Sums(w, V, G(V))
  <2>1. V \notin Bad
    BY <1>2, <1>4
  <2>2. \E g : Sums(w, V, g)
    BY <1>3, <2>1
  <2> QED BY Zenon, <2>2
<1> HIDE DEF Bad, G
<1>5. ASSUME NEW V \in SUBSET U, V # U PROVE h[V] = G(V)[V]
  <2>1. Sums(w, V, G(V))
    BY Zenon, <1>4, <1>5
  <2>2. G(V)[V] = IF V = {} THEN 0 ELSE w[Pick(V)] + G(V)[rest(V)]
    BY Zenon, <2>1 DEF Sums
  <2>3. h[V] = IF V = {} THEN 0 ELSE w[Pick(V)] + G(rest(V))[rest(V)]
    BY Zenon, <1>5
  <2>4. CASE V = {}
    BY SMTT(30), <2>2, <2>3, <2>4
  <2>5. CASE V # {}
    <3>1. Pick(V) \in V
      BY <2>5, PickIs
    <3>2. rest(V) \in SUBSET U /\ rest(V) # U /\ rest(V) \in SUBSET V
      BY <1>5, <3>1
    <3>3. Sums(w, rest(V), G(rest(V)))
      BY Zenon, <1>4, <3>2
    <3>4. IsFiniteSet(V) /\ rest(V) \subseteq V
      BY SMTT(30), <1>3, <1>5, FS_Subset
    <3> HIDE DEF rest
    <3>5. \A T \in SUBSET rest(V) : G(V)[T] = G(rest(V))[T]
      <4>1. Alike(w, w, rest(V))
        BY DEF Alike
      <4> QED BY <2>1, <3>3, <3>4, <4>1, SumsAgree
    <3> QED BY <2>2, <2>3, <2>5, <3>5
  <2> QED BY <2>4, <2>5
<1>6. Sums(w, U, h)
  <2>1. ASSUME NEW T \in SUBSET U, T # {} PROVE G(rest(T))[rest(T)] = h[rest(T)]
    <3>1. Pick(T) \in T
      BY <2>1, PickIs
    <3>2. rest(T) \in SUBSET U /\ rest(T) # U
      BY <2>1, <3>1
    <3> HIDE DEF rest, h
    <3> QED BY <1>5, <3>2
  <2>2. h = [T \in SUBSET U |-> IF T = {} THEN 0 ELSE w[Pick(T)] + h[rest(T)]]
    <3>1. \A T \in SUBSET U :
            h[T] = IF T = {} THEN 0 ELSE w[Pick(T)] + h[rest(T)]
      <4>1. SUFFICES ASSUME NEW T \in SUBSET U
                     PROVE  h[T] = IF T = {} THEN 0 ELSE w[Pick(T)] + h[rest(T)]
        BY Zenon
      <4>2. h[T] = IF T = {} THEN 0 ELSE w[Pick(T)] + G(rest(T))[rest(T)]
        BY Zenon
      <4> HIDE DEF h, rest
      <4> QED BY SMTT(30), <2>1, <4>2
    <3>2. h = [T \in SUBSET U |-> h[T]]
      BY Zenon
    <3> HIDE DEF h
    <3> QED BY Zenon, <3>1, <3>2
  <2> HIDE DEF h
  <2> QED BY Zenon, <2>2 DEF Sums
<1> QED BY <1>3, <1>6

\* Such a function is additive.
LEMMA SumsAdd ==
  ASSUME NEW S, IsFiniteSet(S), NEW w, \A s \in S : w[s] \in Nat, NEW g, Sums(w, S, g)
  PROVE  /\ g[{}] = 0 /\ \A T \in SUBSET S : g[T] \in Nat
         /\ \A T \in SUBSET S : \A s \in S \ T : g[T \cup {s}] = g[T] + w[s]
<1>1. \A T \in SUBSET S : g[T] = IF T = {} THEN 0 ELSE w[Pick(T)] + g[T \ {Pick(T)}]
  BY Zenon DEF Sums
<1>2. g[{}] = 0
  BY Zenon, <1>1
<1>3. ASSUME NEW T \in SUBSET S PROVE g[T] \in Nat
  <2> DEFINE Bad == {R \in SUBSET S : g[R] \notin Nat}
  <2>1. SUFFICES ASSUME T \in Bad PROVE FALSE
    OBVIOUS
  <2>2. PICK R \in Bad : \A Q \in Bad : Q \subseteq R => Q = R
    <3>1. Bad \subseteq SUBSET S /\ Bad # {}
      BY <2>1
    <3> HIDE DEF Bad
    <3> QED BY <3>1, LeastSubset
  <2>3. R # {}
    BY <1>2
  <2>4. Pick(R) \in R
    BY <2>3, PickIs
  <2>5. g[R \ {Pick(R)}] \in Nat /\ w[Pick(R)] \in Nat
    BY <2>2, <2>4
  <2>6. g[R] = w[Pick(R)] + g[R \ {Pick(R)}]
    BY <1>1, <2>3
  <2> QED BY <2>5, <2>6
<1>4. ASSUME NEW T \in SUBSET S, NEW s \in S \ T PROVE g[T \cup {s}] = g[T] + w[s]
  <2> DEFINE Off(R, r) == g[R \cup {r}] # g[R] + w[r]
             Bad == {R \in SUBSET S : \E r \in S \ R : Off(R, r)}
  <2>1. SUFFICES ASSUME T \in Bad PROVE FALSE
    BY ZenonT(40), <1>4
  <2>2. PICK R \in Bad : \A Q \in Bad : Q \subseteq R => Q = R
    <3>1. Bad \subseteq SUBSET S /\ Bad # {}
      BY <2>1
    <3> HIDE DEF Bad
    <3> QED BY <3>1, LeastSubset
  <2>3. PICK r \in S \ R : g[R \cup {r}] # g[R] + w[r]
    OBVIOUS
  <2> DEFINE p == Pick(R \cup {r})
  <2>4. p \in R \cup {r}
    BY PickIs
  <2>5. R \in SUBSET S /\ R \cup {r} \in SUBSET S
    OBVIOUS
  <2>6. g[R \cup {r}] = w[p] + g[(R \cup {r}) \ {p}]
    BY Zenon, <1>1, <2>5
  <2>7. g[R] \in Nat /\ w[r] \in Nat /\ w[p] \in Nat
    BY <1>3, <2>4, <2>5
  <2> HIDE DEF p
  <2>8. CASE p = r
    <3>1. (R \cup {r}) \ {p} = R
      BY <2>3, <2>8
    <3>2. g[R \cup {r}] = w[r] + g[R]
      BY Zenon, <2>6, <2>8, <3>1
    <3> QED BY SMTT(30), <2>3, <2>7, <3>2
  <2>9. CASE p # r
    <3> DEFINE Q == R \ {p}
    <3>1. p \in R /\ Q \in SUBSET S /\ Q # R /\ p \in S \ Q /\ r \in S \ Q
      BY SMTT(30), <2>3, <2>4, <2>5, <2>9
    <3>2. (R \cup {r}) \ {p} = Q \cup {r} /\ Q \cup {p} = R
      BY SMTT(30), <2>9, <3>1
    <3>3. Q \notin Bad
      BY Zenon, <2>2, <3>1
    <3>4. g[Q \cup {r}] = g[Q] + w[r] /\ g[Q \cup {p}] = g[Q] + w[p]
      BY Zenon, <3>1, <3>3
    <3>5. g[Q] \in Nat
      BY <1>3, <3>1
    <3> HIDE DEF Q
    <3>6. g[R \cup {r}] = w[p] + (g[Q] + w[r]) /\ g[R] = g[Q] + w[p]
      BY Zenon, <2>6, <3>2, <3>4
    <3>7. \A i, j, k \in Nat : i + (j + k) = (j + i) + k
      OBVIOUS
    <3>8. w[p] + (g[Q] + w[r]) = (g[Q] + w[p]) + w[r]
      BY Zenon, <2>7, <3>5, <3>7
    <3>9. g[R \cup {r}] = g[R] + w[r]
      BY Zenon, <3>6, <3>8
    <3> QED BY SMTT(30), <2>3, <3>9
  <2> QED BY <2>8, <2>9
<1> QED BY <1>2, <1>3, <1>4

-----------------------------------------------------------------------------
(* The charge of a set of slots. *)

SizeAt(x, s) == x.buff[s - x.firstSeqNum + 1].size

Weights(x, S) == [s \in S |-> SizeAt(x, s)]

\* The slots of S have a size.
Sized(x, S) == IsFiniteSet(S) /\ \A s \in S : SizeAt(x, s) \in Nat

\* ChargeOf is the value of the folded function at the whole set.
LEMMA ChargeSums ==
  ASSUME NEW x, NEW S, NEW g, IsFiniteSet(S), Sums(Weights(x, S), S, g)
  PROVE  ChargeOf(x, S) = g[S]
<1> DEFINE F(f) == [T \in SUBSET S |-> IF T = {} THEN 0
                                       ELSE SizeAt(x, Pick(T)) + f[T \ {Pick(T)}]]
           sum == CHOOSE f : f = F(f)
<1>1. ChargeOf(x, S) = sum[S]
  BY Zenon DEF ChargeOf, MapThenSumSet, MapThenFoldSet, SizeAt, Pick
<1>2. ASSUME NEW T \in SUBSET S, T # {} PROVE SizeAt(x, Pick(T)) = Weights(x, S)[Pick(T)]
  <2>1. Pick(T) \in S
    BY <1>2, PickIs
  <2> QED BY <2>1 DEF Weights
<1>3. \A f : F(f) = [T \in SUBSET S |-> IF T = {} THEN 0
                                       ELSE Weights(x, S)[Pick(T)] + f[T \ {Pick(T)}]]
  BY <1>2
<1>4. g = F(g)
  BY Zenon, <1>3 DEF Sums
<1>5. sum = F(sum)
  <2> HIDE DEF F
  <2> QED BY Zenon, <1>4
<1> HIDE DEF sum
<1>6. Sums(Weights(x, S), S, sum)
  <2>1. F(sum) = [T \in SUBSET S |-> IF T = {} THEN 0
                                     ELSE Weights(x, S)[Pick(T)] + sum[T \ {Pick(T)}]]
    BY Zenon, <1>3
  <2> HIDE DEF F
  <2> QED BY Zenon, <1>5, <2>1 DEF Sums
<1>7. Alike(Weights(x, S), Weights(x, S), S)
  BY DEF Alike
<1>8. \A T \in SUBSET S : sum[T] = g[T]
  BY <1>6, <1>7, SumsAgree
<1> QED BY <1>1, <1>8

\* The charge of a set is that of a part and that of the rest.
LEMMA ChargeParts ==
  ASSUME NEW x, NEW S, Sized(x, S), NEW A, A \subseteq S
  PROVE  /\ ChargeOf(x, S) \in Nat /\ ChargeOf(x, A) \in Nat /\ ChargeOf(x, S \ A) \in Nat
         /\ ChargeOf(x, S) = ChargeOf(x, A) + ChargeOf(x, S \ A)
<1> DEFINE w == Weights(x, S)
<1>1. PICK g : Sums(w, S, g)
  BY SumsExist DEF Sized
<1>2. \A s \in S : w[s] \in Nat
  BY DEF Sized, Weights
<1>3. /\ g[{}] = 0 /\ \A T \in SUBSET S : g[T] \in Nat
      /\ \A T \in SUBSET S : \A s \in S \ T : g[T \cup {s}] = g[T] + w[s]
  <2> HIDE DEF w
  <2> QED BY SMTT(30), <1>1, <1>2, SumsAdd DEF Sized
<1>4. ASSUME NEW T \in SUBSET S PROVE ChargeOf(x, T) = g[T]
  <2>1. IsFiniteSet(T) /\ IsFiniteSet(S) /\ T \subseteq S
    BY FS_Subset DEF Sized
  <2>2. PICK h : Sums(Weights(x, T), T, h)
    BY <2>1, SumsExist
  <2>3. ChargeOf(x, T) = h[T]
    BY Zenon, <2>1, <2>2, ChargeSums
  <2>4. Alike(w, Weights(x, T), T)
    BY SMTT(30), <2>1 DEF Alike, Weights
  <2> HIDE DEF w
  <2>5. \A R \in SUBSET T : g[R] = h[R]
    BY SMTT(30), <1>1, <2>1, <2>2, <2>4, SumsAgree
  <2> QED BY <2>3, <2>5
<1>5. g[S] = g[A] + g[S \ A]
  <2> DEFINE Bad == {B \in SUBSET (S \ A) : g[A \cup B] # g[A] + g[B]}
  <2>1. SUFFICES ASSUME Bad # {} PROVE FALSE
    <3>1. S \ A \notin Bad /\ A \cup (S \ A) = S
      BY ZenonT(40), <2>1
    <3> HIDE DEF w
    <3> QED BY Zenon, <3>1
  <2>2. PICK B \in Bad : \A C \in Bad : C \subseteq B => C = B
    <3>1. Bad \subseteq SUBSET S /\ IsFiniteSet(S)
      BY DEF Sized
    <3> HIDE DEF Bad
    <3> QED BY <2>1, <3>1, LeastSubset
  <2> HIDE DEF w
  <2>3. g[A] \in Nat /\ g[B] \in Nat
    BY <1>3
  <2>4. B # {}
    <3>1. SUFFICES ASSUME B = {} PROVE g[A \cup B] = g[A] + g[B]
      BY <2>2
    <3>2. A \cup B = A /\ g[B] = 0
      BY <1>3, <3>1
    <3>3. g[A] = g[A] + 0
      BY <2>3
    <3> QED BY Zenon, <3>2, <3>3
  <2>5. PICK b : b \in B
    BY <2>4
  <2> DEFINE C == B \ {b}
  <2>6. /\ C \in SUBSET (S \ A) /\ C # B /\ b \in S \ C /\ b \in S \ (A \cup C)
        /\ C \cup {b} = B /\ (A \cup C) \cup {b} = A \cup B /\ A \cup C \in SUBSET S
    BY SMTT(30), <2>5
  <2>7. g[A \cup C] = g[A] + g[C]
    BY ZenonT(40), <2>2, <2>6
  <2>8. g[B] = g[C] + w[b]
    BY Zenon, <1>3, <2>6
  <2>9. g[A \cup B] = g[A \cup C] + w[b]
    BY Zenon, <1>3, <2>6
  <2>10. g[C] \in Nat /\ w[b] \in Nat
    BY SMTT(30), <1>2, <1>3, <2>6
  <2> HIDE DEF C
  <2>11. g[A \cup B] = (g[A] + g[C]) + w[b] /\ g[B] = g[C] + w[b]
    BY Zenon, <2>7, <2>8, <2>9
  <2>12. \A i, j, k \in Nat : (i + j) + k = i + (j + k)
    OBVIOUS
  <2>13. g[A \cup B] = g[A] + g[B]
    <3>1. (g[A] + g[C]) + w[b] = g[A] + (g[C] + w[b])
      BY Zenon, <2>3, <2>10, <2>12
    <3> QED BY Zenon, <2>11, <3>1
  <2> QED BY <2>13
<1> HIDE DEF w
<1>6. S \in SUBSET S /\ A \in SUBSET S /\ S \ A \in SUBSET S
  OBVIOUS
<1>7. ChargeOf(x, S) = g[S] /\ ChargeOf(x, A) = g[A] /\ ChargeOf(x, S \ A) = g[S \ A]
  BY Zenon, <1>4, <1>6
<1>8. g[S] \in Nat /\ g[A] \in Nat /\ g[S \ A] \in Nat
  BY Zenon, <1>3, <1>6
<1> QED BY Zenon, <1>5, <1>7, <1>8

\* The charge depends on the sizes only.
LEMMA ChargeSame ==
  ASSUME NEW x, NEW r, NEW S, IsFiniteSet(S), \A s \in S : SizeAt(r, s) = SizeAt(x, s)
  PROVE  ChargeOf(r, S) = ChargeOf(x, S)
<1>1. Weights(r, S) = Weights(x, S)
  BY Zenon DEF Weights
<1>2. PICK g : Sums(Weights(x, S), S, g)
  BY SumsExist
<1>3. Sums(Weights(r, S), S, g)
  BY Zenon, <1>1, <1>2
<1>4. ChargeOf(x, S) = g[S] /\ ChargeOf(r, S) = g[S]
  BY Zenon, <1>2, <1>3, ChargeSums
<1> QED BY <1>4

\* One slot is charged with its size.
LEMMA ChargeOne ==
  ASSUME NEW x, NEW s, SizeAt(x, s) \in Nat
  PROVE  ChargeOf(x, {s}) = SizeAt(x, s)
<1> DEFINE w == Weights(x, {s})
<1>1. IsFiniteSet({s})
  BY ZenonT(40), FS_Singleton
<1>2. PICK g : Sums(w, {s}, g)
  BY <1>1, SumsExist
<1>3. w[s] = SizeAt(x, s)
  BY DEF Weights
<1>4. ChargeOf(x, {s}) = g[{s}]
  BY Zenon, <1>1, <1>2, ChargeSums
<1> HIDE DEF w
<1>5. g[{}] = 0 /\ \A T \in SUBSET {s} : \A t \in {s} \ T : g[T \cup {t}] = g[T] + w[t]
  <2>1. \A t \in {s} : w[t] \in Nat
    BY <1>3
  <2> QED BY <1>1, <1>2, <2>1, SumsAdd
<1>6. {} \in SUBSET {s} /\ s \in {s} \ {} /\ {} \cup {s} = {s}
  OBVIOUS
<1>7. g[{s}] = 0 + w[s]
  BY Zenon, <1>5, <1>6
<1> QED BY <1>3, <1>4, <1>7

\* Slots of size zero are charged nothing.
LEMMA ChargeZero ==
  ASSUME NEW x, NEW S, IsFiniteSet(S), \A s \in S : SizeAt(x, s) = 0
  PROVE  ChargeOf(x, S) = 0
<1> DEFINE Bad == {T \in SUBSET S : ChargeOf(x, T) # 0}
<1>1. SUFFICES ASSUME Bad # {} PROVE FALSE
  OBVIOUS
<1>2. PICK T \in Bad : \A U \in Bad : U \subseteq T => U = T
  <2>1. Bad \subseteq SUBSET S
    OBVIOUS
  <2> HIDE DEF Bad
  <2> QED BY <1>1, <2>1, LeastSubset
<1>3. T \subseteq S /\ ChargeOf(x, T) # 0
  OBVIOUS
<1>4. PICK t : t \in T
  BY <1>3, NoCharge
<1>5. T \ {t} \notin Bad /\ T \ {t} \subseteq S
  BY <1>2, <1>3, <1>4
<1>6. ChargeOf(x, T \ {t}) = 0
  BY <1>5
<1>7. ChargeOf(x, {t}) = 0
  BY <1>3, <1>4, ChargeOne
<1>8. Sized(x, T)
  BY <1>3, FS_Subset DEF Sized
<1>9. {t} \subseteq T
  BY <1>4
<1>10. ChargeOf(x, T) = ChargeOf(x, {t}) + ChargeOf(x, T \ {t})
  BY <1>8, <1>9, ChargeParts
<1> QED BY <1>3, <1>6, <1>7, <1>10
=============================================================================
