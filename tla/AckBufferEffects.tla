-------------------------- MODULE AckBufferEffects --------------------------
(***************************************************************************)
(* What the methods of AckBuffer do to the messages: which frames leave    *)
(* the buffer, which receipts change, and which frames are behind the      *)
(* sender afterwards; whether room appears and whether a request stays;    *)
(* and what happens to the bytes.  Proved on the record of AckBufferOps.   *)
(***************************************************************************)
EXTENDS AckBufferFlowProofs

\* The held frames that the current connection was given.
Behind(x) == {t \in Live(x) : t < Position(x)}

\* Each slot carries its own number.
Numbered(x) == \A i \in 1 .. Len(x.buff) : x.buff[i].seq = x.firstSeqNum + i - 1

\* r has frames of x only, numbered as before, and the same ones of them behind
\* the sender.
KeepsPlace(x, r) == /\ Behind(r) = Behind(x) \cap Live(r)
                    /\ x.nextIndexToDeliver = 0 => r.nextIndexToDeliver = 0
                    /\ Numbered(x) => Numbered(r)
                    /\ Position(x) \in Nat /\ Position(r) \in Nat
                    /\ Position(x) <= Position(r)

\* Nobody outside can tell r from x.
LooksSame(x, r) == /\ r.isRunning = x.isRunning /\ r.nextSeqNum = x.nextSeqNum
                   /\ r.receipts = x.receipts /\ Live(r) = Live(x)

-----------------------------------------------------------------------------
(* Removal. *)

\* Removing n slots removes their frames and moves no frame behind the sender.
LEMMA PrefixEffect ==
  ASSUME NEW x, BufferType(x), NEW n \in Nat \ {0}, n <= Len(x.buff),
         NEW acknowledge \in BOOLEAN, NEW r, PrefixRemoved(x, n, acknowledge, r)
  PROVE  Live(r) = {t \in Live(x) : t >= x.firstSeqNum + n} /\ KeepsPlace(x, r)
<1>1. /\ x.firstSeqNum \in Nat \ {0} /\ Len(x.buff) \in Nat /\ x.nextSeqNum \in Nat
      /\ x.nextSeqNum = x.firstSeqNum + Len(x.buff)
      /\ x.nextIndexToDeliver \in Nat
      /\ Position(x) = x.firstSeqNum + x.nextIndexToDeliver
  BY TypeFacts
<1>2. /\ r.firstSeqNum = x.firstSeqNum + n /\ r.nextSeqNum = x.nextSeqNum
      /\ r.retired = x.retired \ Gone(x, n)
      /\ r.nextIndexToDeliver = IndexAfterRemoval(x, n)
      /\ r.buff = SubSeq(x.buff, n + 1, Len(x.buff))
  BY DEF PrefixRemoved
<1>3. Live(r) = {t \in Live(x) : t >= x.firstSeqNum + n}
  <2>1. \A t : t \in Held(r) <=> t \in Held(x) /\ t >= x.firstSeqNum + n
    BY SMTT(30), <1>1, <1>2 DEF Held
  <2>2. \A t \in Held(x) : t >= x.firstSeqNum + n => t \notin Gone(x, n)
    BY <1>1 DEF Held, Gone
  <2> QED BY <1>2, <2>1, <2>2 DEF Live
<1>4. /\ Behind(r) = Behind(x) \cap Live(r)
      /\ Position(x) \in Nat /\ Position(r) \in Nat /\ Position(x) <= Position(r)
  <2>1. BufferType(r) /\ Position(r) = Larger(Position(x), x.firstSeqNum + n)
    BY Zenon, RemovePrefixType
  <2>2. Position(x) \in Nat /\ \A t \in Live(x) : t \in Nat
    BY <1>1 DEF Live, Held
  <2> QED BY <1>1, <1>3, <2>1, <2>2 DEF Behind, Larger
<1>5. x.nextIndexToDeliver = 0 => r.nextIndexToDeliver = 0
  BY <1>1, <1>2 DEF IndexAfterRemoval
<1>6. ASSUME Numbered(x) PROVE Numbered(r)
  <2>1. Len(r.buff) = Len(x.buff) - n
    BY Zenon, RemovePrefixType
  <2>2. x.buff \in Seq(SlotType)
    BY DEF BufferType, SequencesType
  <2>3. SUFFICES ASSUME NEW i \in 1 .. Len(x.buff) - n
                 PROVE  r.buff[i].seq = x.firstSeqNum + n + i - 1
    BY <1>2, <2>1 DEF Numbered
  <2>4. \A j \in n + 1 .. Len(x.buff) : x.buff[j] \in SlotType
    BY <1>1, <2>2, ElementOfSeq
  <2>5. r.buff[i] = x.buff[n + 1 + i - 1]
    BY <1>1, <1>2, <2>4, SubSeqProperties
  <2>6. i + n \in 1 .. Len(x.buff) /\ n + 1 + i - 1 = i + n
    BY <1>1
  <2> QED BY <1>1, <1>6, <2>5, <2>6 DEF Numbered
<1> QED BY <1>3, <1>4, <1>5, <1>6 DEF KeepsPlace

\* releaseRetiredHeadLocked removes no frame that counts.
LEMMA ReleaseEffect ==
  ASSUME NEW x, BufferType(x), NEW r, r = ReleaseRetiredHead(x)
  PROVE  /\ LooksSame(x, r) /\ KeepsPlace(x, r)
         /\ DOMAIN r.tracked \subseteq DOMAIN x.tracked
<1> DEFINE n == RetiredHead(x)
           q == RemovePrefix(x, n, FALSE)
<1>1. CASE x.retired = {} \/ n = 0
  <2>1. r = x
    BY Zenon, <1>1 DEF ReleaseRetiredHead
  <2>2. Position(x) \in Nat
    BY TypeFacts
  <2> QED BY <2>1, <2>2 DEF LooksSame, KeepsPlace, Behind
<1>2. CASE ~(x.retired = {} \/ n = 0)
  <2>1. /\ n \in Nat \ {0} /\ n <= Len(x.buff) /\ Gone(x, n) \subseteq x.retired
        /\ x.firstSeqNum \in Nat
    BY <1>2, RetiredHeadIs, TypeFacts
  <2>2. PrefixRemoved(x, n, FALSE, q)
    BY Zenon, RemovePrefixFields
  <2>3. r = [q EXCEPT !.releasedRetired = Remember(@, x.firstSeqNum, n)]
    BY <1>2 DEF ReleaseRetiredHead
  <2> HIDE DEF q, n
  <2>4. /\ r.nextSeqNum = q.nextSeqNum /\ r.receipts = q.receipts
        /\ r.isRunning = q.isRunning /\ r.firstSeqNum = q.firstSeqNum
        /\ r.retired = q.retired /\ r.nextIndexToDeliver = q.nextIndexToDeliver
        /\ r.buff = q.buff /\ r.tracked = q.tracked
    <3>1. IsBuffer(q)
      BY <2>2 DEF PrefixRemoved
    <3> QED BY Zenon, <2>3, <3>1 DEF IsBuffer, BufferFields, NewAckBuffer
  <2>5. Live(q) = {t \in Live(x) : t >= x.firstSeqNum + n} /\ KeepsPlace(x, q)
    BY Zenon, <2>1, <2>2, PrefixEffect
  <2>6. Live(q) = Live(x)
    BY <2>1, <2>5, TypeFacts DEF Live, Held, Gone
  <2>7. q.receipts = x.receipts
    <3>1. q.receipts = [s \in DOMAIN x.receipts |-> x.receipts[s]]
      BY <2>2 DEF PrefixRemoved, ReceiptAfterDrop
    <3>2. x.receipts \in Seq(FrameStates)
      BY DEF BufferType, SequencesType
    <3>3. x.receipts = [s \in DOMAIN x.receipts |-> x.receipts[s]]
      BY <3>2, LenProperties
    <3> QED BY <3>1, <3>3
  <2>8. /\ q.nextSeqNum = x.nextSeqNum /\ q.isRunning = x.isRunning
        /\ DOMAIN q.tracked \subseteq DOMAIN x.tracked
    BY <2>2 DEF PrefixRemoved
  <2>9. Live(r) = Live(q) /\ Behind(r) = Behind(q) /\ Position(r) = Position(q)
    BY <2>4 DEF Live, Held, Behind, Position
  <2>10. Numbered(q) => Numbered(r)
    BY <2>4 DEF Numbered
  <2> QED BY SMTT(30), <2>4, <2>5, <2>6, <2>7, <2>8, <2>9, <2>10
          DEF LooksSame, KeepsPlace
<1> QED BY <1>1, <1>2
-----------------------------------------------------------------------------
(* Acknowledgement and retirement. *)

\* r is x after the cumulative acknowledgement of seq.
Acknowledged(x, seq, r) ==
  /\ seq \in Held(x)
  /\ r.isRunning = x.isRunning /\ r.nextSeqNum = x.nextSeqNum
  /\ Live(r) = {t \in Live(x) : t > seq}
  /\ r.receipts = [s \in DOMAIN x.receipts |->
                     IF s <= seq /\ x.receipts[s] = "retained" THEN "acknowledged"
                     ELSE x.receipts[s]]
  /\ KeepsPlace(x, r)
  /\ \A t \in Live(x) : t <= seq => t \in Behind(x) \/ t = x.firstSeqNum

\* Ack does nothing, or acknowledges every held frame up to its number.
LEMMA AckEffect ==
  ASSUME NEW x, NEW lg, Sound(x, lg), Tracked(x), NEW seq, NEW r, r = Ack(x, seq)
  PROVE  r = x \/ Acknowledged(x, seq, r)
<1> DEFINE n == seq - x.firstSeqNum + 1
           q == RemovePrefix(x, n, TRUE)
<1>1. CASE LateAckTolerated(x, seq) \/ ~AckAccepted(x, seq)
  BY Zenon, <1>1 DEF Ack
<1>2. CASE ~(LateAckTolerated(x, seq) \/ ~AckAccepted(x, seq))
  <2>1. r = ReleaseRetiredHead(q)
    BY <1>2 DEF Ack
  <2>2. BufferType(x) /\ Marks(x)
    BY DEF Sound, Core
  <2>3. /\ x.firstSeqNum \in Nat \ {0} /\ Len(x.buff) \in Nat /\ seq \in Nat
        /\ x.nextSeqNum = x.firstSeqNum + Len(x.buff)
        /\ seq >= x.firstSeqNum /\ seq < x.nextSeqNum
        /\ DeliveredEnough(x, seq - x.firstSeqNum)
        /\ x.nextIndexToDeliver \in Nat
        /\ Position(x) = x.firstSeqNum + x.nextIndexToDeliver
        /\ DOMAIN x.receipts \subseteq Nat
    BY SMTT(30), <1>2, <2>2, TypeFacts DEF AckAccepted
  <2>4. n \in Nat \ {0} /\ n <= Len(x.buff) /\ x.firstSeqNum + n = seq + 1
    BY SMTT(30), <2>3
  <2>5. PrefixRemoved(x, n, TRUE, q)
    BY Zenon, <2>2, RemovePrefixFields
  <2>6. BufferType(q)
    BY Zenon, <2>2, <2>4, <2>5, RemovePrefixType
  <2>7. Live(q) = {t \in Live(x) : t >= x.firstSeqNum + n} /\ KeepsPlace(x, q)
    BY Zenon, <2>2, <2>4, <2>5, PrefixEffect
  <2>8. Gone(x, n) = x.firstSeqNum .. seq
    BY SMTT(30), <2>3, <2>4 DEF Gone
  <2>9. /\ q.isRunning = x.isRunning /\ q.nextSeqNum = x.nextSeqNum
        /\ q.receipts = [s \in DOMAIN x.receipts |->
                           IF s \in Gone(x, n) \cap DOMAIN x.tracked
                           THEN ReceiptAfterDrop(x.receipts[s], TRUE) ELSE x.receipts[s]]
    BY Zenon, <2>5 DEF PrefixRemoved
  <2> HIDE DEF q, n
  <2>10. LooksSame(q, r) /\ KeepsPlace(q, r)
    BY <2>1, <2>6, ReleaseEffect
  <2>11. seq \in Held(x)
    BY <2>3 DEF Held
  <2>12. Live(r) = {t \in Live(x) : t > seq}
    <3>1. \A t \in Live(x) : t \in Nat
      BY <2>3 DEF Live, Held
    <3> QED BY SMTT(30), <2>3, <2>4, <2>7, <2>10, <3>1 DEF LooksSame
  <2>13. r.receipts = [s \in DOMAIN x.receipts |->
                         IF s <= seq /\ x.receipts[s] = "retained" THEN "acknowledged"
                         ELSE x.receipts[s]]
    <3>1. \A s \in DOMAIN x.receipts : x.receipts[s] = "retained" =>
            s \in DOMAIN x.tracked /\ s >= x.firstSeqNum
      BY <2>2, <2>3 DEF Marks, Live, Held, Tracked
    <3>2. \A s \in DOMAIN x.receipts : s \in Gone(x, n) <=> s >= x.firstSeqNum /\ s <= seq
      BY SMTT(30), <2>3, <2>8
    <3>3. \A s \in DOMAIN x.receipts :
            (IF s \in Gone(x, n) \cap DOMAIN x.tracked
             THEN ReceiptAfterDrop(x.receipts[s], TRUE) ELSE x.receipts[s])
            = IF s <= seq /\ x.receipts[s] = "retained" THEN "acknowledged"
              ELSE x.receipts[s]
      BY <3>1, <3>2 DEF ReceiptAfterDrop
    <3> QED BY Zenon, <2>9, <2>10, <3>3 DEF LooksSame
  <2>14. KeepsPlace(x, r)
    BY <2>7, <2>10 DEF KeepsPlace, LooksSame
  <2>15. \A t \in Live(x) : t <= seq => t \in Behind(x) \/ t = x.firstSeqNum
    <3>1. \A t \in Live(x) : t \in Nat /\ t >= x.firstSeqNum
      BY <2>3 DEF Live, Held
    <3> QED BY <2>3, <3>1 DEF Behind, DeliveredEnough
  <2> QED BY Zenon, <2>9, <2>10, <2>11, <2>12, <2>13, <2>14, <2>15 DEF Acknowledged, LooksSame
<1> QED BY <1>1, <1>2

\* r is x after the frames of S were retired and the sender starts over.
StartedOver(x, S, r) ==
  /\ S \subseteq Live(x) \cap DOMAIN x.tracked
  /\ r.isRunning = x.isRunning /\ r.nextSeqNum = x.nextSeqNum
  /\ Live(r) = Live(x) \ S
  /\ r.receipts = [s \in DOMAIN x.receipts |->
                     IF s \in S THEN "retired" ELSE x.receipts[s]]
  /\ r.nextIndexToDeliver = 0
  /\ Numbered(x) => Numbered(r)
  /\ DOMAIN r.tracked \subseteq DOMAIN x.tracked

\* ResetDelivery retires tracked frames and puts the sender before the others.
LEMMA ResetEffect ==
  ASSUME NEW x, NEW lg, Core(x, lg), NEW r, r = ResetDelivery(x),
         NEW spent, spent = {s \in DOMAIN x.tracked \ x.retired : Exhausted(x, s)}
  PROVE  StartedOver(x, spent, r)
<1> DEFINE q == StartOver(x)
           y == Retire(q, spent)
           z == ReleaseRetiredHead(y)
<1>1. r = [z EXCEPT !.isReadyToDeliver = ReadyAfterReset(z)]
  BY Zenon DEF ResetDelivery, StartOver
<1>2. BufferType(x)
  BY DEF Core
<1>3. AtFront(x, q) /\ Core(q, lg) /\ Live(q) = Live(x)
  BY Zenon, StartOverKeeps
<1>4. \A s \in DOMAIN x.tracked : Exhausted(q, s) <=> Exhausted(x, s)
  BY <1>3 DEF Exhausted, AtFront
<1> HIDE DEF q
<1>5. spent \subseteq DOMAIN q.tracked \ q.retired /\ \A s \in spent : Exhausted(q, s)
  BY <1>3, <1>4 DEF AtFront
<1>6. Core(y, lg) /\ FramesRetired(q, spent, y) /\ Live(y) = Live(q) \ spent
  BY Zenon, <1>3, <1>5, RetireKeeps
<1> HIDE DEF y
<1>7. BufferType(y)
  BY <1>6 DEF Core
<1>8. LooksSame(y, z) /\ KeepsPlace(y, z) /\ DOMAIN z.tracked \subseteq DOMAIN y.tracked
  BY Zenon, <1>7, ReleaseEffect
<1>9. IsBuffer(z)
  BY <1>6, ReleaseKeeps DEF Core, BufferType
<1> HIDE DEF z
<1>10. /\ r.isRunning = z.isRunning /\ r.nextSeqNum = z.nextSeqNum
       /\ r.firstSeqNum = z.firstSeqNum /\ r.retired = z.retired
       /\ r.receipts = z.receipts /\ r.buff = z.buff /\ r.tracked = z.tracked
       /\ r.nextIndexToDeliver = z.nextIndexToDeliver
  BY Zenon, <1>1, <1>9 DEF IsBuffer, BufferFields, NewAckBuffer
<1>11. Live(r) = Live(x) \ spent
  <2>1. Live(r) = Live(z)
    BY <1>10 DEF Live, Held
  <2> QED BY <1>3, <1>6, <1>8, <2>1 DEF LooksSame
<1>12. r.receipts = [s \in DOMAIN x.receipts |->
                       IF s \in spent THEN "retired" ELSE x.receipts[s]]
  BY Zenon, <1>3, <1>6, <1>8, <1>10 DEF AtFront, FramesRetired, LooksSame
<1>13. r.nextIndexToDeliver = 0
  BY <1>3, <1>6, <1>8, <1>10 DEF AtFront, FramesRetired, KeepsPlace
<1>14. ASSUME Numbered(x) PROVE Numbered(r)
  <2>1. /\ y.firstSeqNum = x.firstSeqNum
        /\ y.buff = [i \in DOMAIN x.buff |->
                       IF x.firstSeqNum + i - 1 \in spent
                       THEN [seq |-> x.firstSeqNum + i - 1, ackRequested |-> FALSE, size |-> 0]
                       ELSE x.buff[i]]
    <3>1. q.firstSeqNum = x.firstSeqNum /\ q.buff = x.buff
      BY <1>3 DEF AtFront
    <3> QED BY <1>6, <3>1 DEF FramesRetired
  <2>2. DOMAIN x.buff = 1 .. Len(x.buff) /\ DOMAIN y.buff = 1 .. Len(y.buff)
    BY <1>2, <1>7, TypeFacts
  <2>3. DOMAIN y.buff = DOMAIN x.buff
    BY <2>1
  <2>4. \A i \in DOMAIN x.buff : y.buff[i].seq = y.firstSeqNum + i - 1
    <3>1. \A i \in DOMAIN x.buff : x.buff[i].seq = x.firstSeqNum + i - 1
      BY Zenon, <1>14, <2>2 DEF Numbered
    <3> QED BY <2>1, <3>1
  <2>5. Numbered(z)
    BY Zenon, <1>8, <2>2, <2>3, <2>4 DEF Numbered, KeepsPlace
  <2> QED BY <1>10, <2>5 DEF Numbered
<1>15. spent \subseteq Live(x) \cap DOMAIN x.tracked
  BY <1>2, TypeFacts DEF Live
<1>16. /\ r.isRunning = x.isRunning /\ r.nextSeqNum = x.nextSeqNum
       /\ DOMAIN r.tracked \subseteq DOMAIN x.tracked
  BY Zenon, <1>3, <1>6, <1>8, <1>10 DEF AtFront, FramesRetired, LooksSame
<1> QED BY Zenon, <1>11, <1>12, <1>13, <1>14, <1>15, <1>16 DEF StartedOver

-----------------------------------------------------------------------------
(* Sending. *)

\* Nothing that a producer or a drain waits for differs in r and x.
SameRoom(x, r) == /\ r.isClosed = x.isClosed /\ r.isAvailable = x.isAvailable
                  /\ r.bytes = x.bytes /\ r.lastFlaggedSeq = x.lastFlaggedSeq
                  /\ r.firstSeqNum = x.firstSeqNum /\ r.buff = x.buff

\* r is x after frame s, or nothing when s is 0, was given to the sender.
Sent(x, s, r) ==
  /\ LooksSame(x, r) /\ SameRoom(x, r)
  /\ r.retired = x.retired /\ DOMAIN r.tracked = DOMAIN x.tracked
  /\ Behind(r) = Behind(x) \cup ({s} \cap Live(x))
  /\ s # 0 => /\ s \in Live(x) /\ s >= Position(x) /\ Position(r) = s + 1
              /\ \A t \in Live(x) : t < s => t \in Behind(x)
  /\ s = 0 => Position(r) = x.nextSeqNum

\* GetNextToDeliver hands out the first frame that this connection was not given.
LEMMA DeliverEffect ==
  ASSUME NEW x, NEW lg, Sound(x, lg), NEW s, s = NextToDeliver(x),
         NEW r, r = GetNextToDeliver(x)
  PROVE  Sent(x, s, r)
<1>1. Core(x, lg) /\ FreshAhead(x, lg) /\ BufferType(x)
  BY DEF Sound, Core
<1>2. /\ x.firstSeqNum \in Nat \ {0} /\ Len(x.buff) \in Nat
      /\ x.nextSeqNum = x.firstSeqNum + Len(x.buff)
      /\ Position(x) \in Nat \ {0} /\ Position(x) <= x.nextSeqNum
      /\ x.firstSeqNum <= Position(x)
      /\ \A t \in Live(x) : t \in Nat /\ t < x.nextSeqNum /\ t # 0
  BY <1>1, TypeFacts DEF Live, Held
<1>3. Deliverable(x) = {t \in Live(x) : t >= Position(x)}
  <2>1. Fenced(x) = {}
    BY <1>1, NothingFenced
  <2> QED BY <1>2, <2>1 DEF Deliverable, Pending, Live, Held
<1>4. Deliverable(x) \subseteq Nat /\ 0 \notin Deliverable(x)
  BY <1>2, <1>3
<1>5. CASE s = 0
  <2> DEFINE q == PassTo(x, x.nextSeqNum)
  <2>1. r = [q EXCEPT !.isReadyToDeliver = FALSE]
    BY <1>5 DEF GetNextToDeliver
  <2>2. x.nextSeqNum \in Position(x) .. x.nextSeqNum
    BY <1>2
  <2>3. Moved(x, x.nextSeqNum, q)
    BY <1>1, <2>2, PassKeeps
  <2> HIDE DEF q
  <2>4. /\ LooksSame(x, r) /\ SameRoom(x, r) /\ r.retired = x.retired
        /\ r.tracked = x.tracked /\ r.nextIndexToDeliver = q.nextIndexToDeliver
    <3>1. /\ r.isRunning = x.isRunning /\ r.nextSeqNum = x.nextSeqNum
          /\ r.receipts = x.receipts /\ SameRoom(x, r) /\ r.retired = x.retired
          /\ r.tracked = x.tracked /\ r.nextIndexToDeliver = q.nextIndexToDeliver
      BY Zenon, <2>1, <2>3 DEF Moved, SameRoom, IsBuffer, BufferFields, NewAckBuffer
    <3> QED BY <3>1 DEF LooksSame, SameRoom, Live, Held
  <2>5. Position(r) = x.nextSeqNum
    BY <1>2, <2>3, <2>4 DEF Moved, SameRoom, Position
  <2>6. \A t \in Live(x) : t < Position(x)
    <3>1. Deliverable(x) = {}
      BY ZenonT(40), <1>4, <1>5, FirstOr0Is DEF NextToDeliver
    <3> QED BY <1>2, <1>3, <3>1
  <2>7. Behind(r) = Live(x) /\ Behind(x) = Live(x)
    BY <1>2, <2>4, <2>5, <2>6 DEF Behind, LooksSame
  <2> QED BY <1>5, <2>4, <2>5, <2>7 DEF Sent
<1>6. CASE s # 0
  <2> DEFINE q == PassTo(x, s)
  <2>1. r = HandOff(q, s)
    BY <1>6 DEF GetNextToDeliver
  <2>2. s \in Deliverable(x) /\ \A t \in Deliverable(x) : s <= t
    BY <1>4, <1>6, FirstOr0Is DEF NextToDeliver
  <2>3. s \in Live(x) /\ s \in Nat /\ s >= Position(x) /\ s \in Position(x) .. x.nextSeqNum
    BY <1>2, <1>3, <2>2
  <2>4. Moved(x, s, q)
    BY SMTT(30), <1>1, <2>3, PassKeeps
  <2> HIDE DEF q
  <2>5. /\ r.isRunning = x.isRunning /\ r.nextSeqNum = x.nextSeqNum
        /\ r.receipts = x.receipts /\ SameRoom(x, r) /\ r.retired = x.retired
        /\ r.nextIndexToDeliver = q.nextIndexToDeliver + 1
        /\ r.tracked = CountSend(q, s) /\ q.tracked = x.tracked
    <3>1. IsBuffer(q)
      BY <2>4 DEF Moved
    <3>2. /\ r.isRunning = q.isRunning /\ r.nextSeqNum = q.nextSeqNum
          /\ r.receipts = q.receipts /\ SameRoom(q, r) /\ r.retired = q.retired
          /\ r.nextIndexToDeliver = q.nextIndexToDeliver + 1
          /\ r.tracked = CountSend(q, s)
      BY ZenonT(40), <2>1, <3>1 DEF SameRoom, HandOff, IsBuffer, BufferFields, NewAckBuffer
    <3> QED BY <2>4, <3>2 DEF Moved, SameRoom
  <2>6. LooksSame(x, r)
    BY <2>5 DEF LooksSame, SameRoom, Live, Held
  <2>7. DOMAIN r.tracked = DOMAIN x.tracked
    BY <2>5 DEF CountSend
  <2>8. Position(r) = s + 1
    BY SMTT(30), <1>2, <2>3, <2>4, <2>5 DEF Moved, SameRoom, Position
  <2>9. \A t \in Live(x) : t < s => t \in Behind(x)
    <3>1. \A t \in Live(x) : t >= Position(x) => s <= t
      BY <1>3, <2>2
    <3> QED BY <1>2, <2>3, <3>1 DEF Behind
  <2>10. Behind(r) = Behind(x) \cup ({s} \cap Live(x))
    <3>1. \A t \in Live(x) : t < s + 1 <=> t < Position(x) \/ t = s
      BY <1>2, <2>3, <2>9 DEF Behind
    <3> QED BY ZenonT(40), <2>3, <2>6, <2>8, <3>1 DEF Behind, LooksSame
  <2> QED BY <1>6, <2>3, <2>5, <2>6, <2>7, <2>8, <2>9, <2>10 DEF Sent
<1> QED BY <1>5, <1>6
-----------------------------------------------------------------------------
(* Admission, window and lifetime. *)

\* r is x with one more frame, which has a receipt or not.
Admitted(x, receipt, r) ==
  /\ r.isRunning = x.isRunning /\ r.nextSeqNum = x.nextSeqNum + 1
  /\ Live(r) = Live(x) \cup {x.nextSeqNum}
  /\ r.receipts = Append(x.receipts, IF receipt THEN "retained" ELSE "none")
  /\ r.firstSeqNum = x.firstSeqNum /\ r.nextIndexToDeliver = x.nextIndexToDeliver
  /\ Position(r) = Position(x) /\ Behind(r) = Behind(x)
  /\ Numbered(x) => Numbered(r)

\* Adding appends a frame that the connection was not given.
LEMMA AdmitEffect ==
  ASSUME NEW x, BufferType(x), NEW m, NEW size, NEW forced, NEW step,
         NEW r, r = Admit(x, m, size, forced, step)
  PROVE  Admitted(x, m.receipt, r)
<1> DEFINE slot == [seq |-> x.nextSeqNum,
                    ackRequested |-> WantsAck(x, m, size, forced, step), size |-> size]
<1>1. IsBuffer(x)
  BY DEF BufferType
<1>2. /\ x.firstSeqNum \in Nat \ {0} /\ Len(x.buff) \in Nat /\ x.nextIndexToDeliver \in Nat
      /\ x.nextSeqNum = x.firstSeqNum + Len(x.buff)
      /\ Position(x) = x.firstSeqNum + x.nextIndexToDeliver
      /\ Position(x) <= x.nextSeqNum /\ x.retired \subseteq Held(x)
  BY TypeFacts
<1>3. /\ r.isRunning = x.isRunning /\ r.nextSeqNum = x.nextSeqNum + 1
      /\ r.receipts = Append(x.receipts, IF m.receipt THEN "retained" ELSE "none")
      /\ r.firstSeqNum = x.firstSeqNum /\ r.nextIndexToDeliver = x.nextIndexToDeliver
      /\ r.retired = x.retired /\ r.buff = Append(x.buff, slot)
  BY Zenon, <1>1 DEF Admit, IsBuffer, BufferFields, NewAckBuffer
<1>4. Position(r) = Position(x)
  BY <1>3 DEF Position
<1>5. Live(r) = Live(x) \cup {x.nextSeqNum}
  <2>1. Held(r) = Held(x) \cup {x.nextSeqNum} /\ x.nextSeqNum \notin Held(x)
    <3>1. Held(r) = x.firstSeqNum .. x.nextSeqNum
      BY <1>2, <1>3 DEF Held
    <3>2. \A a, b \in Nat : a <= b => a .. b = (a .. b - 1) \cup {b} /\ b \notin a .. b - 1
      OBVIOUS
    <3>3. x.nextSeqNum \in Nat /\ x.firstSeqNum <= x.nextSeqNum /\ x.firstSeqNum \in Nat
      BY <1>2
    <3> QED BY Zenon, <3>1, <3>2, <3>3 DEF Held
  <2> QED BY <1>2, <1>3, <2>1 DEF Live
<1>6. Behind(r) = Behind(x)
  <2>1. ~(x.nextSeqNum < Position(x))
    BY <1>2
  <2> QED BY <1>4, <1>5, <2>1 DEF Behind
<1>7. ASSUME Numbered(x) PROVE Numbered(r)
  <2>1. x.buff \in Seq(SlotType)
    BY DEF BufferType, SequencesType
  <2>2. slot.seq = x.nextSeqNum
    OBVIOUS
  <2> HIDE DEF slot
  <2>3. /\ Len(Append(x.buff, slot)) = Len(x.buff) + 1
        /\ \A i \in 1 .. Len(x.buff) : Append(x.buff, slot)[i] = x.buff[i]
        /\ Append(x.buff, slot)[Len(x.buff) + 1] = slot
    BY <2>1
  <2>4. SUFFICES ASSUME NEW i \in 1 .. Len(x.buff) + 1
                 PROVE  Append(x.buff, slot)[i].seq = x.firstSeqNum + i - 1
    BY <1>3, <2>3 DEF Numbered
  <2>5. CASE i = Len(x.buff) + 1
    BY SMTT(30), <1>2, <2>2, <2>3, <2>5
  <2>6. CASE i \in 1 .. Len(x.buff)
    BY SMTT(30), <1>7, <2>3, <2>6 DEF Numbered
  <2> QED BY <1>2, <2>5, <2>6
<1> QED BY <1>3, <1>4, <1>5, <1>6, <1>7 DEF Admitted

\* r differs from x in nothing that concerns the messages.
SameFrames(x, r) ==
  /\ r.nextSeqNum = x.nextSeqNum /\ r.receipts = x.receipts
  /\ Live(r) = Live(x) /\ Behind(r) = Behind(x) /\ Position(r) = Position(x)
  /\ r.firstSeqNum = x.firstSeqNum /\ r.buff = x.buff /\ r.retired = x.retired
  /\ r.nextIndexToDeliver = x.nextIndexToDeliver
  /\ Numbered(x) => Numbered(r)

\* UpdateCapacity, Close and the release of the tracked list touch no frame.
LEMMA OthersEffect ==
  ASSUME NEW x, IsBuffer(x), NEW r
  PROVE  /\ \A cap : r = UpdateCapacity(x, cap) =>
               SameFrames(x, r) /\ r.isRunning = x.isRunning /\ r.tracked = x.tracked
         /\ r = Seal(x) \/ r = CloseBuffer(x) =>
               SameFrames(x, r) /\ r.isRunning = FALSE /\ r.tracked = x.tracked
         /\ r = ReleaseReceiptTracking(x) =>
               SameFrames(x, r) /\ r.isRunning = x.isRunning /\ DOMAIN r.tracked = {}
<1> DEFINE Same == /\ r.nextSeqNum = x.nextSeqNum /\ r.receipts = x.receipts
                   /\ r.firstSeqNum = x.firstSeqNum /\ r.buff = x.buff
                   /\ r.retired = x.retired /\ r.nextIndexToDeliver = x.nextIndexToDeliver
<1>1. Same => SameFrames(x, r)
  BY DEF SameFrames, Live, Held, Behind, Position, Numbered
<1>2. ASSUME NEW cap, r = UpdateCapacity(x, cap)
      PROVE  Same /\ r.isRunning = x.isRunning /\ r.tracked = x.tracked
  BY ZenonT(40), <1>2 DEF UpdateCapacity, IsBuffer, BufferFields, NewAckBuffer
<1>3. ASSUME r = Seal(x)
      PROVE  Same /\ r.isRunning = FALSE /\ r.tracked = x.tracked
  BY ZenonT(40), <1>3 DEF Seal, IsBuffer, BufferFields, NewAckBuffer
<1>4. ASSUME r = CloseBuffer(x)
      PROVE  Same /\ r.isRunning = FALSE /\ r.tracked = x.tracked
  BY ZenonT(40), <1>4 DEF CloseBuffer, IsBuffer, BufferFields, NewAckBuffer
<1>5. ASSUME r = ReleaseReceiptTracking(x)
      PROVE  Same /\ r.isRunning = x.isRunning /\ DOMAIN r.tracked = {}
  <2>1. Same /\ r.isRunning = x.isRunning /\ r.tracked = [s \in {} |-> 0]
    BY ZenonT(40), <1>5 DEF ReleaseReceiptTracking, IsBuffer, BufferFields, NewAckBuffer
  <2> QED BY <2>1
<1> QED BY Zenon, <1>1, <1>2, <1>3, <1>4, <1>5

-----------------------------------------------------------------------------
(* Room and requests. *)

\* The last frame that asked for an ACK, if it is still held, is live and asks.
FlagHeld(x) == HeldFlagged(x) =>
                 /\ x.lastFlaggedSeq \in Live(x)
                 /\ x.buff[x.lastFlaggedSeq - x.firstSeqNum + 1].ackRequested

\* Adding makes no room: the bytes grow and a frame that asks stays one.
LEMMA AdmitRoom ==
  ASSUME NEW x, BufferType(x), FlagHeld(x), NEW m, NEW size \in Nat, NEW forced, NEW step,
         NEW r, r = Admit(x, m, size, forced, step)
  PROVE  /\ r.isClosed = x.isClosed /\ r.buff # <<>> /\ r.bytes = x.bytes + size
         /\ HeldFlagged(x) => HeldFlagged(r)
         /\ FlagHeld(r)
<1> DEFINE ack == WantsAck(x, m, size, forced, step)
           slot == [seq |-> x.nextSeqNum, ackRequested |-> ack, size |-> size]
<1>1. IsBuffer(x) /\ x.buff \in Seq(SlotType) /\ x.lastFlaggedSeq \in Nat
  BY DEF BufferType, SequencesType, BytesType
<1>2. /\ x.firstSeqNum \in Nat \ {0} /\ Len(x.buff) \in Nat /\ x.nextSeqNum \in Nat \ {0}
      /\ x.nextSeqNum = x.firstSeqNum + Len(x.buff)
  BY TypeFacts
<1>3. /\ r.isClosed = x.isClosed /\ r.bytes = x.bytes + size
      /\ r.firstSeqNum = x.firstSeqNum /\ r.buff = Append(x.buff, slot)
      /\ r.lastFlaggedSeq = IF ack THEN x.nextSeqNum ELSE x.lastFlaggedSeq
  BY Zenon, <1>1 DEF Admit, IsBuffer, BufferFields, NewAckBuffer
<1>4. Live(r) = Live(x) \cup {x.nextSeqNum}
  BY AdmitEffect DEF Admitted
<1>5. slot.ackRequested = ack
  OBVIOUS
<1> HIDE DEF ack, slot
<1>6. /\ Append(x.buff, slot) # <<>>
      /\ \A i \in 1 .. Len(x.buff) : Append(x.buff, slot)[i] = x.buff[i]
      /\ Append(x.buff, slot)[Len(x.buff) + 1] = slot
  BY <1>1
<1>7. CASE ack
  <2>1. HeldFlagged(r) /\ r.lastFlaggedSeq - r.firstSeqNum + 1 = Len(x.buff) + 1
    BY <1>2, <1>3, <1>7 DEF HeldFlagged
  <2> QED BY ZenonT(40), <1>3, <1>4, <1>5, <1>6, <1>7, <2>1 DEF FlagHeld
<1>8. CASE ~ack
  <2>1. HeldFlagged(r) <=> HeldFlagged(x)
    BY <1>3, <1>8 DEF HeldFlagged
  <2>2. ASSUME HeldFlagged(x)
        PROVE  x.lastFlaggedSeq - x.firstSeqNum + 1 \in 1 .. Len(x.buff)
    BY SMTT(30), <1>1, <1>2, <2>2 DEF FlagHeld, Live, Held
  <2> QED BY SMTT(30), <1>3, <1>4, <1>6, <1>8, <2>1, <2>2 DEF FlagHeld
<1> QED BY SMTT(30), <1>3, <1>6, <1>7, <1>8

\* Removing a prefix leaves the last frame that asked, or removes it.
LEMMA PrefixFlag ==
  ASSUME NEW x, BufferType(x), FlagHeld(x), NEW n \in Nat \ {0}, n <= Len(x.buff),
         NEW acknowledge \in BOOLEAN, NEW r, PrefixRemoved(x, n, acknowledge, r)
  PROVE  FlagHeld(r)
<1>1. x.buff \in Seq(SlotType) /\ x.lastFlaggedSeq \in Nat
  BY DEF BufferType, SequencesType, BytesType
<1>2. /\ x.firstSeqNum \in Nat \ {0} /\ Len(x.buff) \in Nat
      /\ x.nextSeqNum = x.firstSeqNum + Len(x.buff)
  BY SMTT(30), TypeFacts
<1>3. /\ r.firstSeqNum = x.firstSeqNum + n /\ r.lastFlaggedSeq = x.lastFlaggedSeq
      /\ r.buff = SubSeq(x.buff, n + 1, Len(x.buff))
  BY DEF PrefixRemoved
<1>4. Live(r) = {t \in Live(x) : t >= x.firstSeqNum + n}
  BY PrefixEffect
<1>5. SUFFICES ASSUME HeldFlagged(r)
               PROVE  /\ r.lastFlaggedSeq \in Live(r)
                      /\ r.buff[r.lastFlaggedSeq - r.firstSeqNum + 1].ackRequested
  BY DEF FlagHeld
<1>6. HeldFlagged(x) /\ x.lastFlaggedSeq >= x.firstSeqNum + n
  BY SMTT(30), <1>1, <1>2, <1>3, <1>5 DEF HeldFlagged
<1>7. x.lastFlaggedSeq \in Live(x) /\ x.lastFlaggedSeq < x.nextSeqNum
  BY <1>2, <1>6 DEF FlagHeld, Live, Held
<1> DEFINE i == x.lastFlaggedSeq - (x.firstSeqNum + n) + 1
<1>8. i \in 1 .. Len(x.buff) - n /\ n + i = x.lastFlaggedSeq - x.firstSeqNum + 1
  BY SMTT(30), <1>1, <1>2, <1>6, <1>7
<1> HIDE DEF i
<1>9. SubSeq(x.buff, n + 1, Len(x.buff))[i] = x.buff[n + i]
  <2>1. \A j \in n + 1 .. Len(x.buff) : x.buff[j] \in SlotType
    BY <1>1, <1>2, ElementOfSeq
  <2>2. SubSeq(x.buff, n + 1, Len(x.buff))[i] = x.buff[n + 1 + i - 1]
    BY <1>2, <1>8, <2>1, SubSeqProperties
  <2>3. n + 1 + i - 1 = n + i
    BY <1>8
  <2> QED BY ZenonT(40), <2>2, <2>3
<1>10. r.lastFlaggedSeq - r.firstSeqNum + 1 = i
  BY <1>3 DEF i
<1> QED BY SMTT(30), <1>3, <1>4, <1>6, <1>7, <1>8, <1>9, <1>10 DEF FlagHeld

\* releaseRetiredHeadLocked takes no frame that asked.
LEMMA ReleaseFlag ==
  ASSUME NEW x, BufferType(x), FlagHeld(x), NEW r, r = ReleaseRetiredHead(x)
  PROVE  FlagHeld(r)
<1> DEFINE n == RetiredHead(x)
           q == RemovePrefix(x, n, FALSE)
<1>1. CASE x.retired = {} \/ n = 0
  BY Zenon, <1>1 DEF ReleaseRetiredHead
<1>2. CASE ~(x.retired = {} \/ n = 0)
  <2>1. n \in Nat \ {0} /\ n <= Len(x.buff)
    BY <1>2, RetiredHeadIs, TypeFacts
  <2>2. PrefixRemoved(x, n, FALSE, q)
    BY Zenon, RemovePrefixFields
  <2>3. r = [q EXCEPT !.releasedRetired = Remember(@, x.firstSeqNum, n)]
    BY <1>2 DEF ReleaseRetiredHead
  <2>4. FlagHeld(q)
    BY Zenon, <2>1, <2>2, PrefixFlag
  <2> HIDE DEF q, n
  <2>5. /\ r.nextSeqNum = q.nextSeqNum /\ r.firstSeqNum = q.firstSeqNum
        /\ r.retired = q.retired /\ r.buff = q.buff
        /\ r.lastFlaggedSeq = q.lastFlaggedSeq
    <3>1. IsBuffer(q)
      BY <2>2 DEF PrefixRemoved
    <3> QED BY Zenon, <2>3, <3>1 DEF IsBuffer, BufferFields, NewAckBuffer
  <2> QED BY <2>4, <2>5 DEF FlagHeld, HeldFlagged, Live, Held
<1> QED BY <1>1, <1>2

\* Ack keeps the last frame that asked unless it acknowledges it.
LEMMA AckFlag ==
  ASSUME NEW x, BufferType(x), FlagHeld(x), NEW seq, NEW r, r = Ack(x, seq)
  PROVE  FlagHeld(r)
<1> DEFINE n == seq - x.firstSeqNum + 1
           q == RemovePrefix(x, n, TRUE)
<1>1. CASE LateAckTolerated(x, seq) \/ ~AckAccepted(x, seq)
  BY Zenon, <1>1 DEF Ack
<1>2. CASE ~(LateAckTolerated(x, seq) \/ ~AckAccepted(x, seq))
  <2>1. r = ReleaseRetiredHead(q)
    BY <1>2 DEF Ack
  <2>2. n \in Nat \ {0} /\ n <= Len(x.buff)
    BY SMTT(30), <1>2, TypeFacts DEF AckAccepted
  <2>3. PrefixRemoved(x, n, TRUE, q)
    BY Zenon, RemovePrefixFields
  <2>4. BufferType(q)
    BY Zenon, <2>2, <2>3, RemovePrefixType
  <2>5. FlagHeld(q)
    BY Zenon, <2>2, <2>3, PrefixFlag
  <2> HIDE DEF q, n
  <2> QED BY SMTT(30), <2>1, <2>4, <2>5, ReleaseFlag
<1> QED BY <1>1, <1>2

\* Retiring frames clears the last one that asked if it is one of them.
LEMMA RetireFlag ==
  ASSUME NEW x, BufferType(x), FlagHeld(x), NEW S, NEW r, FramesRetired(x, S, r)
  PROVE  FlagHeld(r)
<1>1. /\ x.firstSeqNum \in Nat \ {0} /\ Len(x.buff) \in Nat
      /\ x.nextSeqNum = x.firstSeqNum + Len(x.buff) /\ DOMAIN x.buff = 1 .. Len(x.buff)
      /\ x.lastFlaggedSeq \in Nat
  BY TypeFacts DEF BufferType, BytesType, SequencesType
<1>2. /\ r.firstSeqNum = x.firstSeqNum /\ r.nextSeqNum = x.nextSeqNum
      /\ r.retired = x.retired \cup S /\ r.lastFlaggedSeq = FlagAfterRetire(x, S)
  BY DEF FramesRetired
<1>3. r.buff = [i \in DOMAIN x.buff |->
                  IF x.firstSeqNum + i - 1 \in S
                  THEN [seq |-> x.firstSeqNum + i - 1, ackRequested |-> FALSE, size |-> 0]
                  ELSE x.buff[i]]
  BY Zenon DEF FramesRetired
<1>4. SUFFICES ASSUME HeldFlagged(r)
               PROVE  /\ r.lastFlaggedSeq \in Live(r)
                      /\ r.buff[r.lastFlaggedSeq - r.firstSeqNum + 1].ackRequested
  BY DEF FlagHeld
<1>5. r.lastFlaggedSeq = x.lastFlaggedSeq /\ x.lastFlaggedSeq \notin S /\ HeldFlagged(x)
  BY <1>2, <1>4 DEF HeldFlagged, FlagAfterRetire
<1>6. x.lastFlaggedSeq \in Live(x)
  BY <1>5 DEF FlagHeld
<1> DEFINE i == x.lastFlaggedSeq - x.firstSeqNum + 1
<1>7. i \in DOMAIN x.buff /\ x.firstSeqNum + i - 1 = x.lastFlaggedSeq
  BY <1>1, <1>6 DEF Live, Held
<1>8. r.lastFlaggedSeq - r.firstSeqNum + 1 = i
  BY <1>2, <1>5
<1>9. x.buff[i].ackRequested
  BY <1>5 DEF FlagHeld
<1> HIDE DEF i
<1>10. r.buff[i] = x.buff[i]
  BY SMTT(30), <1>3, <1>5, <1>7
<1>11. x.lastFlaggedSeq \in Live(r)
  BY SMTT(30), <1>2, <1>5, <1>6 DEF Live, Held
<1> QED BY SMTT(30), <1>5, <1>8, <1>9, <1>10, <1>11

\* ResetDelivery keeps the last frame that asked unless it retires it, and makes
\* no room unless it retires a frame.
LEMMA ResetRoom ==
  ASSUME NEW x, NEW lg, Core(x, lg), LiveHead(x), FlagHeld(x),
         NEW r, r = ResetDelivery(x),
         NEW spent, spent = {s \in DOMAIN x.tracked \ x.retired : Exhausted(x, s)}
  PROVE  FlagHeld(r) /\ (spent = {} => SameRoom(x, r))
<1> DEFINE q == StartOver(x)
           y == Retire(q, spent)
           z == ReleaseRetiredHead(y)
<1>1. r = [z EXCEPT !.isReadyToDeliver = ReadyAfterReset(z)]
  BY Zenon DEF ResetDelivery, StartOver
<1>2. BufferType(x)
  BY DEF Core
<1>3. AtFront(x, q) /\ Core(q, lg) /\ Live(q) = Live(x)
  BY Zenon, StartOverKeeps
<1>4. \A s \in DOMAIN x.tracked : Exhausted(q, s) <=> Exhausted(x, s)
  BY <1>3 DEF Exhausted, AtFront
<1> HIDE DEF q
<1>5. spent \subseteq DOMAIN q.tracked \ q.retired /\ \A s \in spent : Exhausted(q, s)
  BY <1>3, <1>4 DEF AtFront
<1>6. Core(y, lg) /\ FramesRetired(q, spent, y) /\ Live(y) = Live(q) \ spent
  BY Zenon, <1>3, <1>5, RetireKeeps
<1> HIDE DEF y
<1>7. BufferType(y)
  BY SMTT(30), <1>6 DEF Core
<1>8. IsBuffer(z)
  BY SMTT(30), <1>6, ReleaseKeeps DEF Core, BufferType
<1>9. /\ y.firstSeqNum = x.firstSeqNum /\ y.nextSeqNum = x.nextSeqNum
      /\ y.isClosed = x.isClosed /\ y.isAvailable = x.isAvailable
      /\ y.retired = x.retired \cup spent
      /\ y.bytes = BytesAfterRemoval(q, spent) /\ q.bytes = x.bytes
      /\ y.lastFlaggedSeq = IF x.lastFlaggedSeq \in spent THEN 0 ELSE x.lastFlaggedSeq
      /\ y.buff = [i \in DOMAIN x.buff |->
                     IF x.firstSeqNum + i - 1 \in spent
                     THEN [seq |-> x.firstSeqNum + i - 1, ackRequested |-> FALSE, size |-> 0]
                     ELSE x.buff[i]]
  <2>1. /\ q.firstSeqNum = x.firstSeqNum /\ q.nextSeqNum = x.nextSeqNum
        /\ q.isClosed = x.isClosed /\ q.isAvailable = x.isAvailable
        /\ q.retired = x.retired /\ q.bytes = x.bytes /\ q.buff = x.buff
        /\ q.lastFlaggedSeq = x.lastFlaggedSeq
    BY <1>3 DEF AtFront
  <2>2. /\ y.firstSeqNum = q.firstSeqNum /\ y.nextSeqNum = q.nextSeqNum
        /\ y.isClosed = q.isClosed /\ y.isAvailable = q.isAvailable
        /\ y.retired = q.retired \cup spent /\ y.bytes = BytesAfterRemoval(q, spent)
        /\ y.lastFlaggedSeq = FlagAfterRetire(q, spent)
    BY <1>6 DEF FramesRetired
  <2>3. y.buff = [i \in DOMAIN q.buff |->
                    IF q.firstSeqNum + i - 1 \in spent
                    THEN [seq |-> q.firstSeqNum + i - 1, ackRequested |-> FALSE, size |-> 0]
                    ELSE q.buff[i]]
    BY Zenon, <1>6 DEF FramesRetired
  <2>4. y.lastFlaggedSeq = IF x.lastFlaggedSeq \in spent THEN 0 ELSE x.lastFlaggedSeq
    BY SMTT(30), <2>1, <2>2 DEF FlagAfterRetire
  <2> QED BY SMTT(30), <2>1, <2>2, <2>3, <2>4
<1>10. /\ x.firstSeqNum \in Nat \ {0} /\ Len(x.buff) \in Nat
       /\ x.nextSeqNum = x.firstSeqNum + Len(x.buff) /\ DOMAIN x.buff = 1 .. Len(x.buff)
       /\ x.lastFlaggedSeq \in Nat /\ x.bytes \in Nat /\ x.buff \in Seq(SlotType)
  BY <1>2, TypeFacts DEF BufferType, BytesType, SequencesType
<1>11. FlagHeld(y)
  <2>1. BufferType(q) /\ FlagHeld(q)
    BY <1>3 DEF Core, AtFront, FlagHeld, HeldFlagged
  <2> QED BY Zenon, <1>6, <2>1, RetireFlag
<1>12. FlagHeld(z)
  BY Zenon, <1>7, <1>11, ReleaseFlag
<1>13. ASSUME spent = {} PROVE SameRoom(x, z)
  <2>1. y.buff = x.buff
    <3>1. y.buff = [i \in DOMAIN x.buff |-> x.buff[i]]
      BY <1>9, <1>13
    <3>2. x.buff = [i \in DOMAIN x.buff |-> x.buff[i]]
      BY <1>10, LenProperties
    <3> QED BY <3>1, <3>2
  <2>2. y.bytes = x.bytes
    <3>1. ChargeOf(q, {}) = 0
      BY NoCharge
    <3>2. 0 \in 0 .. x.bytes /\ x.bytes - 0 = x.bytes
      BY <1>10
    <3> QED BY Zenon, <1>9, <1>13, <3>1, <3>2 DEF BytesAfterRemoval, Monus
  <2>3. RetiredHead(y) = 0 \/ y.retired = {}
    <3>1. y.retired = x.retired /\ x.retired \subseteq Held(x)
      BY SMTT(30), <1>2, <1>9, <1>13, TypeFacts
    <3>2. CASE Len(x.buff) = 0
      BY SMTT(30), <1>10, <3>1, <3>2 DEF Held
    <3>3. CASE Len(x.buff) > 0
      <4>1. y.firstSeqNum \notin y.retired
        BY SMTT(30), <1>9, <3>1, <3>3 DEF LiveHead
      <4>2. Gone(y, RetiredHead(y)) \subseteq y.retired /\ RetiredHead(y) \in Nat
        BY SMTT(30), <1>7, RetiredHeadIs, TypeFacts
      <4>3. y.firstSeqNum \in Nat
        BY <1>9, <1>10
      <4>4. RetiredHead(y) > 0 => y.firstSeqNum \in Gone(y, RetiredHead(y))
        BY <4>2, <4>3 DEF Gone
      <4> QED BY SMTT(30), <4>1, <4>2, <4>4
    <3> QED BY SMTT(30), <1>10, <3>2, <3>3
  <2>4. z = y
    BY Zenon, <2>3 DEF ReleaseRetiredHead
  <2> QED BY SMTT(30), <1>9, <1>13, <2>1, <2>2, <2>4 DEF SameRoom
<1> HIDE DEF z
<1>14. /\ r.nextSeqNum = z.nextSeqNum /\ r.firstSeqNum = z.firstSeqNum
       /\ r.retired = z.retired /\ r.buff = z.buff /\ r.bytes = z.bytes
       /\ r.isClosed = z.isClosed /\ r.isAvailable = z.isAvailable
       /\ r.lastFlaggedSeq = z.lastFlaggedSeq
  BY Zenon, <1>1, <1>8 DEF IsBuffer, BufferFields, NewAckBuffer
<1>15. FlagHeld(r)
  BY <1>12, <1>14 DEF FlagHeld, HeldFlagged, Live, Held
<1> QED BY <1>13, <1>14, <1>15 DEF SameRoom

\* Windows, sealing, closing and dropping the tracked list leave the last frame
\* that asked; the last makes no room.
LEMMA OthersRoom ==
  ASSUME NEW x, IsBuffer(x), FlagHeld(x), NEW r
  PROVE  /\ \A cap : r = UpdateCapacity(x, cap) => FlagHeld(r)
         /\ r = Seal(x) \/ r = CloseBuffer(x) => FlagHeld(r)
         /\ r = ReleaseReceiptTracking(x) => FlagHeld(r) /\ SameRoom(x, r)
<1> DEFINE Same == /\ r.nextSeqNum = x.nextSeqNum /\ r.lastFlaggedSeq = x.lastFlaggedSeq
                   /\ r.firstSeqNum = x.firstSeqNum /\ r.buff = x.buff
                   /\ r.retired = x.retired
<1>1. Same => FlagHeld(r)
  BY DEF FlagHeld, HeldFlagged, Live, Held
<1>2. ASSUME NEW cap, r = UpdateCapacity(x, cap) PROVE Same
  BY ZenonT(40), <1>2 DEF UpdateCapacity, IsBuffer, BufferFields, NewAckBuffer
<1>3. ASSUME r = Seal(x) PROVE Same
  BY ZenonT(40), <1>3 DEF Seal, IsBuffer, BufferFields, NewAckBuffer
<1>4. ASSUME r = CloseBuffer(x) PROVE Same
  BY ZenonT(40), <1>4 DEF CloseBuffer, IsBuffer, BufferFields, NewAckBuffer
<1>5. ASSUME r = ReleaseReceiptTracking(x)
      PROVE  /\ Same /\ r.isClosed = x.isClosed /\ r.isAvailable = x.isAvailable
             /\ r.bytes = x.bytes
  BY ZenonT(40), <1>5 DEF ReleaseReceiptTracking, IsBuffer, BufferFields, NewAckBuffer
<1> QED BY SMTT(30), <1>1, <1>2, <1>3, <1>4, <1>5 DEF SameRoom

-----------------------------------------------------------------------------
(* Bytes. *)

\* bytes is what the slots hold, and 0 after Close.
Charged(x) == x.bytes = IF x.isClosed THEN 0 ELSE ChargeOf(x, Held(x))

\* Above the cap, the last frame that asked is held and alone accounts for it.
Over(x) == MaxBytes # 0 /\ x.bytes > MaxBytes =>
             HeldFlagged(x) /\ x.bytes - SizeAt(x, x.lastFlaggedSeq) <= MaxBytes

\* A closed buffer takes no more frames.
Shut(x) == x.isClosed => ~x.isRunning

\* The byte accounts of a buffer.
Weighed(x) == Charged(x) /\ Over(x) /\ FlagHeld(x) /\ Shut(x)

\* r is x with the bytes of S returned.
Lightened(x, S, r) ==
  /\ S \subseteq Held(x) /\ Held(x) \ S \subseteq Held(r) /\ Held(r) \subseteq Held(x)
  /\ r.isRunning = x.isRunning /\ r.isClosed = x.isClosed
  /\ r.bytes = BytesAfterRemoval(x, S)
  /\ \A s \in Held(x) \ S : SizeAt(r, s) = SizeAt(x, s)
  /\ \A s \in Held(r) \cap S : SizeAt(r, s) = 0
  /\ x.lastFlaggedSeq \notin S => r.lastFlaggedSeq = x.lastFlaggedSeq

\* Every held slot has a size.
LEMMA HeldSized ==
  ASSUME NEW x, BufferType(x)
  PROVE  Sized(x, Held(x))
<1>1. /\ x.firstSeqNum \in Nat \ {0} /\ Len(x.buff) \in Nat
      /\ x.nextSeqNum = x.firstSeqNum + Len(x.buff) /\ x.buff \in Seq(SlotType)
  BY TypeFacts DEF BufferType, SequencesType
<1>2. IsFiniteSet(Held(x))
  BY SMTT(30), <1>1, FS_Interval DEF Held
<1>3. ASSUME NEW s \in Held(x) PROVE SizeAt(x, s) \in Nat
  <2>1. s - x.firstSeqNum + 1 \in 1 .. Len(x.buff)
    BY <1>1 DEF Held
  <2>2. x.buff[s - x.firstSeqNum + 1] \in SlotType
    BY SMTT(30), <1>1, <2>1, ElementOfSeq
  <2> QED BY <2>2 DEF SlotType, SizeAt
<1> QED BY SMTT(30), <1>2, <1>3 DEF Sized

\* r weighs what x weighs.
SameWeight(x, r) ==
  /\ r.firstSeqNum = x.firstSeqNum /\ r.nextSeqNum = x.nextSeqNum /\ r.buff = x.buff
  /\ r.bytes = x.bytes /\ r.isClosed = x.isClosed /\ r.retired = x.retired
  /\ r.lastFlaggedSeq = x.lastFlaggedSeq /\ (r.isRunning => x.isRunning)

\* A method that leaves the slots, the bytes and the requests alone keeps the
\* byte accounts.
LEMMA SameWeightKeeps ==
  ASSUME NEW x, BufferType(x), Weighed(x), NEW r, SameWeight(x, r)
  PROVE  Weighed(r)
<1>1. Held(r) = Held(x) /\ Live(r) = Live(x) /\ (HeldFlagged(r) <=> HeldFlagged(x))
  BY DEF SameWeight, Held, Live, HeldFlagged
<1>2. FlagHeld(r)
  BY <1>1 DEF SameWeight, Weighed, FlagHeld
<1>3. IsFiniteSet(Held(x)) /\ \A s : SizeAt(r, s) = SizeAt(x, s)
  BY HeldSized DEF Sized, SameWeight, SizeAt
<1>4. ChargeOf(r, Held(r)) = ChargeOf(x, Held(x))
  BY SMTT(30), <1>1, <1>3, ChargeSame
<1>5. Charged(r)
  BY <1>4 DEF SameWeight, Weighed, Charged
<1>6. SizeAt(r, r.lastFlaggedSeq) = SizeAt(x, x.lastFlaggedSeq)
  BY <1>3 DEF SameWeight
<1>7. Over(r)
  BY <1>1, <1>6 DEF SameWeight, Weighed, Over
<1> QED BY SMTT(30), <1>2, <1>5, <1>7 DEF Weighed, Shut, SameWeight

\* Returning the bytes of slots keeps the account, and the overshoot within one
\* message.
LEMMA LightenedKeeps ==
  ASSUME NEW x, BufferType(x), Weighed(x), NEW S, NEW r, Lightened(x, S, r)
  PROVE  Charged(r) /\ Over(r) /\ Shut(r)
<1> DEFINE A == Held(x) \ S
           c == ChargeOf(x, S)
           d == ChargeOf(x, A)
<1>1. Sized(x, Held(x)) /\ IsFiniteSet(Held(x)) /\ S \subseteq Held(x) /\ x.bytes \in Nat
      /\ MaxBytes \in Nat
  BY SMTT(30), HeldSized, ConstantsAssumption DEF Sized, Lightened, BufferType, BytesType
<1>2. /\ c \in Nat /\ d \in Nat
      /\ ChargeOf(x, Held(x)) = c + d
  BY <1>1, ChargeParts
<1>3. ChargeOf(r, Held(r)) = d
  <2>1. Sized(r, Held(r)) /\ IsFiniteSet(A) /\ IsFiniteSet(Held(r) \ A)
    <3>1. IsFiniteSet(Held(r)) /\ IsFiniteSet(A) /\ IsFiniteSet(Held(r) \ A)
      BY <1>1, FS_Subset DEF Lightened
    <3>2. \A s \in Held(r) : s \in A \/ s \in Held(r) \cap S
      BY DEF Lightened
    <3>3. \A s \in Held(r) : SizeAt(r, s) \in Nat
      BY SMTT(30), <1>1, <3>2 DEF Lightened, Sized
    <3> QED BY SMTT(30), <3>1, <3>3 DEF Sized
  <2>2. A \subseteq Held(r)
    BY DEF Lightened
  <2>3. ChargeOf(r, Held(r)) = ChargeOf(r, A) + ChargeOf(r, Held(r) \ A)
    <3> HIDE DEF A
    <3> QED BY SMTT(30), <2>1, <2>2, ChargeParts
  <2>4. ChargeOf(r, A) = d
    <3>1. \A s \in A : SizeAt(r, s) = SizeAt(x, s)
      BY DEF Lightened
    <3> HIDE DEF A
    <3> QED BY Zenon, <2>1, <3>1, ChargeSame
  <2>5. ChargeOf(r, Held(r) \ A) = 0
    <3>1. \A s \in Held(r) \ A : SizeAt(r, s) = 0
      BY DEF Lightened
    <3> HIDE DEF A
    <3> QED BY Zenon, <2>1, <3>1, ChargeZero
  <2> HIDE DEF d
  <2> QED BY SMTT(30), <1>2, <2>3, <2>4, <2>5
<1>4. r.isClosed = x.isClosed /\ r.bytes = Monus(x.bytes, c)
  BY DEF Lightened, BytesAfterRemoval
<1> HIDE DEF c, d
<1>5. Charged(r)
  <2>1. CASE x.isClosed
    BY SMTT(30), <1>2, <1>4, <2>1 DEF Weighed, Charged, Monus
  <2>2. CASE ~x.isClosed
    BY SMTT(30), <1>2, <1>3, <1>4, <2>2 DEF Weighed, Charged, Monus
  <2> QED BY <2>1, <2>2
<1>6. Over(r)
  <2>1. SUFFICES ASSUME MaxBytes # 0, r.bytes > MaxBytes
                 PROVE  HeldFlagged(r) /\ r.bytes - SizeAt(r, r.lastFlaggedSeq) <= MaxBytes
    BY DEF Over
  <2>2. r.bytes = x.bytes - c /\ c <= x.bytes /\ x.bytes > MaxBytes
    BY SMTT(30), <1>1, <1>2, <1>4, <2>1 DEF Monus
  <2> DEFINE f == x.lastFlaggedSeq
             k == SizeAt(x, f)
  <2>3. HeldFlagged(x) /\ x.bytes - k <= MaxBytes /\ f \in Held(x) /\ k \in Nat
    <3>1. HeldFlagged(x) /\ x.bytes - k <= MaxBytes
      BY SMTT(30), <2>1, <2>2 DEF Weighed, Over
    <3>2. f \in Held(x)
      BY <3>1 DEF Weighed, FlagHeld, Live
    <3> QED BY SMTT(30), <1>1, <3>1, <3>2 DEF Sized
  <2>4. f \notin S
    <3>1. SUFFICES ASSUME f \in S PROVE FALSE
      OBVIOUS
    <3>2. Sized(x, S) /\ {f} \subseteq S
      BY SMTT(30), <1>1, <3>1, FS_Subset DEF Sized
    <3>3. /\ ChargeOf(x, S) = ChargeOf(x, {f}) + ChargeOf(x, S \ {f})
          /\ ChargeOf(x, S \ {f}) \in Nat
      BY SMTT(30), <3>2, ChargeParts
    <3>4. ChargeOf(x, {f}) = k
      BY SMTT(30), <2>3, ChargeOne
    <3> HIDE DEF k
    <3> QED BY SMTT(30), <1>1, <1>2, <2>1, <2>2, <2>3, <3>3, <3>4 DEF c
  <2>5. r.lastFlaggedSeq = f /\ f \in Held(r) /\ SizeAt(r, f) = k
    BY <2>3, <2>4 DEF Lightened
  <2>6. HeldFlagged(r)
    <3>1. f # 0 /\ f >= r.firstSeqNum
      BY <2>3, <2>5 DEF HeldFlagged, Held
    <3> QED BY <2>5, <3>1 DEF HeldFlagged
  <2> HIDE DEF k, f
  <2> QED BY SMTT(30), <1>1, <1>2, <2>2, <2>3, <2>5, <2>6
<1> QED BY SMTT(30), <1>5, <1>6 DEF Lightened, Weighed, Shut

\* Removing a prefix returns its bytes.
LEMMA PrefixWeighs ==
  ASSUME NEW x, BufferType(x), Weighed(x), NEW n \in Nat \ {0}, n <= Len(x.buff),
         NEW acknowledge \in BOOLEAN, NEW r, PrefixRemoved(x, n, acknowledge, r)
  PROVE  Weighed(r)
<1>1. /\ x.firstSeqNum \in Nat \ {0} /\ Len(x.buff) \in Nat
      /\ x.nextSeqNum = x.firstSeqNum + Len(x.buff) /\ x.buff \in Seq(SlotType)
  BY SMTT(30), TypeFacts DEF BufferType, SequencesType
<1>2. /\ r.firstSeqNum = x.firstSeqNum + n /\ r.lastFlaggedSeq = x.lastFlaggedSeq
      /\ r.nextSeqNum = x.nextSeqNum /\ r.isClosed = x.isClosed
      /\ r.isRunning = x.isRunning /\ r.buff = SubSeq(x.buff, n + 1, Len(x.buff))
      /\ r.bytes = BytesAfterRemoval(x, Gone(x, n))
  BY DEF PrefixRemoved
<1>3. Held(r) = Held(x) \ Gone(x, n) /\ Gone(x, n) \subseteq Held(x)
  BY SMTT(30), <1>2, GoneIs
<1>4. ASSUME NEW s \in Held(r) PROVE SizeAt(r, s) = SizeAt(x, s)
  <2> DEFINE i == s - r.firstSeqNum + 1
  <2>1. i \in 1 .. Len(x.buff) - n /\ n + 1 + i - 1 = s - x.firstSeqNum + 1
    <3>1. s \in x.firstSeqNum + n .. x.firstSeqNum + Len(x.buff) - 1
      <4>1. s \in x.firstSeqNum + n .. x.nextSeqNum - 1
        BY Zenon, <1>2 DEF Held
      <4> QED BY SMTT(30), <1>1, <4>1
    <3>2. i = s - (x.firstSeqNum + n) + 1
      BY Zenon, <1>2
    <3>3. \A a, l, b : /\ a \in Nat /\ l \in Nat /\ b \in a + n .. a + l - 1
                      => /\ b - (a + n) + 1 \in 1 .. l - n
                         /\ n + 1 + (b - (a + n) + 1) - 1 = b - a + 1
      OBVIOUS
    <3>4. /\ s - (x.firstSeqNum + n) + 1 \in 1 .. Len(x.buff) - n
          /\ n + 1 + (s - (x.firstSeqNum + n) + 1) - 1 = s - x.firstSeqNum + 1
      <4>1. x.firstSeqNum \in Nat /\ Len(x.buff) \in Nat
        BY SMTT(30), <1>1
      <4> QED BY Zenon, <3>1, <3>3, <4>1
    <3> HIDE DEF i
    <3> QED BY Zenon, <3>2, <3>4
  <2> HIDE DEF i
  <2>2. \A j \in n + 1 .. Len(x.buff) : x.buff[j] \in SlotType
    BY SMTT(30), <1>1, ElementOfSeq
  <2>3. r.buff[i] = x.buff[n + 1 + i - 1]
    BY SMTT(30), <1>1, <1>2, <2>1, <2>2, SubSeqProperties
  <2> QED BY <2>1, <2>3 DEF SizeAt, i
<1>5. Lightened(x, Gone(x, n), r)
  BY SMTT(30), <1>2, <1>3, <1>4 DEF Lightened
<1>6. FlagHeld(r)
  BY SMTT(30), PrefixFlag DEF Weighed
<1> QED BY SMTT(30), <1>5, <1>6, LightenedKeeps DEF Weighed
\* releaseRetiredHeadLocked gives back nothing more.
LEMMA ReleaseWeighs ==
  ASSUME NEW x, BufferType(x), Weighed(x), NEW r, r = ReleaseRetiredHead(x)
  PROVE  Weighed(r)
<1> DEFINE n == RetiredHead(x)
           q == RemovePrefix(x, n, FALSE)
<1>1. CASE x.retired = {} \/ n = 0
  BY Zenon, <1>1 DEF ReleaseRetiredHead
<1>2. CASE ~(x.retired = {} \/ n = 0)
  <2>1. n \in Nat \ {0} /\ n <= Len(x.buff)
    BY <1>2, RetiredHeadIs, TypeFacts
  <2>2. PrefixRemoved(x, n, FALSE, q)
    BY Zenon, RemovePrefixFields
  <2>3. r = [q EXCEPT !.releasedRetired = Remember(@, x.firstSeqNum, n)]
    BY <1>2 DEF ReleaseRetiredHead
  <2>4. Weighed(q)
    BY Zenon, <2>1, <2>2, PrefixWeighs
  <2>5. IsBuffer(q)
    BY Zenon, <2>2 DEF PrefixRemoved
  <2>6. BufferType(q)
    BY Zenon, <2>1, <2>2, RemovePrefixType
  <2> HIDE DEF q, n
  <2>7. SameWeight(q, r)
    BY Zenon, <2>3, <2>5 DEF IsBuffer, BufferFields, NewAckBuffer, SameWeight
  <2> QED BY SMTT(30), <2>4, <2>6, <2>7, SameWeightKeeps
<1> QED BY <1>1, <1>2

\* Ack gives back what it removes.
LEMMA AckWeighs ==
  ASSUME NEW x, BufferType(x), Weighed(x), NEW seq, NEW r, r = Ack(x, seq)
  PROVE  Weighed(r)
<1> DEFINE n == seq - x.firstSeqNum + 1
           q == RemovePrefix(x, n, TRUE)
<1>1. CASE LateAckTolerated(x, seq) \/ ~AckAccepted(x, seq)
  BY Zenon, <1>1 DEF Ack
<1>2. CASE ~(LateAckTolerated(x, seq) \/ ~AckAccepted(x, seq))
  <2>1. r = ReleaseRetiredHead(q)
    BY <1>2 DEF Ack
  <2>2. n \in Nat \ {0} /\ n <= Len(x.buff)
    BY <1>2, TypeFacts DEF AckAccepted
  <2>3. PrefixRemoved(x, n, TRUE, q)
    BY Zenon, RemovePrefixFields
  <2>4. BufferType(q) /\ Weighed(q)
    BY Zenon, <2>2, <2>3, RemovePrefixType, PrefixWeighs
  <2> HIDE DEF q, n
  <2> QED BY SMTT(30), <2>1, <2>4, ReleaseWeighs
<1> QED BY <1>1, <1>2

\* retireLocked gives back what it retires.
LEMMA RetireWeighs ==
  ASSUME NEW x, BufferType(x), Weighed(x), NEW S, S \subseteq Held(x),
         NEW r, FramesRetired(x, S, r)
  PROVE  Charged(r) /\ Over(r) /\ Shut(r)
<1>1. /\ x.firstSeqNum \in Nat \ {0} /\ Len(x.buff) \in Nat
      /\ x.nextSeqNum = x.firstSeqNum + Len(x.buff) /\ DOMAIN x.buff = 1 .. Len(x.buff)
  BY SMTT(30), TypeFacts DEF BufferType, SequencesType
<1>2. /\ r.firstSeqNum = x.firstSeqNum /\ r.nextSeqNum = x.nextSeqNum
      /\ r.isRunning = x.isRunning /\ r.isClosed = x.isClosed
      /\ r.bytes = BytesAfterRemoval(x, S)
      /\ r.lastFlaggedSeq = FlagAfterRetire(x, S)
  BY DEF FramesRetired
<1>3. r.buff = [i \in DOMAIN x.buff |->
                  IF x.firstSeqNum + i - 1 \in S
                  THEN [seq |-> x.firstSeqNum + i - 1, ackRequested |-> FALSE, size |-> 0]
                  ELSE x.buff[i]]
  BY Zenon DEF FramesRetired
<1>4. Held(r) = Held(x)
  BY <1>2 DEF Held
<1>5. ASSUME NEW s \in Held(x)
      PROVE  SizeAt(r, s) = IF s \in S THEN 0 ELSE SizeAt(x, s)
  <2> DEFINE i == s - x.firstSeqNum + 1
  <2>1. i \in DOMAIN x.buff /\ x.firstSeqNum + i - 1 = s
    BY <1>1 DEF Held
  <2>2. SizeAt(r, s) = r.buff[i].size /\ SizeAt(x, s) = x.buff[i].size
    BY Zenon, <1>2 DEF SizeAt
  <2> HIDE DEF i
  <2>3. r.buff[i] = IF s \in S THEN [seq |-> s, ackRequested |-> FALSE, size |-> 0]
                    ELSE x.buff[i]
    BY Zenon, <1>3, <2>1
  <2> QED BY <2>2, <2>3
<1>6. Lightened(x, S, r)
  BY <1>2, <1>4, <1>5 DEF Lightened, FlagAfterRetire
<1> QED BY SMTT(30), <1>6, LightenedKeeps

\* ResetDelivery gives back what it retires.
LEMMA ResetWeighs ==
  ASSUME NEW x, NEW lg, Core(x, lg), LiveHead(x), Weighed(x), NEW r, r = ResetDelivery(x)
  PROVE  Weighed(r)
<1> DEFINE spent == {s \in DOMAIN x.tracked \ x.retired : Exhausted(x, s)}
           q == StartOver(x)
           y == Retire(q, spent)
           z == ReleaseRetiredHead(y)
<1>1. r = [z EXCEPT !.isReadyToDeliver = ReadyAfterReset(z)]
  BY Zenon DEF ResetDelivery, StartOver
<1>2. AtFront(x, q) /\ Core(q, lg)
  BY Zenon, StartOverKeeps
<1>3. spent \subseteq DOMAIN q.tracked \ q.retired /\ \A s \in spent : Exhausted(q, s)
  BY SMTT(30), <1>2 DEF Exhausted, AtFront
<1>4. FlagHeld(r)
  BY ZenonT(40), ResetRoom DEF Weighed
<1> HIDE DEF q, spent
<1>5. Core(y, lg) /\ FramesRetired(q, spent, y)
  BY Zenon, <1>2, <1>3, RetireKeeps
<1>6. BufferType(q) /\ BufferType(y) /\ BufferType(x)
  BY <1>2, <1>5 DEF Core
<1>7. SameWeight(x, q)
  BY <1>2 DEF AtFront, SameWeight
<1>8. Weighed(q)
  BY SMTT(30), <1>6, <1>7, SameWeightKeeps
<1>9. spent \subseteq Held(q)
  BY SMTT(30), <1>3, <1>6 DEF BufferType, TrackingType
<1>10. Charged(y) /\ Over(y) /\ Shut(y)
  BY Zenon, <1>5, <1>6, <1>8, <1>9, RetireWeighs
<1>11. FlagHeld(y)
  BY Zenon, <1>5, <1>6, <1>8, <1>9, RetireFlag DEF Weighed
<1> HIDE DEF y
<1>12. Weighed(z)
  BY Zenon, <1>6, <1>10, <1>11, ReleaseWeighs DEF Weighed
<1>13. IsBuffer(z) /\ BufferType(z)
  BY SMTT(30), <1>5, ReleaseKeeps DEF Core, BufferType
<1> HIDE DEF z
<1>14. SameWeight(z, r)
  BY Zenon, <1>1, <1>13 DEF IsBuffer, BufferFields, NewAckBuffer, SameWeight
<1> QED BY SMTT(30), <1>12, <1>13, <1>14, SameWeightKeeps

\* One more slot adds its size.
LEMMA ChargeAdd ==
  ASSUME NEW x, NEW S, IsFiniteSet(S), NEW r, NEW s, s \notin S, Sized(r, S \cup {s}),
         \A t \in S : SizeAt(r, t) = SizeAt(x, t)
  PROVE  ChargeOf(r, S \cup {s}) = SizeAt(r, s) + ChargeOf(x, S)
<1> DEFINE A == {s}
           U == S \cup {s}
<1>1. A \subseteq U /\ U \ A = S /\ Sized(r, U) /\ SizeAt(r, s) \in Nat
  BY DEF Sized
<1>2. ChargeOf(r, A) = SizeAt(r, s)
  BY <1>1, ChargeOne
<1>3. ChargeOf(r, S) = ChargeOf(x, S)
  BY ChargeSame
<1> HIDE DEF A, U
<1>4. ChargeOf(r, U) = ChargeOf(r, A) + ChargeOf(r, U \ A)
  BY <1>1, ChargeParts
<1>5. ChargeOf(r, U) = SizeAt(r, s) + ChargeOf(x, S)
  BY Zenon, <1>1, <1>2, <1>3, <1>4
<1> QED BY <1>5 DEF U

\* An admission charges its frame; one that goes over the cap asks for an ACK
\* and starts from a buffer within it.
LEMMA AdmitWeighs ==
  ASSUME NEW x, BufferType(x), Weighed(x), x.isRunning, NEW m, NEW size \in Nat, NEW step,
         ~BlockedLocally(x, size), NEW r, r = Admit(x, m, size, OverCap(x, size), step)
  PROVE  Weighed(r)
<1> DEFINE s == x.nextSeqNum
           ack == WantsAck(x, m, size, OverCap(x, size), step)
           slot == [seq |-> s, ackRequested |-> ack, size |-> size]
<1>1. /\ IsBuffer(x) /\ x.buff \in Seq(SlotType) /\ x.bytes \in Nat /\ MaxBytes \in Nat
      /\ x.firstSeqNum \in Nat \ {0} /\ Len(x.buff) \in Nat /\ s \in Nat
      /\ s = x.firstSeqNum + Len(x.buff)
  BY SMTT(30), TypeFacts, ConstantsAssumption DEF BufferType, SequencesType, BytesType
<1>2. FlagHeld(r) /\ r.isClosed = x.isClosed /\ r.bytes = x.bytes + size
  <2>1. FlagHeld(x)
    BY DEF Weighed
  <2> QED BY <2>1, AdmitRoom
<1>3. /\ r.isRunning = x.isRunning /\ r.nextSeqNum = s + 1
      /\ r.firstSeqNum = x.firstSeqNum /\ r.buff = Append(x.buff, slot)
      /\ r.lastFlaggedSeq = IF ack THEN s ELSE x.lastFlaggedSeq
  BY Zenon, <1>1 DEF Admit, IsBuffer, BufferFields, NewAckBuffer
<1>4. slot.size = size /\ (OverCap(x, size) => ack)
  BY DEF WantsAck
<1> HIDE DEF slot, ack
<1>5. Held(r) = Held(x) \cup {s} /\ s \notin Held(x)
  <2>1. \A a, b \in Nat : a <= b => a .. b = (a .. b - 1) \cup {b} /\ b \notin a .. b - 1
    BY SMTT(30)
  <2>2. Held(r) = x.firstSeqNum .. s /\ Held(x) = x.firstSeqNum .. s - 1
    BY <1>1, <1>3 DEF Held
  <2>3. x.firstSeqNum \in Nat /\ x.firstSeqNum <= s
    BY <1>1
  <2> QED BY Zenon, <1>1, <2>1, <2>2, <2>3
<1>6. SizeAt(r, s) = size
  <2>1. s - r.firstSeqNum + 1 = Len(x.buff) + 1
    BY SMTT(30), <1>1, <1>3
  <2>2. r.buff[Len(x.buff) + 1] = slot
    BY <1>1, <1>3
  <2> QED BY Zenon, <1>4, <2>1, <2>2 DEF SizeAt
<1>7. ASSUME NEW t \in Held(x) PROVE SizeAt(r, t) = SizeAt(x, t)
  <2> DEFINE i == t - x.firstSeqNum + 1
  <2>1. i \in 1 .. Len(x.buff)
    BY SMTT(30), <1>1 DEF Held
  <2>2. SizeAt(r, t) = r.buff[i].size /\ SizeAt(x, t) = x.buff[i].size
    BY Zenon, <1>3 DEF SizeAt
  <2> HIDE DEF i
  <2>3. r.buff[i] = x.buff[i]
    BY SMTT(30), <1>1, <1>3, <2>1
  <2> QED BY SMTT(30), <2>2, <2>3
<1>8. Charged(r)
  <2>1. ~x.isClosed /\ x.bytes = ChargeOf(x, Held(x))
    BY DEF Weighed, Shut, Charged
  <2>2. Sized(x, Held(x)) /\ IsFiniteSet(Held(x))
    BY SMTT(30), HeldSized DEF Sized
  <2>3. Sized(r, Held(r))
    BY SMTT(30), <1>5, <1>6, <1>7, <2>2, FS_AddElement DEF Sized
  <2>8. ChargeOf(r, Held(r)) = size + x.bytes
    <3>1. \A t \in Held(x) : SizeAt(r, t) = SizeAt(x, t)
      BY <1>7
    <3>2. Sized(r, Held(x) \cup {s})
      BY Zenon, <1>5, <2>3
    <3> HIDE DEF s
    <3>3. ChargeOf(r, Held(x) \cup {s}) = SizeAt(r, s) + ChargeOf(x, Held(x))
      BY SMTT(30), <1>5, <2>2, <3>1, <3>2, ChargeAdd
    <3> QED BY Zenon, <1>5, <1>6, <2>1, <3>3
  <2> QED BY SMTT(30), <1>1, <1>2, <2>1, <2>8 DEF Charged
<1>9. Over(r)
  <2>1. SUFFICES ASSUME MaxBytes # 0, r.bytes > MaxBytes
                 PROVE  HeldFlagged(r) /\ r.bytes - SizeAt(r, r.lastFlaggedSeq) <= MaxBytes
    BY DEF Over
  <2>2. OverCap(x, size) /\ ~HeldFlagged(x)
    BY SMTT(30), <1>2, <2>1 DEF OverCap, BlockedLocally
  <2>3. x.bytes <= MaxBytes
    BY SMTT(30), <1>1, <2>1, <2>2 DEF Weighed, Over
  <2>4. r.lastFlaggedSeq = s /\ HeldFlagged(r)
    BY SMTT(30), <1>1, <1>3, <1>4, <2>2 DEF HeldFlagged
  <2> QED BY SMTT(30), <1>1, <1>2, <1>6, <2>3, <2>4
<1> QED BY SMTT(30), <1>2, <1>3, <1>8, <1>9 DEF Weighed, Shut

\* Close returns every byte; the other calls charge nothing.
LEMMA OthersWeigh ==
  ASSUME NEW x, BufferType(x), Weighed(x), NEW r
  PROVE  /\ \A cap : r = UpdateCapacity(x, cap) => Weighed(r)
         /\ r = Seal(x) \/ r = CloseBuffer(x) \/ r = ReleaseReceiptTracking(x) => Weighed(r)
<1>0. IsBuffer(x) /\ MaxBytes \in Nat
  BY ConstantsAssumption DEF BufferType
<1>1. ASSUME NEW cap, r = UpdateCapacity(x, cap) PROVE SameWeight(x, r)
  BY ZenonT(40), <1>0, <1>1 DEF UpdateCapacity, SameWeight, IsBuffer, BufferFields, NewAckBuffer
<1>2. ASSUME r = Seal(x) PROVE SameWeight(x, r)
  BY ZenonT(40), <1>0, <1>2 DEF Seal, SameWeight, IsBuffer, BufferFields, NewAckBuffer
<1>3. ASSUME r = ReleaseReceiptTracking(x) PROVE SameWeight(x, r)
  BY ZenonT(40), <1>0, <1>3
     DEF ReleaseReceiptTracking, SameWeight, IsBuffer, BufferFields, NewAckBuffer
<1>4. ASSUME r = CloseBuffer(x) PROVE Weighed(r)
  <2>1. r.isClosed = TRUE /\ r.isRunning = FALSE /\ r.bytes = 0
    BY ZenonT(40), <1>0, <1>4 DEF CloseBuffer, IsBuffer, BufferFields, NewAckBuffer
  <2>2. FlagHeld(r)
    BY <1>0, <1>4, OthersRoom DEF Weighed
  <2> QED BY SMTT(30), <1>0, <2>1, <2>2 DEF Weighed, Charged, Over, Shut
<1> QED BY SMTT(30), <1>1, <1>2, <1>3, <1>4, SameWeightKeeps
=============================================================================
