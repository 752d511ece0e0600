-------------------------- MODULE AckBufferProofs ---------------------------
(***************************************************************************)
(* The window, the delivery cursor, the transmission limits, the receipts, *)
(* the wake-ups, the report of a drain and the bytes of AckBuffer are      *)
(* right for every set of producers, every set of messages and windows,    *)
(* every byte cap and any number of frames.                                *)
(***************************************************************************)
EXTENDS AckBuffer, AckBufferEffects

\* The types of the callers' part of the state.
Others == /\ pc \in [Producers -> {"idle", "asleep", "woken"}]
          /\ want \in [Producers -> Messages \cup {NoMessage}]
          /\ \A p \in Producers : pc[p] # "idle" => want[p] \in Messages
          /\ drainer \in {"none", "asleep", "woken", "drained", "failed"}
          /\ joined \in BOOLEAN
          /\ wire \in Seq([seq : Nat, ackRequested : BOOLEAN])

\* The inductive invariant.
IInv == /\ Sound(ab, log)
        /\ ~joined => Tracked(ab)
        /\ Others

-----------------------------------------------------------------------------
(* The inductive invariant holds initially. *)

\* Init establishes the inductive invariant.
LEMMA InitIInv == Init => IInv
<1>1. SUFFICES ASSUME Init PROVE IInv
  OBVIOUS
<1>2. Sound(ab, log) /\ Tracked(ab)
  BY <1>1, NewIsSound DEF Init
<1>3. Others
  BY Zenon, <1>1, EmptySeq DEF Init, Others
<1> QED BY <1>1, <1>2, <1>3 DEF Init, IInv

-----------------------------------------------------------------------------
(* Every step keeps the inductive invariant. *)

\* Waking goroutines changes neither what they add nor the types.
LEMMA WakeKeeps ==
  ASSUME Others, NEW signal, WakeIf(signal), want' = want, joined' = joined,
         wire' \in Seq([seq : Nat, ackRequested : BOOLEAN])
  PROVE  Others'
<1>1. pc' \in [Producers -> {"idle", "asleep", "woken"}]
      /\ \A p \in Producers : pc'[p] # "idle" => pc[p] # "idle"
  BY DEF Others, WakeIf, WokenProducers
<1>2. drainer' \in {"none", "asleep", "woken", "drained", "failed"}
  BY DEF Others, WakeIf, WokenDrainer
<1> QED BY <1>1, <1>2 DEF Others

\* One turn of Add keeps the invariant.
LEMMA TryAddKeeps ==
  ASSUME IInv, NEW p \in Producers, NEW m \in Messages, TryAdd(p, m),
         UNCHANGED <<drainer, joined, wire>>
  PROVE  IInv'
<1>1. /\ m.size \in Nat /\ m.receipt \in BOOLEAN /\ m.max \in Nat
      /\ ~m.receipt => m.max = 0
  BY InputsAssumption
<1>2. Size(m) \in Nat
  BY <1>1 DEF Size
<1>3. CASE ~ab.isRunning /\ Return(p) /\ UNCHANGED <<ab, log>>
  <2>1. Others'
    BY <1>3 DEF IInv, Others, Return
  <2> QED BY <1>3, <2>1 DEF IInv
<1>4. CASE /\ pc' = [pc EXCEPT ![p] = "asleep"]
           /\ want' = [want EXCEPT ![p] = m]
           /\ UNCHANGED <<ab, log>>
  <2>1. Others'
    BY <1>4 DEF IInv, Others
  <2> QED BY <1>4, <2>1 DEF IInv
<1>5. CASE /\ ~BlockedLocally(ab, Size(m))
           /\ ab' = Admit(ab, m, Size(m), OverCap(ab, Size(m)), PressureStep(ab, Size(m)))
           /\ log' = Append(log, [max |-> m.max, sent |-> 0])
           /\ Return(p)
  <2>1. Others'
    BY <1>5 DEF IInv, Others, Return
  <2>2. ab.isAvailable
    BY <1>5 DEF BlockedLocally
  <2>3. Sound(ab, log) /\ (~joined => Tracked(ab))
    BY DEF IInv
  <2>4. Sound(ab', log') /\ (Tracked(ab) => Tracked(ab'))
    <3>1. /\ ab' = Admit(ab, m, Size(m), OverCap(ab, Size(m)), PressureStep(ab, Size(m)))
          /\ log' = Logged(log, m)
      BY <1>5 DEF Logged
    <3>2. IsInput(m)
      BY <1>1 DEF IsInput
    <3> QED BY <1>2, <2>2, <2>3, <3>1, <3>2, AdmitKeeps
  <2> QED BY <2>1, <2>3, <2>4 DEF IInv
<1> QED BY <1>3, <1>4, <1>5 DEF TryAdd

\* The frame given to the sender has its type.
LEMMA FrameType ==
  ASSUME NEW x, BufferType(x), NEW s \in Held(x)
  PROVE  FrameToSend(x, s) \in [seq : Nat, ackRequested : BOOLEAN]
<1>1. s - x.firstSeqNum + 1 \in 1 .. Len(x.buff) /\ x.buff \in Seq(SlotType)
  BY SMTT(30), TypeFacts DEF Held, BufferType, SequencesType
<1>2. x.buff[s - x.firstSeqNum + 1] \in SlotType
  BY <1>1, ElementOfSeq
<1>3. /\ x.buff[s - x.firstSeqNum + 1].seq \in Nat
      /\ x.buff[s - x.firstSeqNum + 1].ackRequested \in BOOLEAN
  BY <1>2 DEF SlotType
<1> QED BY <1>3 DEF FrameToSend

\* GetNextToDeliver keeps the invariant.
LEMMA DeliverStep == IInv /\ Deliver => IInv'
<1> SUFFICES ASSUME IInv, Deliver PROVE IInv'
  OBVIOUS
<1> DEFINE s == NextToDeliver(ab)
<1>1. /\ ~joined /\ ab' = GetNextToDeliver(ab) /\ want' = want /\ joined' = joined
      /\ \E signal : WakeIf(signal)
      /\ IF s = 0 THEN UNCHANGED <<log, wire>>
         ELSE log' = Handed(s) /\ wire' = Append(wire, FrameToSend(ab, s))
  BY DEF Deliver
<1>2. Sound(ab, log) /\ Tracked(ab) /\ BufferType(ab) /\ ab.isReadyToDeliver = TRUE
  BY <1>1 DEF IInv, Sound, Core, Deliver, BufferType, FlagsType
<1>3. /\ s = 0 => Sound(ab', log) /\ Tracked(ab')
      /\ s # 0 => Sound(ab', HandedOut(log, s)) /\ Tracked(ab') /\ s \in Held(ab)
  BY Zenon, <1>1, <1>2, DeliverKeeps
<1> HIDE DEF s
<1>4. Sound(ab', log') /\ Tracked(ab')
  BY SMTT(30), <1>1, <1>3 DEF Handed, HandedOut
<1>5. wire' \in Seq([seq : Nat, ackRequested : BOOLEAN])
  <2>1. wire \in Seq([seq : Nat, ackRequested : BOOLEAN])
    BY DEF IInv, Others
  <2>2. CASE s = 0
    BY <1>1, <2>1, <2>2
  <2>3. CASE s # 0
    <3>1. FrameToSend(ab, s) \in [seq : Nat, ackRequested : BOOLEAN]
      BY <1>2, <1>3, <2>3, FrameType
    <3>2. wire' = Append(wire, FrameToSend(ab, s))
      BY <1>1, <2>3
    <3> QED BY <2>1, <3>1, <3>2, AppendProperties
  <2> QED BY <2>2, <2>3
<1>6. Others'
  BY <1>1, <1>5, WakeKeeps DEF IInv
<1> QED BY <1>4, <1>6 DEF IInv

\* Every step of the system keeps the inductive invariant.
LEMMA StepIInv == IInv /\ [Next]_vars => IInv'
<1> SUFFICES ASSUME IInv, [Next]_vars PROVE IInv'
  OBVIOUS
<1>0. /\ Sound(ab, log) /\ Others /\ (~joined => Tracked(ab))
      /\ wire \in Seq([seq : Nat, ackRequested : BOOLEAN])
  BY DEF IInv, Others
<1>1. ASSUME NEW p \in Producers, NEW m \in Messages, Add(p, m) PROVE IInv'
  BY <1>1, TryAddKeeps DEF Add
<1>2. ASSUME NEW p \in Producers, Retry(p) PROVE IInv'
  <2>1. want[p] \in Messages
    BY <1>0, <1>2 DEF Others, Retry
  <2> QED BY <1>2, <2>1, TryAddKeeps DEF Retry
<1>3. ASSUME NEW p \in Producers, Timeout(p) PROVE IInv'
  <2>1. Others'
    BY <1>0, <1>3 DEF Others, Timeout, Return
  <2> QED BY <1>0, <1>3, <2>1 DEF IInv, Timeout
<1>4. CASE Deliver
  BY <1>4, DeliverStep
<1>5. ASSUME NEW seq, ReceiveAck(seq) PROVE IInv'
  <2>1. Sound(ab', log') /\ Tracked(ab')
    BY <1>0, <1>5, AckKeeps DEF ReceiveAck
  <2>2. Others'
    BY <1>0, <1>5, WakeKeeps DEF ReceiveAck
  <2> QED BY <2>1, <2>2 DEF IInv
<1>6. ASSUME NEW cap \in Windows, Resize(cap) PROVE IInv'
  <2>1. cap \in Nat
    BY InputsAssumption
  <2>2. Sound(ab', log') /\ (Tracked(ab) => Tracked(ab'))
    BY <1>0, <1>6, <2>1, CapacityKeeps DEF Resize
  <2>3. Others'
    BY <1>0, <1>6, WakeKeeps DEF Resize
  <2> QED BY <1>0, <1>6, <2>2, <2>3 DEF IInv, Resize
<1>7. CASE Reset
  <2>1. Sound(ab', log') /\ (Tracked(ab) => Tracked(ab'))
    BY <1>0, <1>7, ResetKeeps DEF Reset, Sound
  <2>2. wire' \in Seq([seq : Nat, ackRequested : BOOLEAN])
    BY <1>7, EmptySeq DEF Reset
  <2>3. Others'
    BY <1>0, <1>7, <2>2, WakeKeeps DEF Reset
  <2> QED BY <1>0, <1>7, <2>1, <2>3 DEF IInv, Reset
<1>8. CASE BeginDrain
  <2>1. Sound(ab', log') /\ (Tracked(ab) => Tracked(ab'))
    BY <1>0, <1>8, SealKeeps DEF BeginDrain
  <2>2. Others'
    BY Zenon, <1>0, <1>8, WakeKeeps DEF BeginDrain
  <2> QED BY <1>0, <1>8, <2>1, <2>2 DEF IInv, BeginDrain
<1>9. CASE Drain
  <2>1. Sound(ab', log') /\ (Tracked(ab) => Tracked(ab'))
    BY <1>0, <1>9, SealKeeps DEF Drain
  <2>2. Others'
    BY <1>0, <1>9 DEF Others, Drain, DrainTurn, WokenProducers
  <2> QED BY <1>0, <1>9, <2>1, <2>2 DEF IInv, Drain
<1>10. CASE DrainRetry \/ DrainExpire
  <2>1. Others'
    BY <1>0, <1>10 DEF Others, DrainRetry, DrainExpire, DrainTurn
  <2> QED BY Zenon, <1>0, <1>10, <2>1 DEF IInv, DrainRetry, DrainExpire
<1>11. CASE Close
  <2>1. Sound(ab', log') /\ (Tracked(ab) => Tracked(ab'))
    BY <1>0, <1>11, SealKeeps DEF Close
  <2>2. Others'
    BY Zenon, <1>0, <1>11, WakeKeeps DEF Close
  <2> QED BY <1>0, <1>11, <2>1, <2>2 DEF IInv, Close
<1>12. CASE Join
  <2>1. Others'
    BY <1>0, <1>12 DEF Others, Join
  <2> QED BY <1>0, <1>12, <2>1 DEF IInv, Join
<1>13. CASE ReleaseTracking
  <2>1. Sound(ab', log')
    BY <1>0, <1>13, ReleaseTrackingKeeps DEF ReleaseTracking
  <2>2. Others'
    BY <1>0, <1>13 DEF Others, ReleaseTracking
  <2> QED BY <1>13, <2>1, <2>2 DEF IInv, ReleaseTracking
<1>14. CASE UNCHANGED vars
  BY <1>14 DEF vars, IInv, Others
<1> QED BY SMTT(30), <1>1, <1>2, <1>3, <1>4, <1>5, <1>6, <1>7, <1>8, <1>9, <1>10, <1>11,
          <1>12, <1>13, <1>14 DEF Next

\* The inductive invariant always holds.
LEMMA AlwaysIInv == Spec => []IInv
BY InitIInv, StepIInv, PTL DEF Spec

-----------------------------------------------------------------------------
(* What the invariant gives. *)

\* The buffer record, the producers, the drain call and the histories have
\* their types in every reachable state: the slot array, the receipts and the
\* numbers stay in step through every call of the buffer.
THEOREM TypeCorrect == Spec => []TypeOK
<1>1. IInv => TypeOK
  <2>1. SUFFICES ASSUME IInv PROVE TypeOK
    OBVIOUS
  <2>2. BufferType(ab) /\ LogType(ab, log)
    BY <2>1 DEF IInv, Sound, Core
  <2>3. \A p \in Producers : pc[p] # "idle" => want[p] # NoMessage
    BY <2>1, InputsAssumption DEF IInv, Others
  <2> QED BY <2>1, <2>2, <2>3 DEF TypeOK, IInv, Others, LogType
<1> QED BY <1>1, AlwaysIInv, PTL

\* Admission never stalls beside a free window and never writes outside the
\* backing array, for any order of FLOW resizes, reconnects, partial ACKs,
\* retirements and shrinks (isAvailable in UpdateCapacity and removePrefixLocked).
THEOREM AdmissionNeverStalls == Spec => []NoAdmissionStall
<1>1. IInv => NoAdmissionStall
  <2>1. SUFFICES ASSUME IInv PROVE NoAdmissionStall
    OBVIOUS
  <2>2. BufferType(ab) /\ Window(ab)
    BY <2>1 DEF IInv, Sound, Core
  <2>3. Len(ab.buff) \in Nat /\ ab.backing \in Nat /\ ab.currentCapacity \in Nat
    BY <2>2, TypeFacts DEF BufferType, NumbersType
  <2> QED BY <2>2, <2>3 DEF Window, NoAdmissionStall
<1> QED BY <1>1, AlwaysIInv, PTL

\* The sender is told to run exactly while a slot awaits it (isReadyToDeliver
\* in tryAddWithReceiptLocked, GetNextToDeliver, removePrefixLocked and
\* ResetDelivery).
THEOREM ReadyExact == Spec => []ReadyIffPending
<1>1. IInv => ReadyIffPending
  <2>1. SUFFICES ASSUME IInv PROVE ReadyIffPending
    OBVIOUS
  <2>2. BufferType(ab) /\ Ready(ab)
    BY <2>1 DEF IInv, Sound, Core
  <2>3. Pending(ab) # {} <=> ab.nextIndexToDeliver < Len(ab.buff)
    <3>1. /\ ab.firstSeqNum \in Nat /\ Len(ab.buff) \in Nat /\ ab.nextIndexToDeliver \in Nat
          /\ ab.nextSeqNum = ab.firstSeqNum + Len(ab.buff)
          /\ Position(ab) = ab.firstSeqNum + ab.nextIndexToDeliver
      BY <2>2, TypeFacts
    <3>2. Pending(ab) # {} <=> Position(ab) <= ab.nextSeqNum - 1
      BY <3>1 DEF Pending
    <3> QED BY <3>1, <3>2
  <2> QED BY <2>2, <2>3 DEF Ready, ReadyIffPending
<1> QED BY <1>1, AlwaysIInv, PTL

\* deliverCursor is the first tracked admission at or after the delivery
\* position, through ACKs, releases, retirements and resets.
THEOREM CursorCorrect == Spec => []CursorExact
<1>1. IInv => CursorExact
  BY SMTT(30), CursorIsFirst DEF IInv, Sound, Core, CursorExact
<1> QED BY <1>1, AlwaysIInv, PTL

\* MaxTransmissions is never exceeded over all connections, and only a frame
\* that used all its transmissions is retired.
THEOREM LimitRespected == Spec => []TransmissionLimit
<1>1. IInv => TransmissionLimit
  BY DEF IInv, Sound, Core, Limits, TransmissionLimit
<1> QED BY <1>1, AlwaysIInv, PTL

\* A receipt reads retained exactly while its frame is held and not retired,
\* whatever the peer acknowledges.
THEOREM ReceiptsTellTheTruth == Spec => []ReceiptTruth
<1>1. IInv => ReceiptTruth
  <2>1. SUFFICES ASSUME IInv, NEW s \in DOMAIN ab.receipts, ab.receipts[s] # "none"
                 PROVE  ab.receipts[s] = "retained" <=> s \in Live(ab)
    BY DEF ReceiptTruth
  <2>2. BufferType(ab) /\ Marks(ab)
    BY <2>1 DEF IInv, Sound, Core
  <2>3. ab.receipts \in Seq(FrameStates)
    BY <2>2 DEF BufferType, SequencesType
  <2>4. ab.receipts[s] \in FrameStates
    BY <2>3, LenProperties, ElementOfSeq
  <2> QED BY <2>1, <2>2, <2>4 DEF Marks, Live, FrameStates
<1> QED BY <1>1, AlwaysIInv, PTL

\* No retired slot stands at the front: releaseRetiredHeadLocked runs wherever
\* one could appear.
THEOREM HeadStaysLive == Spec => []HeadIsLive
<1>1. IInv => HeadIsLive
  <2>1. SUFFICES ASSUME IInv, ab.buff # <<>> PROVE ab.firstSeqNum \notin ab.retired
    BY DEF HeadIsLive
  <2>2. ab.buff \in Seq(SlotType) /\ LiveHead(ab)
    BY <2>1 DEF IInv, Sound, Core, BufferType, SequencesType
  <2>3. Len(ab.buff) > 0
    BY <2>1, <2>2, EmptySeq
  <2> QED BY <2>2, <2>3 DEF LiveHead
<1> QED BY <1>1, AlwaysIInv, PTL

\* GetNextToDeliver's own pre-send fence is never needed: no frame ahead of the
\* sender has used up its transmissions, so that loop never retires one.
THEOREM FenceNeverFires == Spec => [](Fenced(ab) = {})
<1>1. IInv => Fenced(ab) = {}
  BY NothingFenced DEF IInv, Sound
<1> QED BY <1>1, AlwaysIInv, PTL

-----------------------------------------------------------------------------
(* The connection. *)

\* The frames behind the sender are those of this connection, in order.
Conn == /\ DeliveredExactlyOnce
        /\ Numbered(ab)
        /\ \A i \in DOMAIN wire : wire[i].seq < Position(ab)

\* Nobody sleeps beside what it waits for.
Wakes == NoLostWakeup /\ NoMissedDrain /\ FlagHeld(ab)

\* The inductive invariant with the connection and the sleepers.
JInv == IInv /\ Conn /\ Wakes

\* The facts about the buffer that the steps below use.
LEMMA IInvFacts ==
  ASSUME IInv
  PROVE  /\ Sound(ab, log) /\ Core(ab, log) /\ LiveHead(ab)
         /\ BufferType(ab) /\ IsBuffer(ab) /\ (~joined => Tracked(ab))
         /\ Position(ab) \in Nat /\ ab.nextSeqNum \in Nat /\ Position(ab) <= ab.nextSeqNum
         /\ wire \in Seq([seq : Nat, ackRequested : BOOLEAN])
         /\ \A i \in DOMAIN wire : wire[i].seq \in Nat
<1>1. /\ Sound(ab, log) /\ Core(ab, log) /\ LiveHead(ab) /\ (~joined => Tracked(ab))
      /\ BufferType(ab) /\ IsBuffer(ab) /\ wire \in Seq([seq : Nat, ackRequested : BOOLEAN])
  BY DEF IInv, Sound, Core, BufferType, Others
<1>2. \A i \in DOMAIN wire : wire[i].seq \in Nat
  <2>1. \A i \in DOMAIN wire : wire[i] \in [seq : Nat, ackRequested : BOOLEAN]
    BY Zenon, <1>1, LenProperties, ElementOfSeq
  <2> QED BY <2>1
<1> QED BY <1>1, <1>2, TypeFacts

\* Frames that leave, and a new one, disturb nothing on the connection.
LEMMA ConnKept ==
  ASSUME IInv, Conn, wire' = wire, Numbered(ab'),
         Position(ab') \in Nat, Position(ab) <= Position(ab'),
         Live(ab') \subseteq Live(ab) \cup {ab.nextSeqNum},
         Behind(ab') = Behind(ab) \cap Live(ab')
  PROVE  Conn'
<1>1. /\ Position(ab) \in Nat /\ ab.nextSeqNum \in Nat /\ Position(ab) <= ab.nextSeqNum
      /\ \A i \in DOMAIN wire : wire[i].seq \in Nat /\ wire[i].seq < Position(ab)
  BY IInvFacts DEF Conn
<1>2. ASSUME NEW s \in Live(ab') PROVE s < Position(ab') <=> s \in OnWire
  <2>1. s < Position(ab') <=> s \in Behind(ab)
    BY <1>2 DEF Behind
  <2>2. CASE s \in Live(ab)
    BY <2>1, <2>2 DEF Behind, Conn, DeliveredExactlyOnce
  <2>3. CASE s \notin Live(ab)
    <3>1. s = ab.nextSeqNum /\ s \notin Behind(ab)
      BY <1>2, <2>3 DEF Behind
    <3>2. s \notin OnWire
      BY <1>1, <3>1 DEF OnWire
    <3> QED BY <2>1, <3>1, <3>2
  <2> QED BY <2>2, <2>3
<1>3. OnWire' = OnWire
  BY DEF OnWire
<1>4. \A i \in DOMAIN wire : wire[i].seq < Position(ab')
  BY <1>1
<1> QED BY <1>2, <1>3, <1>4 DEF Conn, DeliveredExactlyOnce

\* Steps that touch no frame.
LEMMA ConnSame ==
  ASSUME IInv, Conn, wire' = wire, SameFrames(ab, ab')
  PROVE  Conn'
<1>1. /\ Numbered(ab') /\ Position(ab') = Position(ab) /\ Live(ab') = Live(ab)
      /\ Behind(ab') = Behind(ab) /\ Behind(ab) \subseteq Live(ab)
  BY DEF SameFrames, Conn, Behind
<1>2. Position(ab) \in Nat
  BY IInvFacts
<1> QED BY <1>1, <1>2, ConnKept

\* GetNextToDeliver puts the next frame on the connection, after the others.
LEMMA ConnDeliver == IInv /\ Conn /\ Deliver => Conn'
<1> SUFFICES ASSUME IInv, Conn, Deliver PROVE Conn'
  OBVIOUS
<1> DEFINE s == NextToDeliver(ab)
           n == Len(wire)
           f == FrameToSend(ab, s)
<1>1. Sent(ab, s, ab')
  BY Zenon, IInvFacts, DeliverEffect DEF Deliver
<1>2. IF s = 0 THEN wire' = wire ELSE wire' = Append(wire, f)
  BY DEF Deliver
<1>3. /\ Position(ab) \in Nat /\ ab.nextSeqNum \in Nat /\ Position(ab) <= ab.nextSeqNum
      /\ wire \in Seq([seq : Nat, ackRequested : BOOLEAN]) /\ n \in Nat
      /\ DOMAIN wire = 1 .. n
      /\ \A i \in DOMAIN wire : wire[i].seq \in Nat /\ wire[i].seq < Position(ab)
  BY IInvFacts, LenProperties DEF Conn
<1>4. Numbered(ab') /\ Live(ab') = Live(ab) /\ Behind(ab) \subseteq Live(ab)
  BY <1>1 DEF Sent, SameRoom, LooksSame, Numbered, Conn, Behind
<1>5. s # 0 => f.seq = s /\ s \in Nat
  <2>1. SUFFICES ASSUME s # 0 PROVE f.seq = s /\ s \in Nat
    OBVIOUS
  <2>2. s \in Live(ab)
    BY <1>1, <2>1 DEF Sent
  <2>3. /\ ab.firstSeqNum \in Nat /\ Len(ab.buff) \in Nat
        /\ ab.nextSeqNum = ab.firstSeqNum + Len(ab.buff)
    BY IInvFacts, TypeFacts
  <2>4. s \in Nat /\ s - ab.firstSeqNum + 1 \in 1 .. Len(ab.buff)
    BY <2>2, <2>3 DEF Live, Held
  <2> HIDE DEF s
  <2>5. ab.buff[s - ab.firstSeqNum + 1].seq = ab.firstSeqNum + (s - ab.firstSeqNum + 1) - 1
    BY <2>4 DEF Conn, Numbered
  <2>6. f.seq = ab.buff[s - ab.firstSeqNum + 1].seq
    BY DEF FrameToSend
  <2> QED BY <2>3, <2>4, <2>5, <2>6
<1> HIDE DEF s, f
<1>6. CASE s = 0
  <2>1. Behind(ab') = Behind(ab) \cap Live(ab') /\ Position(ab') = ab.nextSeqNum
    <3>1. 0 \notin Live(ab)
      BY IInvFacts, TypeFacts DEF Live, Held
    <3> QED BY <1>1, <1>4, <1>6, <3>1 DEF Sent
  <2> QED BY <1>2, <1>3, <1>4, <1>6, <2>1, ConnKept
<1>7. CASE s # 0
  <2>1. /\ s \in Live(ab) /\ s >= Position(ab) /\ Position(ab') = s + 1 /\ s \in Nat
        /\ Behind(ab') = Behind(ab) \cup {s} /\ f.seq = s
    BY <1>1, <1>5, <1>7 DEF Sent
  <2>2. /\ wire' = Append(wire, f) /\ DOMAIN wire' = 1 .. n + 1 /\ wire'[n + 1] = f
        /\ \A i \in 1 .. n : wire'[i] = wire[i]
    <3>1. f \in [seq : Nat, ackRequested : BOOLEAN]
      BY Zenon, <2>1, IInvFacts, FrameType DEF f, Live
    <3> DEFINE A == Append(wire, f)
    <3>2. /\ A \in Seq([seq : Nat, ackRequested : BOOLEAN]) /\ Len(A) = n + 1
          /\ \A i \in 1 .. n : A[i] = wire[i]
          /\ A[n + 1] = f
      BY <1>3, <3>1, AppendProperties
    <3>3. DOMAIN A = 1 .. n + 1
      BY <3>2, LenProperties
    <3>4. wire' = A
      BY <1>2, <1>7
    <3> HIDE DEF A
    <3> QED BY <3>2, <3>3, <3>4 DEF A
  <2>3. \A i \in DOMAIN wire' : wire'[i].seq \in Nat /\ wire'[i].seq < Position(ab')
    BY <1>3, <2>1, <2>2
  <2>4. \A i, j \in DOMAIN wire' : i < j => wire'[i].seq < wire'[j].seq
    <3>1. SUFFICES ASSUME NEW i \in 1 .. n + 1, NEW j \in 1 .. n + 1, i < j
                   PROVE  wire'[i].seq < wire'[j].seq
      BY <2>2
    <3>0. i \in 1 .. n /\ wire'[i] = wire[i]
      BY <1>3, <2>2, <3>1
    <3>2. CASE j = n + 1
      BY SMTT(30), <1>3, <2>1, <2>2, <3>0, <3>2
    <3>3. CASE j # n + 1
      <4>1. j \in 1 .. n /\ wire'[j] = wire[j]
        BY <1>3, <2>2, <3>3
      <4> QED BY <1>3, <3>0, <3>1, <4>1 DEF Conn, DeliveredExactlyOnce
    <3> QED BY <3>2, <3>3
  <2>5. OnWire' = OnWire \cup {s}
    <3>1. OnWire = {wire[i].seq : i \in 1 .. n} /\ OnWire' = {wire'[i].seq : i \in 1 .. n + 1}
      BY <1>3, <2>2 DEF OnWire
    <3>2. 1 .. n + 1 = (1 .. n) \cup {n + 1}
      BY <1>3
    <3> QED BY SMTT(30), <2>1, <2>2, <3>1, <3>2
  <2>6. \A t \in Live(ab') : t < Position(ab') <=> t \in OnWire'
    <3>1. \A t \in Live(ab) : t \in Behind(ab) <=> t \in OnWire
      BY DEF Conn, DeliveredExactlyOnce, Behind
    <3>2. \A t \in Live(ab') : t < Position(ab') <=> t \in Behind(ab')
      BY DEF Behind
    <3> QED BY <1>4, <2>1, <2>5, <3>1, <3>2
  <2> QED BY <1>4, <2>3, <2>4, <2>6 DEF Conn, DeliveredExactlyOnce
<1> QED BY <1>6, <1>7

-----------------------------------------------------------------------------
(* What a step does to the frames. *)

Quiet == SameFrames(ab, ab') /\ wire' = wire

Grows == (\E receipt : Admitted(ab, receipt, ab')) /\ wire' = wire

Confirms == (\E seq : Acknowledged(ab, seq, ab')) /\ wire' = wire

StartsOver == (\E S : StartedOver(ab, S, ab')) /\ wire' = <<>>

\* One turn of Add admits a frame or leaves the buffer alone.
LEMMA TryAddKind ==
  ASSUME IInv, NEW p, NEW m \in Messages, TryAdd(p, m), wire' = wire
  PROVE  Quiet \/ Grows
<1>1. CASE ab' = ab
  BY <1>1 DEF Quiet, SameFrames
<1>2. CASE ab' = Admit(ab, m, Size(m), OverCap(ab, Size(m)), PressureStep(ab, Size(m)))
  <2>1. Admitted(ab, m.receipt, ab')
    BY Zenon, <1>2, IInvFacts, AdmitEffect
  <2> QED BY <2>1 DEF Grows
<1> QED BY <1>1, <1>2 DEF TryAdd

\* Every step is of one of five kinds.
LEMMA StepKind ==
  ASSUME IInv, [Next]_vars
  PROVE  Quiet \/ Grows \/ Deliver \/ Confirms \/ StartsOver
<1> DEFINE Kind == Quiet \/ Grows \/ Deliver \/ Confirms \/ StartsOver
<1>0. ab' = ab /\ wire' = wire => Quiet
  BY DEF Quiet, SameFrames
<1>1. ASSUME NEW p \in Producers, NEW m \in Messages, Add(p, m) PROVE Kind
  BY Zenon, <1>1, TryAddKind DEF Add
<1>2. ASSUME NEW p \in Producers, Retry(p) PROVE Kind
  <2>1. want[p] \in Messages
    BY <1>2 DEF IInv, Others, Retry
  <2> QED BY Zenon, <1>2, <2>1, TryAddKind DEF Retry
<1>3. ASSUME NEW seq, ReceiveAck(seq) PROVE Kind
  <2>1. ab' = ab \/ Acknowledged(ab, seq, ab')
    BY Zenon, <1>3, IInvFacts, AckEffect DEF ReceiveAck
  <2>2. wire' = wire
    BY <1>3 DEF ReceiveAck
  <2> QED BY Zenon, <1>0, <2>1, <2>2 DEF Confirms
<1>4. ASSUME NEW cap, Resize(cap) PROVE Kind
  <2>1. ab' = UpdateCapacity(ab, cap) /\ wire' = wire
    BY <1>4 DEF Resize
  <2> QED BY Zenon, <2>1, IInvFacts, OthersEffect DEF Quiet
<1>5. ASSUME Reset PROVE Kind
  <2>1. ab' = ResetDelivery(ab) /\ wire' = <<>>
    BY <1>5 DEF Reset
  <2> QED BY Zenon, <2>1, IInvFacts, ResetEffect DEF StartsOver
<1>6. ASSUME BeginDrain \/ Drain \/ Close PROVE Kind
  <2>1. (ab' = Seal(ab) \/ ab' = CloseBuffer(ab)) /\ wire' = wire
    BY Zenon, <1>6 DEF BeginDrain, Drain, Close
  <2> QED BY Zenon, <2>1, IInvFacts, OthersEffect DEF Quiet
<1>7. ASSUME ReleaseTracking PROVE Kind
  <2>1. ab' = ReleaseReceiptTracking(ab) /\ wire' = wire
    BY <1>7 DEF ReleaseTracking
  <2> QED BY Zenon, <2>1, IInvFacts, OthersEffect DEF Quiet
<1>8. ASSUME \/ \E p \in Producers : Timeout(p)
             \/ DrainRetry \/ DrainExpire \/ Join \/ UNCHANGED vars
      PROVE  Kind
  BY Zenon, <1>0, <1>8 DEF Timeout, DrainRetry, DrainExpire, Join, vars
<1> QED BY Zenon, <1>1, <1>2, <1>3, <1>4, <1>5, <1>6, <1>7, <1>8 DEF Next

\* Every step keeps the connection in step with the buffer.
LEMMA ConnStep ==
  ASSUME IInv, Conn, [Next]_vars
  PROVE  Conn'
<1>0. /\ Position(ab) \in Nat /\ Behind(ab) \subseteq Live(ab) /\ Numbered(ab)
      /\ BufferType(ab)
  BY IInvFacts DEF Behind, Conn
<1>1. ASSUME Quiet PROVE Conn'
  BY <1>1, ConnSame DEF Quiet
<1>2. ASSUME Grows PROVE Conn'
  <2>1. PICK receipt : Admitted(ab, receipt, ab')
    BY <1>2 DEF Grows
  <2>2. /\ Numbered(ab') /\ Position(ab') = Position(ab) /\ wire' = wire
        /\ Live(ab') = Live(ab) \cup {ab.nextSeqNum} /\ Behind(ab') = Behind(ab)
    BY <1>0, <1>2, <2>1 DEF Admitted, Grows
  <2> QED BY <1>0, <2>2, ConnKept
<1>3. ASSUME Confirms PROVE Conn'
  <2>1. PICK seq : Acknowledged(ab, seq, ab')
    BY <1>3 DEF Confirms
  <2>2. /\ Numbered(ab') /\ Position(ab') \in Nat /\ Position(ab) <= Position(ab')
        /\ Live(ab') \subseteq Live(ab) /\ Behind(ab') = Behind(ab) \cap Live(ab')
        /\ wire' = wire
    BY SMTT(30), <1>0, <1>3, <2>1 DEF Acknowledged, KeepsPlace, Confirms
  <2> QED BY SMTT(30), <2>2, ConnKept
<1>4. ASSUME StartsOver PROVE Conn'
  <2>1. PICK S : StartedOver(ab, S, ab')
    BY <1>4 DEF StartsOver
  <2>2. Numbered(ab') /\ ab'.nextIndexToDeliver = 0 /\ wire' = <<>>
    BY <1>0, <1>4, <2>1 DEF StartedOver, StartsOver
  <2>3. BufferType(ab')
    BY StepIInv DEF IInv, Sound, Core
  <2>4. \A s \in Live(ab') : ~(s < Position(ab'))
    BY <2>2, <2>3, TypeFacts DEF Live, Held
  <2>5. DOMAIN wire' = {} /\ OnWire' = {}
    BY <2>2 DEF OnWire
  <2> QED BY <2>2, <2>4, <2>5 DEF Conn, DeliveredExactlyOnce
<1>5. ASSUME Deliver PROVE Conn'
  BY <1>5, ConnDeliver
<1> QED BY Zenon, StepKind, <1>1, <1>2, <1>3, <1>4, <1>5

-----------------------------------------------------------------------------
(* Sleepers. *)

\* A signal leaves nobody asleep; without one nothing that matters changed.
LEMMA WakeRoom ==
  ASSUME Others, Wakes, NEW signal, WakeIf(signal), want' = want,
         ~signal => SameRoom(ab, ab') /\ ab'.isRunning = ab.isRunning
  PROVE  NoLostWakeup' /\ NoMissedDrain'
<1>1. CASE signal
  <2>1. \A p \in Producers : pc'[p] # "asleep"
    BY <1>1 DEF Others, WakeIf, WokenProducers
  <2>2. drainer' # "asleep"
    BY <1>1 DEF WakeIf, WokenDrainer
  <2> QED BY <2>1, <2>2 DEF NoLostWakeup, NoMissedDrain
<1>2. CASE ~signal
  <2>1. \A p \in Producers : pc'[p] = pc[p]
    BY <1>2 DEF Others, WakeIf, WokenProducers
  <2>2. drainer' = drainer
    BY <1>2 DEF WakeIf, WokenDrainer
  <2>3. \A size : BlockedLocally(ab', size) <=> BlockedLocally(ab, size)
    BY Zenon, <1>2 DEF SameRoom, BlockedLocally, OverCap, HeldFlagged
  <2>4. NoLostWakeup'
    BY Zenon, <1>2, <2>1, <2>3 DEF Wakes, NoLostWakeup, Size
  <2>5. NoMissedDrain'
    BY <1>2, <2>2 DEF Wakes, NoMissedDrain, SameRoom
  <2> QED BY <2>4, <2>5
<1> QED BY <1>1, <1>2

\* One turn of Add puts its producer to sleep only when it must wait, and an
\* admission makes no room for the others.
LEMMA TryAddWakes ==
  ASSUME IInv, Wakes, NEW p \in Producers, NEW m \in Messages, TryAdd(p, m),
         drainer' = drainer
  PROVE  Wakes'
<1>0. /\ BufferType(ab) /\ ab.bytes \in Nat /\ MaxBytes \in Nat
      /\ Size(m) \in Nat /\ \A q \in Producers : pc[q] # "idle" => Size(want[q]) \in Nat
  BY IInvFacts, InputsAssumption, ConstantsAssumption
     DEF BufferType, BytesType, IInv, Others, Size
<1>1. pc \in [Producers -> {"idle", "asleep", "woken"}]
      /\ want \in [Producers -> Messages \cup {NoMessage}]
  BY DEF IInv, Others
<1>2. ASSUME UNCHANGED ab, Return(p) PROVE Wakes'
  <2>1. \A q \in Producers : pc'[q] = "asleep" => pc[q] = "asleep" /\ want'[q] = want[q]
    BY <1>1, <1>2 DEF Return
  <2>2. NoLostWakeup'
    BY <1>2, <2>1 DEF Wakes, NoLostWakeup, Size
  <2> QED BY <1>2, <2>2 DEF Wakes, NoMissedDrain
<1>3. ASSUME /\ ab.isRunning /\ BlockedLocally(ab, Size(m))
             /\ pc' = [pc EXCEPT ![p] = "asleep"]
             /\ want' = [want EXCEPT ![p] = m]
             /\ UNCHANGED <<ab, log>>
      PROVE  Wakes'
  <2>1. \A q \in Producers : q # p => pc'[q] = pc[q] /\ want'[q] = want[q]
    BY <1>1, <1>3
  <2>2. want'[p] = m
    BY <1>1, <1>3
  <2>3. NoLostWakeup'
    BY <1>3, <2>1, <2>2 DEF Wakes, NoLostWakeup, Size
  <2> QED BY <1>3, <2>3 DEF Wakes, NoMissedDrain
<1>4. ASSUME /\ ~BlockedLocally(ab, Size(m))
             /\ ab' = Admit(ab, m, Size(m), OverCap(ab, Size(m)), PressureStep(ab, Size(m)))
             /\ Return(p)
      PROVE  Wakes'
  <2>1. /\ ab'.isClosed = ab.isClosed /\ ab'.buff # <<>> /\ ab'.bytes = ab.bytes + Size(m)
        /\ HeldFlagged(ab) => HeldFlagged(ab')
        /\ FlagHeld(ab')
    BY <1>0, <1>4, AdmitRoom DEF Wakes
  <2>2. ab'.isRunning = ab.isRunning
    <3>1. Admitted(ab, m.receipt, ab')
      BY Zenon, <1>0, <1>4, AdmitEffect
    <3> QED BY <3>1 DEF Admitted
  <2>3. ab.isAvailable
    BY <1>4 DEF BlockedLocally
  <2>4. \A size \in Nat : BlockedLocally(ab, size) => BlockedLocally(ab', size)
    BY <1>0, <2>1, <2>3 DEF BlockedLocally, OverCap
  <2>5. \A q \in Producers : pc'[q] = "asleep" => pc[q] = "asleep" /\ want'[q] = want[q]
    BY <1>1, <1>4 DEF Return
  <2>6. NoLostWakeup'
    <3>1. SUFFICES ASSUME NEW q \in Producers, pc'[q] = "asleep"
                   PROVE  ab'.isRunning /\ BlockedLocally(ab', Size(want'[q]))
      BY DEF NoLostWakeup, Size
    <3>2. pc[q] = "asleep" /\ want'[q] = want[q]
      BY <2>5, <3>1
    <3>3. ab.isRunning /\ BlockedLocally(ab, Size(want[q])) /\ Size(want[q]) \in Nat
      BY <1>0, <3>2 DEF Wakes, NoLostWakeup
    <3> QED BY SMTT(30), <2>2, <2>4, <3>2, <3>3
  <2>7. NoMissedDrain'
    BY <2>1 DEF Wakes, NoMissedDrain
  <2> QED BY SMTT(30), <2>1, <2>6, <2>7 DEF Wakes
<1> QED BY Zenon, <1>2, <1>3, <1>4 DEF TryAdd

\* Every step wakes whoever it makes room for.
LEMMA WakesStep ==
  ASSUME IInv, Wakes, [Next]_vars
  PROVE  Wakes'
<1>0. /\ BufferType(ab) /\ IsBuffer(ab) /\ Others /\ FlagHeld(ab)
      /\ Core(ab, log) /\ LiveHead(ab) /\ Sound(ab, log)
  BY IInvFacts DEF IInv, Wakes
<1>1. ASSUME NEW p \in Producers, NEW m \in Messages, Add(p, m) PROVE Wakes'
  BY Zenon, <1>1, TryAddWakes DEF Add
<1>2. ASSUME NEW p \in Producers, Retry(p) PROVE Wakes'
  <2>1. want[p] \in Messages
    BY <1>2 DEF IInv, Others, Retry
  <2> QED BY Zenon, <1>2, <2>1, TryAddWakes DEF Retry
<1>3. ASSUME NEW seq, ReceiveAck(seq) PROVE Wakes'
  <2>1. /\ ab' = Ack(ab, seq) /\ WakeIf(AckAccepted(ab, seq)) /\ want' = want
        /\ ~AckAccepted(ab, seq) => ab' = ab
    BY Zenon, <1>3 DEF ReceiveAck, Ack
  <2>2. ~AckAccepted(ab, seq) => SameRoom(ab, ab') /\ ab'.isRunning = ab.isRunning
    BY <2>1 DEF SameRoom
  <2>3. FlagHeld(ab')
    BY Zenon, <1>0, <2>1, AckFlag
  <2> QED BY Zenon, <1>0, <2>1, <2>2, <2>3, WakeRoom DEF Wakes
<1>4. ASSUME NEW cap, Resize(cap) PROVE Wakes'
  <2>1. /\ ab' = UpdateCapacity(ab, cap) /\ WakeIf(cap # ab.currentCapacity) /\ want' = want
        /\ ~(cap # ab.currentCapacity) => ab' = ab
    BY Zenon, <1>4 DEF Resize, UpdateCapacity
  <2>2. ~(cap # ab.currentCapacity) => SameRoom(ab, ab') /\ ab'.isRunning = ab.isRunning
    BY <2>1 DEF SameRoom
  <2>3. FlagHeld(ab')
    BY Zenon, <1>0, <2>1, OthersRoom
  <2> QED BY Zenon, <1>0, <2>1, <2>2, <2>3, WakeRoom DEF Wakes
<1>5. ASSUME Reset PROVE Wakes'
  <2> DEFINE spent == {s \in DOMAIN ab.tracked \ ab.retired : Exhausted(ab, s)}
  <2>1. ab' = ResetDelivery(ab) /\ WakeIf(RetirementSignals) /\ want' = want
    BY <1>5 DEF Reset
  <2>2. FlagHeld(ab') /\ (spent = {} => SameRoom(ab, ab'))
    BY Zenon, <1>0, <2>1, ResetRoom
  <2>3. ab'.isRunning = ab.isRunning
    <3>1. StartedOver(ab, spent, ab')
      BY Zenon, <1>0, <2>1, ResetEffect
    <3> QED BY <3>1 DEF StartedOver
  <2>4. ~RetirementSignals => spent = {}
    BY DEF RetirementSignals
  <2> HIDE DEF spent
  <2> QED BY Zenon, <1>0, <2>1, <2>2, <2>3, <2>4, WakeRoom DEF Wakes
<1>6. ASSUME BeginDrain \/ Close PROVE Wakes'
  <2>1. (ab' = Seal(ab) \/ ab' = CloseBuffer(ab)) /\ WakeIf(TRUE) /\ want' = want
    BY Zenon, <1>6 DEF BeginDrain, Close
  <2>2. FlagHeld(ab')
    BY Zenon, <1>0, <2>1, OthersRoom
  <2> QED BY Zenon, <1>0, <2>1, <2>2, WakeRoom DEF Wakes
<1>7. ASSUME Drain PROVE Wakes'
  <2>1. ab' = Seal(ab) /\ pc' = WokenProducers(TRUE) /\ drainer' = DrainTurn(ab', FALSE)
    BY <1>7 DEF Drain
  <2>2. FlagHeld(ab')
    BY Zenon, <1>0, <2>1, OthersRoom
  <2>3. \A p \in Producers : pc'[p] # "asleep"
    BY <1>0, <2>1 DEF Others, WokenProducers
  <2>4. drainer' = "asleep" => ab'.buff # <<>> /\ ~ab'.isClosed
    BY <2>1, EmptySeq DEF DrainTurn
  <2> QED BY <2>2, <2>3, <2>4 DEF Wakes, NoLostWakeup, NoMissedDrain
<1>8. ASSUME DrainRetry \/ DrainExpire PROVE Wakes'
  <2>1. /\ UNCHANGED <<ab, pc, want>>
        /\ drainer' = DrainTurn(ab, FALSE) \/ drainer' = DrainTurn(ab, TRUE)
    BY Zenon, <1>8 DEF DrainRetry, DrainExpire
  <2>2. drainer' = "asleep" => ab.buff # <<>> /\ ~ab.isClosed
    BY <2>1, EmptySeq DEF DrainTurn
  <2>3. NoLostWakeup'
    BY <2>1 DEF Wakes, NoLostWakeup, Size
  <2> QED BY <2>1, <2>2, <2>3 DEF Wakes, NoMissedDrain
<1>9. ASSUME ReleaseTracking PROVE Wakes'
  <2>1. ab' = ReleaseReceiptTracking(ab) /\ UNCHANGED <<pc, want, drainer>>
    BY <1>9 DEF ReleaseTracking
  <2>2. FlagHeld(ab') /\ SameRoom(ab, ab')
    BY Zenon, <1>0, <2>1, OthersRoom
  <2>3. ab'.isRunning = ab.isRunning
    BY Zenon, <1>0, <2>1, OthersEffect
  <2>4. WakeIf(FALSE)
    BY <1>0, <2>1 DEF WakeIf, WokenProducers, WokenDrainer, Others
  <2> QED BY Zenon, <1>0, <2>1, <2>2, <2>3, <2>4, WakeRoom DEF Wakes
<1>10. ASSUME NEW p \in Producers, Timeout(p) PROVE Wakes'
  <2>1. \A q \in Producers : pc'[q] = "asleep" => pc[q] = "asleep" /\ want'[q] = want[q]
    BY <1>0, <1>10 DEF Timeout, Return, Others
  <2>2. UNCHANGED <<ab, drainer>>
    BY <1>10 DEF Timeout
  <2>3. NoLostWakeup'
    BY <2>1, <2>2 DEF Wakes, NoLostWakeup, Size
  <2> QED BY <2>2, <2>3 DEF Wakes, NoMissedDrain
<1>11. ASSUME Join \/ UNCHANGED vars PROVE Wakes'
  <2>1. UNCHANGED <<ab, pc, want, drainer>>
    BY <1>11 DEF Join, vars
  <2> QED BY <2>1 DEF Wakes, NoLostWakeup, NoMissedDrain, Size
<1>12. ASSUME Deliver PROVE Wakes'
  <2>1. Sent(ab, NextToDeliver(ab), ab') /\ want' = want /\ \E signal : WakeIf(signal)
    BY Zenon, <1>0, <1>12, DeliverEffect DEF Deliver
  <2>2. SameRoom(ab, ab') /\ ab'.isRunning = ab.isRunning /\ Live(ab') = Live(ab)
    BY SMTT(30), <2>1 DEF Sent, LooksSame
  <2>3. FlagHeld(ab')
    BY <1>0, <2>2 DEF FlagHeld, HeldFlagged, SameRoom
  <2> QED BY Zenon, <1>0, <2>1, <2>2, <2>3, WakeRoom DEF Wakes
<1> QED BY Zenon, <1>1, <1>2, <1>3, <1>4, <1>5, <1>6, <1>7, <1>8, <1>9, <1>10, <1>11, <1>12
        DEF Next

\* The larger invariant always holds.
LEMMA AlwaysJInv == Spec => []JInv
<1>1. Init => JInv
  <2>1. SUFFICES ASSUME Init PROVE Conn /\ Wakes
    BY InitIInv DEF JInv
  <2>2. /\ ab.buff = <<>> /\ ab.firstSeqNum = 1 /\ ab.nextSeqNum = 1 /\ ab.lastFlaggedSeq = 0
        /\ wire = <<>> /\ drainer = "none" /\ \A p \in Producers : pc[p] = "idle"
    BY <2>1 DEF Init, NewAckBuffer
  <2>3. Live(ab) = {} /\ DOMAIN wire = {}
    BY <2>2 DEF Live, Held
  <2>4. Numbered(ab)
    BY <2>2 DEF Numbered
  <2> QED BY <2>2, <2>3, <2>4 DEF Conn, DeliveredExactlyOnce, Wakes, NoLostWakeup,
          NoMissedDrain, FlagHeld, HeldFlagged
<1>2. JInv /\ [Next]_vars => JInv'
  BY Zenon, StepIInv, ConnStep, WakesStep DEF JInv
<1> QED BY <1>1, <1>2, PTL DEF Spec

-----------------------------------------------------------------------------
(* Delivery, wake-ups and what a step may never do. *)

\* On one connection each live frame is handed out exactly once and in order,
\* although Ack and the release of retired slots move nextIndexToDeliver under
\* the sender, for any acknowledgements and any number of reconnects.
THEOREM DeliveryExactlyOnce == Spec => []DeliveredExactlyOnce
BY AlwaysJInv, PTL DEF JInv, Conn

\* signalLocked is called wherever addWithReceipt's condition can turn: no
\* producer sleeps in Add beside room for its message.
THEOREM AddNeverSleepsBesideRoom == Spec => []NoLostWakeup
BY AlwaysJInv, PTL DEF JInv, Wakes

\* drain sleeps only while the buffer holds a slot and is open.
THEOREM DrainNeverSleepsWhenDone == Spec => []NoMissedDrain
BY AlwaysJInv, PTL DEF JInv, Wakes

\* The guarantee of tryAddLocked: whoever waits for bytes waits beside a live
\* frame that asks for an ACK, although retirement drops flagged frames.
THEOREM ByteWaitIsAnswered == Spec => []ByteWaitHasRequest
<1>1. JInv => ByteWaitHasRequest
  <2>1. SUFFICES ASSUME JInv, NEW p \in Producers, pc[p] = "asleep", ab.isAvailable
                 PROVE  \E f \in GetUnAcked(ab) : f.ackRequested
    BY DEF ByteWaitHasRequest
  <2>2. HeldFlagged(ab)
    BY <2>1 DEF JInv, Wakes, NoLostWakeup, BlockedLocally
  <2> DEFINE i == ab.lastFlaggedSeq - ab.firstSeqNum + 1
  <2>3. ab.lastFlaggedSeq \in Live(ab) /\ ab.buff[i].ackRequested
    BY SMTT(30), <2>1, <2>2 DEF JInv, Wakes, FlagHeld
  <2>4. /\ ab.firstSeqNum \in Nat /\ Len(ab.buff) \in Nat /\ DOMAIN ab.buff = 1 .. Len(ab.buff)
        /\ ab.nextSeqNum = ab.firstSeqNum + Len(ab.buff)
    BY SMTT(30), <2>1, IInvFacts, TypeFacts DEF JInv
  <2>5. i \in DOMAIN ab.buff /\ ab.firstSeqNum + i - 1 = ab.lastFlaggedSeq
    BY <2>3, <2>4 DEF Live, Held
  <2> HIDE DEF i
  <2>6. ab.buff[i] \in GetUnAcked(ab)
    BY <2>3, <2>5 DEF GetUnAcked, Live
  <2> QED BY <2>3, <2>6
<1> QED BY <1>1, AlwaysJInv, PTL

\* A receipt that reads acknowledged or retired never changes: no cumulative
\* ACK converts a retired frame and no reset retires an acknowledged one.
THEOREM ReceiptsAreFinal == Spec => ReceiptsFinal
<1> DEFINE Keeps == \A s \in DOMAIN ab.receipts :
                      ab.receipts[s] \in {"acknowledged", "retired"} =>
                        ab'.receipts[s] = ab.receipts[s]
<1>1. IInv /\ [Next]_vars => Keeps
  <2> SUFFICES ASSUME IInv, [Next]_vars PROVE Keeps
    BY SMTT(30)
  <2>0. /\ BufferType(ab) /\ Marks(ab) /\ ab.receipts \in Seq(FrameStates)
    BY IInvFacts DEF Core, BufferType, SequencesType
  <2>1. ASSUME Quiet \/ Deliver PROVE Keeps
    <3>1. Deliver => Sent(ab, NextToDeliver(ab), ab')
      BY Zenon, IInvFacts, DeliverEffect DEF Deliver
    <3>2. ab'.receipts = ab.receipts
      BY SMTT(30), <2>1, <3>1 DEF Quiet, SameFrames, Sent, LooksSame
    <3> QED BY <3>2
  <2>2. ASSUME Grows PROVE Keeps
    <3>1. PICK receipt : Admitted(ab, receipt, ab')
      BY <2>2 DEF Grows
    <3>2. PICK v \in FrameStates : ab'.receipts = Append(ab.receipts, v)
      BY <3>1 DEF Admitted, FrameStates
    <3> QED BY <2>0, <3>2, AppendProperties, LenProperties
  <2>3. ASSUME Confirms PROVE Keeps
    <3>1. PICK seq : Acknowledged(ab, seq, ab')
      BY <2>3 DEF Confirms
    <3> QED BY <3>1 DEF Acknowledged
  <2>4. ASSUME StartsOver PROVE Keeps
    <3>1. PICK S : StartedOver(ab, S, ab')
      BY <2>4 DEF StartsOver
    <3>2. S \subseteq Live(ab)
      BY <3>1 DEF StartedOver
    <3>3. \A s \in DOMAIN ab.receipts : ab.receipts[s] = "acknowledged" => s \notin S
      BY <2>0, <3>2 DEF Marks, Live
    <3> QED BY <3>1, <3>3 DEF StartedOver
  <2> QED BY Zenon, <2>1, <2>2, <2>3, <2>4, StepKind
<1>2. IInv /\ [Next]_vars => [Keeps]_vars
  BY <1>1
<1> QED BY <1>2, AlwaysIInv, PTL DEF Spec, ReceiptsFinal

\* An ACK, whatever number it carries, and a release remove only frames that
\* this connection was given or that are retired, and the first held frame while
\* the connection was given none of those held (the special case of Ack).
THEOREM AcksStayWithinDelivered == Spec => AckWithinDelivered
<1> DEFINE Unsent(s) == s = ab.firstSeqNum /\ Live(ab) \cap OnWire = {}
           Sparing == \A s \in Live(ab) : s < ab'.firstSeqNum =>
                        \/ s \in OnWire
                        \/ ab'.receipts[s] = "retired"
                        \/ Unsent(s)
<1>1. JInv /\ JInv' /\ [Next]_vars => Sparing
  <2> SUFFICES ASSUME JInv, JInv', [Next]_vars,
                      NEW s \in Live(ab), s < ab'.firstSeqNum
               PROVE  s \in OnWire \/ ab'.receipts[s] = "retired" \/ Unsent(s)
    OBVIOUS
  <2>0. IInv /\ BufferType(ab) /\ s \in DOMAIN ab.receipts /\ s \notin Live(ab')
    <3>1. BufferType(ab) /\ BufferType(ab')
      BY DEF JInv, IInv, Sound, Core
    <3> QED BY <3>1, TypeFacts DEF JInv, Live, Held
  <2>1. ASSUME Quiet PROVE FALSE
    BY <2>0, <2>1 DEF Quiet, SameFrames
  <2>2. ASSUME Deliver PROVE FALSE
    <3>1. Sent(ab, NextToDeliver(ab), ab')
      BY Zenon, <2>0, <2>2, IInvFacts, DeliverEffect DEF Deliver
    <3> QED BY <2>0, <3>1 DEF Sent, LooksSame
  <2>3. ASSUME Grows PROVE FALSE
    BY <2>0, <2>3 DEF Grows, Admitted
  <2>4. ASSUME Confirms PROVE s \in OnWire \/ Unsent(s)
    <3>1. PICK seq : Acknowledged(ab, seq, ab')
      BY <2>4 DEF Confirms
    <3>2. s <= seq
      BY <2>0, <3>1, TypeFacts DEF Acknowledged, Held
    <3>3. s \in Behind(ab) \/ s = ab.firstSeqNum
      BY <3>1, <3>2 DEF Acknowledged
    <3>4. \A t \in Live(ab) : t < Position(ab) <=> t \in OnWire
      BY DEF JInv, Conn, DeliveredExactlyOnce
    <3>5. CASE s \in Behind(ab)
      BY <3>4, <3>5 DEF Behind
    <3>6. CASE s = ab.firstSeqNum /\ s \notin OnWire
      <4>1. ~(s < Position(ab))
        BY <3>4, <3>6
      <4>2. \A t \in Live(ab) : t \notin OnWire
        <5> SUFFICES ASSUME NEW t \in Live(ab) PROVE t \notin OnWire
          OBVIOUS
        <5>1. t \in Nat /\ s \in Nat /\ s <= t /\ Position(ab) \in Nat
          BY <2>0, <3>6, TypeFacts DEF Live, Held, Position
        <5> QED BY <3>4, <4>1, <5>1
      <4> QED BY <3>6, <4>2
    <3> QED BY <3>3, <3>5, <3>6
  <2>5. ASSUME StartsOver PROVE ab'.receipts[s] = "retired"
    <3>1. PICK S : StartedOver(ab, S, ab')
      BY <2>5 DEF StartsOver
    <3> QED BY <2>0, <3>1 DEF StartedOver
  <2> QED BY Zenon, <2>0, <2>1, <2>2, <2>3, <2>4, <2>5, StepKind
<1>2. JInv /\ JInv' /\ [Next]_vars => [Sparing]_vars
  BY <1>1
<1> QED BY <1>2, AlwaysJInv, PTL DEF Spec, AckWithinDelivered

\* The last frame that a sealed buffer sends asks for an ACK (the final copy of
\* GetNextToDeliver), however many retired slots lie behind it.
THEOREM DrainTailAlwaysAsks == Spec => DrainTailAsks
<1> DEFINE Asks == Len(wire') > Len(wire) /\ ~ab.isRunning /\ Deliverable(ab') = {}
                     => wire'[Len(wire')].ackRequested
<1>1. IInv /\ IInv' /\ [Next]_vars => Asks
  <2> SUFFICES ASSUME IInv, IInv', [Next]_vars,
                      Len(wire') > Len(wire), ~ab.isRunning, Deliverable(ab') = {}
               PROVE  wire'[Len(wire')].ackRequested
    OBVIOUS
  <2>0. Len(wire) \in Nat /\ wire \in Seq([seq : Nat, ackRequested : BOOLEAN])
    BY IInvFacts, LenProperties
  <2>1. Deliver
    <3>1. ~(wire' = wire)
      BY <2>0
    <3>2. ~(wire' = <<>>)
      BY <2>0, EmptySeq
    <3> QED BY <3>1, <3>2, StepKind DEF Quiet, Grows, Confirms, StartsOver
  <2> DEFINE s == NextToDeliver(ab)
             f == FrameToSend(ab, s)
  <2>2. s # 0 /\ wire' = Append(wire, f)
    BY <2>0, <2>1 DEF Deliver
  <2>3. Sent(ab, s, ab')
    BY Zenon, <2>1, IInvFacts, DeliverEffect DEF Deliver
  <2> HIDE DEF s
  <2>4. /\ s \in Live(ab) /\ Position(ab') = s + 1 /\ ab'.nextSeqNum = ab.nextSeqNum
        /\ ab'.retired = ab.retired
    BY <2>2, <2>3 DEF Sent, LooksSame
  <2>5. Fenced(ab') = {}
    BY NothingFenced DEF IInv, Sound
  <2>6. OnlyRetiredAfter(ab, s)
    BY <2>4, <2>5 DEF Deliverable, Pending, OnlyRetiredAfter
  <2>7. f.ackRequested
    BY ZenonT(40), <2>6 DEF FrameToSend
  <2>8. f \in [seq : Nat, ackRequested : BOOLEAN]
    BY Zenon, <2>4, IInvFacts, FrameType DEF Live
  <2> HIDE DEF f
  <2>9. wire'[Len(wire')] = f
    BY <2>0, <2>2, <2>8, AppendProperties
  <2> QED BY <2>7, <2>9
<1>2. IInv /\ IInv' /\ [Next]_vars => [Asks]_vars
  BY <1>1
<1> QED BY <1>2, AlwaysIInv, PTL DEF Spec, DrainTailAsks

-----------------------------------------------------------------------------
(* The report of a drain. *)

\* A non-empty set of naturals with a bound has a greatest element.
LEMMA MaxIsGreatest ==
  ASSUME NEW b \in Nat, NEW S, S \subseteq 0 .. b, S # {}
  PROVE  Max(S) \in S /\ \A y \in S : Max(S) >= y
<1> DEFINE T == {b - y : y \in S}
<1>1. T \subseteq Nat /\ T # {}
  <2>1. \A y \in S : y \in Nat /\ b - y \in Nat
    OBVIOUS
  <2> QED BY <2>1
<1>2. Min(T) \in T /\ \A t \in T : Min(T) <= t
  BY Zenon, <1>1, MinIsLeast
<1>3. PICK x \in S : Min(T) = b - x
  BY <1>2
<1>4. \A y \in S : x >= y
  <2>1. SUFFICES ASSUME NEW y \in S PROVE x >= y
    OBVIOUS
  <2>2. b - x <= b - y
    BY ZenonT(40), <1>2, <1>3
  <2> QED BY <2>2
<1> QED BY Zenon, <1>4 DEF Max

\* What drain reports when it gives up: the first and the last live frame, and
\* how many there are.
LEMMA DrainErrorOf ==
  ASSUME NEW x, BufferType(x), LiveHead(x), Numbered(x), x.buff # <<>>
  PROVE  /\ FirstLive(x) = Min(Live(x)) /\ LastLive(x) = Max(Live(x))
         /\ UnackedCount(x) = Cardinality(GetUnAcked(x)) /\ UnackedCount(x) > 0
<1> DEFINE a == x.firstSeqNum
           b == x.nextSeqNum - 1
           at(s) == x.buff[s - a + 1]
<1>1. /\ a \in Nat \ {0} /\ Len(x.buff) \in Nat \ {0} /\ b = a + Len(x.buff) - 1
      /\ DOMAIN x.buff = 1 .. Len(x.buff) /\ x.retired \subseteq Held(x)
      /\ a \notin x.retired /\ b \in Nat /\ a <= b
  <2>1. x.buff \in Seq(SlotType)
    BY DEF BufferType, SequencesType
  <2>2. Len(x.buff) # 0
    BY <2>1, EmptySeq
  <2> QED BY <2>2, TypeFacts DEF LiveHead
<1>2. /\ Held(x) = a .. b /\ Live(x) \subseteq Nat /\ a \in Live(x)
      /\ Live(x) = {s \in a .. b : s \notin x.retired}
  BY <1>1 DEF Live, Held
<1>3. \A s \in a .. b : at(s).seq = s
  <2>1. SUFFICES ASSUME NEW s \in a .. b PROVE at(s).seq = s
    OBVIOUS
  <2>2. s - a + 1 \in 1 .. Len(x.buff) /\ a + (s - a + 1) - 1 = s
    BY <1>1
  <2> QED BY <2>2 DEF Numbered
<1>4. \A S : S \subseteq a .. b /\ a \in S => Min(S) = a
  <2>1. SUFFICES ASSUME NEW S, S \subseteq a .. b, a \in S PROVE Min(S) = a
    BY ZenonT(40)
  <2>2. S \subseteq Nat /\ S # {}
    BY <1>1, <2>1
  <2>3. Min(S) \in S /\ Min(S) <= a
    BY Zenon, <2>1, <2>2, MinIsLeast
  <2>4. Min(S) \in a .. b
    BY <2>1, <2>3
  <2> HIDE DEF b
  <2> QED BY SMTT(30), <1>1, <2>3, <2>4
<1>5. FirstLive(x) = a /\ Min(Live(x)) = a
  <2> DEFINE S == {s \in Held(x) : s \notin x.retired \/ s = x.nextSeqNum - 1}
  <2>1. S \subseteq a .. b /\ a \in S
    BY <1>1, <1>2
  <2>2. Min(S) = a /\ Min(Live(x)) = a
    BY <1>2, <1>4, <2>1
  <2>3. FirstLive(x) = at(Min(S)).seq
    BY DEF FirstLive
  <2>4. at(a).seq = a
    BY <1>1, <1>3
  <2> HIDE DEF S, at
  <2> QED BY SMTT(30), <2>2, <2>3, <2>4
<1>6. LastLive(x) = Max(Live(x))
  <2> DEFINE S == {s \in FirstLive(x) .. x.nextSeqNum - 1 :
                     s \notin x.retired \/ s = FirstLive(x)}
  <2>1. S = Live(x)
    BY <1>1, <1>2, <1>5
  <2>2. Max(Live(x)) \in Live(x)
    <3>1. Live(x) \subseteq 0 .. b /\ Live(x) # {}
      BY <1>1, <1>2
    <3> QED BY Zenon, <1>1, <3>1, MaxIsGreatest
  <2>3. LastLive(x) = at(Max(S)).seq
    BY DEF LastLive
  <2>4. at(Max(Live(x))).seq = Max(Live(x))
    BY <1>2, <1>3, <2>2
  <2> HIDE DEF S, at
  <2> QED BY <2>1, <2>3, <2>4
<1>7. UnackedCount(x) = Cardinality(Live(x)) /\ IsFiniteSet(Live(x)) /\ UnackedCount(x) > 0
  <2>1. IsFiniteSet(a .. b) /\ Cardinality(a .. b) = Len(x.buff)
    <3>1. /\ IsFiniteSet(a .. b)
          /\ Cardinality(a .. b) = IF a > b THEN 0 ELSE b - a + 1
      <4>1. a \in Int /\ b \in Int
        BY <1>1
      <4> QED BY Zenon, <4>1, FS_Interval
    <3> QED BY <1>1, <3>1
  <2>2. Live(x) = (a .. b) \ x.retired /\ (a .. b) \cap x.retired = x.retired
    BY <1>1, <1>2
  <2>3. /\ IsFiniteSet(Live(x))
        /\ Cardinality(Live(x)) = Cardinality(a .. b) - Cardinality(x.retired)
    BY ZenonT(40), <2>1, <2>2, FS_Difference
  <2>4. Cardinality(Live(x)) \in Nat /\ Cardinality(Live(x)) # 0
    BY <1>2, <2>3, FS_CardinalityType, FS_EmptySet
  <2> QED BY SMTT(30), <2>1, <2>3, <2>4 DEF UnackedCount
<1>8. Cardinality(GetUnAcked(x)) = Cardinality(Live(x))
  <2> DEFINE f == [s \in Live(x) |-> at(s)]
  <2>1. GetUnAcked(x) = {at(s) : s \in Live(x)}
    <3>1. \A i \in DOMAIN x.buff : a + i - 1 \in a .. b /\ (a + i - 1) - a + 1 = i
      BY <1>1
    <3>2. \A s \in a .. b : s - a + 1 \in DOMAIN x.buff /\ a + (s - a + 1) - 1 = s
      BY SMTT(30), <1>1
    <3>3. ASSUME NEW i \in DOMAIN x.buff, a + i - 1 \notin x.retired
          PROVE  x.buff[i] \in {at(s) : s \in Live(x)}
      <4>1. a + i - 1 \in Live(x) /\ at(a + i - 1) = x.buff[i]
        BY <1>2, <3>1, <3>3
      <4> HIDE DEF at
      <4> QED BY <4>1
    <3>4. ASSUME NEW s \in Live(x) PROVE at(s) \in GetUnAcked(x)
      <4>1. s - a + 1 \in DOMAIN x.buff /\ a + (s - a + 1) - 1 \notin x.retired
        BY <1>2, <3>2
      <4> QED BY <4>1 DEF GetUnAcked
    <3> HIDE DEF at
    <3> QED BY <3>3, <3>4 DEF GetUnAcked
  <2>2. \A s, t \in Live(x) : at(s) = at(t) => s = t
    BY <1>2, <1>3
  <2> HIDE DEF at
  <2>3. f \in Bijection(Live(x), GetUnAcked(x))
    BY <2>1, <2>2 DEF Bijection, Injection, Surjection, IsInjective
  <2>4. ExistsBijection(Live(x), GetUnAcked(x))
    BY <2>3 DEF ExistsBijection
  <2> QED BY <1>7, <2>4, FS_Bijection
<1> QED BY <1>5, <1>6, <1>7, <1>8

\* DrainError names the first and the last unacknowledged frame and counts the
\* frames between them that are not retired.
THEOREM DrainReportsExactly == Spec => []DrainErrorExact
<1>1. JInv => DrainErrorExact
  <2>1. SUFFICES ASSUME JInv, ab.buff # <<>>
                 PROVE  /\ FirstLive(ab) = Min(Live(ab)) /\ LastLive(ab) = Max(Live(ab))
                        /\ UnackedCount(ab) = Cardinality(GetUnAcked(ab))
                        /\ UnackedCount(ab) > 0
    BY DEF DrainErrorExact
  <2>2. BufferType(ab) /\ LiveHead(ab) /\ Numbered(ab)
    BY <2>1, IInvFacts DEF JInv, Conn
  <2> QED BY Zenon, <2>1, <2>2, DrainErrorOf
<1> QED BY <1>1, AlwaysJInv, PTL

-----------------------------------------------------------------------------
(* Bytes. *)

\* A new buffer weighs nothing.
LEMMA NewWeighs == Weighed(NewAckBuffer)
<1> DEFINE x == NewAckBuffer
<1>1. /\ x.bytes = 0 /\ x.isClosed = FALSE /\ x.firstSeqNum = 1 /\ x.nextSeqNum = 1
      /\ x.lastFlaggedSeq = 0
  BY DEF NewAckBuffer
<1> HIDE DEF x
<1>2. Held(x) = {} /\ ~HeldFlagged(x)
  BY <1>1 DEF Held, HeldFlagged
<1>3. Charged(x)
  BY <1>1, <1>2, NoCharge DEF Charged
<1>4. Over(x)
  BY SMTT(30), <1>1, ConstantsAssumption DEF Over
<1>5. Weighed(x)
  BY <1>1, <1>2, <1>3, <1>4 DEF Weighed, FlagHeld, Shut
<1> QED BY <1>5 DEF x

\* Every step keeps the account.
LEMMA StepWeighs ==
  ASSUME IInv, Weighed(ab), [Next]_vars
  PROVE  Weighed(ab')
<1>0. BufferType(ab)
  BY IInvFacts
<1>1. ASSUME NEW p \in Producers, NEW m \in Messages, TryAdd(p, m) PROVE Weighed(ab')
  <2>1. CASE ab' = ab
    BY <2>1
  <2>2. CASE /\ ab.isRunning /\ ~BlockedLocally(ab, Size(m))
             /\ ab' = Admit(ab, m, Size(m), OverCap(ab, Size(m)), PressureStep(ab, Size(m)))
    <3>1. Size(m) \in Nat
      BY InputsAssumption DEF Size
    <3> QED BY <1>0, <2>2, <3>1, AdmitWeighs
  <2> QED BY <1>1, <2>1, <2>2 DEF TryAdd
<1>2. ASSUME NEW p \in Producers, NEW m \in Messages, Add(p, m) PROVE Weighed(ab')
  BY Zenon, <1>1, <1>2 DEF Add
<1>3. ASSUME NEW p \in Producers, Retry(p) PROVE Weighed(ab')
  <2>1. want[p] \in Messages
    BY <1>3 DEF IInv, Others, Retry
  <2> QED BY Zenon, <1>1, <1>3, <2>1 DEF Retry
<1>4. ASSUME Deliver PROVE Weighed(ab')
  <2>1. Sent(ab, NextToDeliver(ab), ab')
    BY Zenon, <1>4, IInvFacts, DeliverEffect DEF Deliver
  <2>2. SameWeight(ab, ab')
    BY <2>1 DEF Sent, LooksSame, SameRoom, SameWeight
  <2> QED BY <1>0, <2>2, SameWeightKeeps
<1>5. ASSUME NEW seq, ReceiveAck(seq) PROVE Weighed(ab')
  BY Zenon, <1>0, <1>5, AckWeighs DEF ReceiveAck
<1>6. ASSUME NEW cap, Resize(cap) PROVE Weighed(ab')
  BY Zenon, <1>0, <1>6, OthersWeigh DEF Resize
<1>7. ASSUME Reset PROVE Weighed(ab')
  BY Zenon, <1>7, IInvFacts, ResetWeighs DEF Reset
<1>8. ASSUME BeginDrain \/ Drain \/ Close \/ ReleaseTracking PROVE Weighed(ab')
  <2>1. ab' = Seal(ab) \/ ab' = CloseBuffer(ab) \/ ab' = ReleaseReceiptTracking(ab)
    BY Zenon, <1>8 DEF BeginDrain, Drain, Close, ReleaseTracking
  <2> QED BY Zenon, <1>0, <2>1, OthersWeigh
<1>9. ASSUME \/ \E p \in Producers : Timeout(p)
             \/ DrainRetry \/ DrainExpire \/ Join \/ UNCHANGED vars
      PROVE  Weighed(ab')
  <2>1. ab' = ab
    BY Zenon, <1>9 DEF Timeout, DrainRetry, DrainExpire, Join, vars
  <2> QED BY <2>1
<1> QED BY Zenon, <1>2, <1>3, <1>4, <1>5, <1>6, <1>7, <1>8, <1>9 DEF Next

\* The byte accounts are right in every state the buffer reaches.
LEMMA AlwaysWeighed == Spec => []Weighed(ab)
<1>1. Init => Weighed(ab)
  BY NewWeighs DEF Init
<1>2. IInv /\ Weighed(ab) /\ [Next]_vars => Weighed(ab)'
  BY StepWeighs
<1> QED BY <1>1, <1>2, AlwaysIInv, PTL DEF Spec

\* b.bytes is the sum of the sizes of the slots until Close returns it, and 0
\* afterwards, for every cap, every set of payload sizes and every retirement.
THEOREM BytesAreAccounted == Spec => []BytesMatchSlots
<1>1. Weighed(ab) => BytesMatchSlots
  BY DEF Weighed, Charged, BytesMatchSlots
<1> QED BY <1>1, AlwaysWeighed, PTL

\* tryAddLocked admits past MaxBytes at most one message, which requests an ACK,
\* for every byte cap.
THEOREM OvershootBounded == Spec => []OvershootIsOneMessage
<1>1. ASSUME IInv, Weighed(ab) PROVE OvershootIsOneMessage
  <2>1. SUFFICES ASSUME MaxBytes # 0, ab.bytes > MaxBytes
                 PROVE  \E f \in GetUnAcked(ab) : f.ackRequested /\ ab.bytes - f.size <= MaxBytes
    BY DEF OvershootIsOneMessage
  <2> DEFINE s == ab.lastFlaggedSeq
             i == s - ab.firstSeqNum + 1
  <2>2. HeldFlagged(ab) /\ ab.bytes - SizeAt(ab, s) <= MaxBytes
    BY <1>1, <2>1 DEF Weighed, Over
  <2>3. s \in Live(ab) /\ ab.buff[i].ackRequested
    BY SMTT(30), <1>1, <2>2 DEF Weighed, FlagHeld
  <2>4. /\ ab.firstSeqNum \in Nat \ {0} /\ Len(ab.buff) \in Nat
        /\ ab.nextSeqNum = ab.firstSeqNum + Len(ab.buff) /\ DOMAIN ab.buff = 1 .. Len(ab.buff)
    <3>1. BufferType(ab)
      BY Zenon, <1>1, IInvFacts
    <3> QED BY Zenon, <3>1, TypeFacts
  <2>5. i \in DOMAIN ab.buff /\ ab.firstSeqNum + i - 1 \notin ab.retired
    <3>1. i \in 1 .. Len(ab.buff) /\ ab.firstSeqNum + i - 1 = s
      BY <2>3, <2>4 DEF Live, Held
    <3> QED BY <2>3, <2>4, <3>1 DEF Live
  <2>6. SizeAt(ab, s) = ab.buff[i].size
    BY DEF SizeAt
  <2> HIDE DEF i
  <2>7. ab.buff[i] \in GetUnAcked(ab)
    BY <2>5 DEF GetUnAcked
  <2> QED BY <2>2, <2>3, <2>6, <2>7
<1> QED BY <1>1, AlwaysIInv, AlwaysWeighed, PTL
=============================================================================
