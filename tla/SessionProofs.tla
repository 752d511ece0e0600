--------------------------- MODULE SessionProofs ----------------------------
(***************************************************************************)
(* A client implements Outbox, and its receipts tell the truth about       *)
(* Close, for every set of messages and windows, any number of frames and  *)
(* of ACKs under way, and any interleaving of the goroutines.              *)
(***************************************************************************)
EXTENDS SessionStepProofs

-----------------------------------------------------------------------------
(* Every step keeps the phases and the receipts. *)

\* What Close returns is what the buffer holds.
LEMMA LeftoversAreHeld ==
  ASSUME BufferInv
  PROVE  {f.seq : f \in GetUnAcked(ab)} = Live(ab)
<1>1. /\ BufferType(ab) /\ Numbered(ab) /\ ab.firstSeqNum \in Nat /\ Len(ab.buff) \in Nat
      /\ ab.nextSeqNum = ab.firstSeqNum + Len(ab.buff) /\ DOMAIN ab.buff = 1 .. Len(ab.buff)
  BY SMTT(30), BufferFacts, TypeFacts DEF BufferInv
<1> DEFINE J == {j \in DOMAIN ab.buff : ab.firstSeqNum + j - 1 \notin ab.retired}
<1>2. {f.seq : f \in GetUnAcked(ab)} = {ab.buff[i].seq : i \in J}
  BY DEF GetUnAcked
<1>3. \A i \in J : ab.buff[i].seq = ab.firstSeqNum + i - 1 /\ ab.firstSeqNum + i - 1 \in Live(ab)
  BY <1>1 DEF Numbered, Live, Held
<1>4. \A s \in Live(ab) : s - ab.firstSeqNum + 1 \in J
                          /\ ab.buff[s - ab.firstSeqNum + 1].seq = s
  <2>1. SUFFICES ASSUME NEW s \in Live(ab)
                 PROVE  s - ab.firstSeqNum + 1 \in J
                        /\ ab.buff[s - ab.firstSeqNum + 1].seq = s
    OBVIOUS
  <2>2. /\ s \in Int /\ s - ab.firstSeqNum + 1 \in 1 .. Len(ab.buff) /\ s \notin ab.retired
        /\ ab.firstSeqNum + (s - ab.firstSeqNum + 1) - 1 = s
    BY <1>1 DEF Live, Held
  <2>3. s - ab.firstSeqNum + 1 \in J
    BY <1>1, <2>2
  <2> QED BY SMTT(30), <1>3, <2>2, <2>3
<1> HIDE DEF J
<1> QED BY SMTT(30), <1>2, <1>3, <1>4

\* What Close returns is never what leftovers holds before.
LEMMA LeftoversAreSet ==
  ASSUME BufferInv
  PROVE  Live(ab) # NotYet
<1>1. PICK lg : Sound(ab, lg)
  BY DEF BufferInv
<1>2. Live(ab) \subseteq Assigned(ab)
  BY Zenon, <1>1, BoxHolds
<1> QED BY SMTT(30), <1>2 DEF Assigned, NotYet

\* The phases.
LEMMA PhaseStep ==
  ASSUME WireInv, PhaseInv, BufferInv, [Next]_vars
  PROVE  PhaseInv'
<1>1. ASSUME NEW m \in Messages, Ship(m) PROVE PhaseInv'
  <2>1. ab'.isRunning = ab.isRunning /\ ab'.nextIndexToDeliver = ab.nextIndexToDeliver
    BY <1>1, ShipEffect DEF Admitted
  <2> QED BY Zenon, <1>1, <2>1 DEF PhaseInv, Ship, wire
<1>2. CASE Deliver
  <2>1. ab'.isRunning = ab.isRunning
    BY <1>2, DeliverStep DEF Sent, LooksSame
  <2> QED BY <1>2, <2>1 DEF PhaseInv, Deliver, receipts, peer
<1>3. CASE Listen
  <2>1. ab'.isRunning = ab.isRunning
    BY <1>3, ListenStep DEF Acknowledged
  <2> QED BY <1>3, <2>1 DEF PhaseInv, Listen, receipts, peer
<1>4. ASSUME NEW cap \in Windows, Flow(cap) PROVE PhaseInv'
  <2>1. ab'.isRunning = ab.isRunning /\ ab'.nextIndexToDeliver = ab.nextIndexToDeliver
    BY <1>4, ResizeStep, SessionAssumption DEF Flow, SameFrames
  <2> QED BY <1>4, <2>1 DEF PhaseInv, Flow, wire
<1>5. CASE Shrink
  <2>1. ab'.isRunning = ab.isRunning
    BY <1>5, ResizeStep DEF Shrink
  <2> QED BY <1>5, <2>1 DEF PhaseInv, Shrink, wire
<1>6. CASE Reset
  <2>1. ab'.isRunning = ab.isRunning /\ ab'.nextIndexToDeliver = 0
    BY Zenon, <1>6, ResetStep DEF StartedOver
  <2> QED BY <1>6, <2>1 DEF PhaseInv, Reset, wire
<1>7. CASE CloseAb
  <2>1. ~ab'.isRunning /\ ab'.nextIndexToDeliver = ab.nextIndexToDeliver
    BY <1>7, CloseSteps DEF SameFrames
  <2> QED BY <1>7, <2>1 DEF PhaseInv, CloseAb, wire
<1>8. CASE Detach
  <2>1. ab'.isRunning = ab.isRunning /\ ab'.nextIndexToDeliver = ab.nextIndexToDeliver
    BY <1>8, CloseSteps DEF SameFrames
  <2> QED BY <1>8, <2>1 DEF PhaseInv, Detach, wire
<1>9. CASE Elsewhere
  <2>1. ab' = ab
    BY <1>9, ElsewhereStep
  <2>2. CASE Write
    BY <2>1, <2>2 DEF PhaseInv, Write
  <2>3. CASE PeerRead \/ \E s \in received : PeerAck(s)
    BY <2>1, <2>3 DEF PhaseInv, PeerRead, PeerAck
  <2>4. CASE Join \/ CloseJoin
    BY <2>1, <2>4 DEF PhaseInv, Join, CloseJoin, Disconnect
  <2>5. CASE Reconnect \/ Dial
    BY Zenon, <2>1, <2>5 DEF PhaseInv, Reconnect, Dial, wire, isClosing
  <2>6. CASE \/ Close
             \/ SetLifetime("mark", "closing", "seal")
             \/ SetLifetime("last", "closed", "closed")
    BY <2>1, <2>6 DEF PhaseInv, Close, SetLifetime, wire
  <2>8. CASE Collect
    <3>1. leftovers' = Live(ab)
      BY Zenon, <2>8, LeftoversAreHeld DEF Collect
    <3>2. leftovers' # NotYet
      BY Zenon, <3>1, LeftoversAreSet
    <3> QED BY <2>1, <2>8, <3>2 DEF PhaseInv, Collect, wire
  <2>7. CASE UNCHANGED <<wire, rc, cl, leftovers>>
    BY <2>1, <2>7 DEF PhaseInv, wire
  <2> QED BY Zenon, <1>9, <2>2, <2>3, <2>4, <2>5, <2>6, <2>7, <2>8 DEF Elsewhere, Bind, Observe,
             Watch, ReadLifetime, RereadFrame, FinishLifetime, Forget, vars, wire
<1> QED BY Zenon, <1>1, <1>2, <1>3, <1>4, <1>5, <1>6, <1>7, <1>8, <1>9, Cases

\* Receipts are final, and late ones do not contradict what Close returned.
ReceiptsMove ==
  /\ DOMAIN ab.receipts \subseteq DOMAIN ab'.receipts
  /\ \A s \in DOMAIN ab.receipts :
       /\ ab.receipts[s] \in {"acknowledged", "retired"} => ab'.receipts[s] = ab.receipts[s]
       /\ cl \in {"detach", "last", "closed"} /\ ab'.receipts[s] # ab.receipts[s] =>
            ab'.receipts[s] = "retired"
  /\ ~ab.isRunning => DOMAIN ab'.receipts = DOMAIN ab.receipts
  /\ cl = "closed" => ab'.receipts = ab.receipts
  /\ ~Listen => \A s \in DOMAIN ab'.receipts :
                  ab'.receipts[s] = "acknowledged" =>
                    s \in DOMAIN ab.receipts /\ ab.receipts[s] = "acknowledged"

\* What one step may do to the receipts.
LEMMA ReceiptStep ==
  ASSUME WireInv, PhaseInv, BufferInv, [Next]_vars
  PROVE  ReceiptsMove
<1>0. DOMAIN ab.receipts = Assigned(ab) /\ ab.nextSeqNum \in Nat \ {0}
      /\ ab.receipts \in Seq(FrameStates) /\ Len(ab.receipts) = ab.nextSeqNum - 1
  BY BufferFacts DEF BufferType, SequencesType
<1>1. ASSUME NEW m \in Messages, Ship(m) PROVE ReceiptsMove
  <2> DEFINE cell == IF m.receipt THEN "retained" ELSE "none"
  <2>1. ab'.receipts = Append(ab.receipts, cell) /\ cell \in FrameStates /\ cell # "acknowledged"
    BY <1>1, ShipEffect DEF Admitted, FrameStates
  <2> HIDE DEF cell
  <2>2. /\ DOMAIN ab'.receipts = DOMAIN ab.receipts \cup {ab.nextSeqNum}
        /\ \A s \in DOMAIN ab.receipts : ab'.receipts[s] = ab.receipts[s]
        /\ ab'.receipts[ab.nextSeqNum] = cell
    BY SMTT(30), <1>0, <2>1 DEF Assigned
  <2>3. ab.isRunning /\ cl \notin {"detach", "last", "closed"}
    BY <1>1 DEF Ship, PhaseInv
  <2> QED BY SMTT(30), <2>1, <2>2, <2>3 DEF ReceiptsMove
<1>2. ASSUME ab'.receipts = ab.receipts PROVE ReceiptsMove
  BY <1>2 DEF ReceiptsMove
<1>3. CASE Deliver
  BY SMTT(30), <1>2, <1>3, DeliverStep DEF Sent, LooksSame
<1>4. CASE Listen
  <2>1. cl \notin {"detach", "last", "closed"}
    BY <1>4 DEF Listen, PhaseInv
  <2>2. CASE Acknowledged(ab, Head(toClient), ab')
    <3>1. /\ DOMAIN ab'.receipts = DOMAIN ab.receipts
          /\ \A s \in DOMAIN ab.receipts :
               ab.receipts[s] # "retained" => ab'.receipts[s] = ab.receipts[s]
      BY <2>2 DEF Acknowledged
    <3> QED BY SMTT(30), <1>4, <2>1, <3>1 DEF ReceiptsMove
  <2> QED BY SMTT(30), <1>2, <1>4, <2>2, ListenStep
<1>5. ASSUME NEW cap \in Windows, Flow(cap) PROVE ReceiptsMove
  BY SMTT(30), <1>2, <1>5, ResizeStep, SessionAssumption DEF Flow, SameFrames
<1>6. CASE Shrink
  BY SMTT(30), <1>2, <1>6, ResizeStep DEF Shrink, SameFrames
<1>7. CASE Reset
  <2>1. PICK S : StartedOver(ab, S, ab')
    BY SMTT(30), <1>7, ResetStep
  <2>2. /\ S \subseteq Live(ab) \cap DOMAIN ab.tracked
        /\ ab'.receipts = [s \in DOMAIN ab.receipts |->
                             IF s \in S THEN "retired" ELSE ab.receipts[s]]
    BY <2>1 DEF StartedOver
  <2>3. CASE S = {}
    <3>1. ab.receipts = [s \in DOMAIN ab.receipts |-> ab.receipts[s]]
      BY SMTT(30), <1>0, LenProperties
    <3> QED BY SMTT(30), <1>2, <2>2, <2>3, <3>1
  <2>4. CASE S # {}
    <3>1. cl # "closed"
      BY SMTT(30), <2>2, <2>4 DEF BufferInv
    <3>2. \A s \in S : ab.receipts[s] # "acknowledged"
      <4>1. Marks(ab) /\ S \subseteq DOMAIN ab.receipts
        BY SMTT(30), <2>2, BufferFacts, TypeFacts DEF BufferInv, Sound, Core, Live
      <4> QED BY SMTT(30), <2>2, <4>1 DEF Marks, Live
    <3> QED BY SMTT(30), <1>7, <2>2, <3>1, <3>2 DEF ReceiptsMove
  <2> QED BY <2>3, <2>4
<1>8. CASE CloseAb \/ Detach
  BY SMTT(30), <1>2, <1>8, CloseSteps DEF SameFrames
<1>9. CASE Elsewhere
  BY SMTT(30), <1>2, <1>9, ElsewhereStep
<1> QED BY Zenon, <1>1, <1>3, <1>4, <1>5, <1>6, <1>7, <1>8, <1>9, Cases

\* The owner's lifetime follows Close; the receipts agree with early and leftovers.
ReceiptInv ==
  /\ owner \in {"nil", "live", "closing", "closed"}
  /\ lifetime \in {"unknown", "closing", "closed"}
  /\ owner = "closed" \/ lifetime = "closed" => cl = "closed"
  /\ cl = "open" => \A s \in DOMAIN ab.receipts : ab.receipts[s] = "acknowledged" => s \in early
  /\ cl \in {"detach", "last", "closed"} =>
       \A s \in DOMAIN ab.receipts : /\ ab.receipts[s] = "retained" => s \in leftovers
                                     /\ ab.receipts[s] = "acknowledged" => s \notin leftovers

\* Where ObserveReceipt is, and what it has read.
LookInv ==
  /\ ob \in [pc : {"idle", "lifetime", "reread", "closing", "done"}, seq : Nat,
             frame : FrameStates \cup {"unconfirmed"},
             lifetime : {"unknown", "nil", "live", "closing", "closed"}]
  /\ ob.pc # "idle" => ob.seq \in DOMAIN ab.receipts
  /\ ob.pc \in {"lifetime", "closing"} /\ ob.frame = "acknowledged" =>
       ab.receipts[ob.seq] = "acknowledged"
  /\ ob.pc = "reread" => ob.lifetime = "closed" /\ cl = "closed"
  /\ ob.pc = "closing" => ob.lifetime # "closed"
  /\ ob.pc = "done" /\ ob.lifetime = "closed" =>
       /\ cl = "closed"
       /\ ob.frame = IF ab.receipts[ob.seq] = "retained" THEN "unconfirmed"
                     ELSE ab.receipts[ob.seq]
  /\ LiveMeansBeforeClose

\* How a step moves Close, the lifetimes and the histories.
LEMMA CloseMoves ==
  ASSUME PhaseInv, ReceiptInv, [Next]_vars
  PROVE  /\ owner' \in {"nil", "live", "closing", "closed"}
         /\ lifetime' \in {"unknown", "closing", "closed"}
         /\ owner' = "closed" \/ lifetime' = "closed" => cl' = "closed"
         /\ cl = "closed" => cl' = "closed"
         /\ cl' = "open" => cl = "open"
         /\ early \subseteq early' /\ (~Listen => early' = early)
         /\ cl' \in {"detach", "last", "closed"} /\ ~Collect =>
              cl \in {"detach", "last", "closed"} /\ leftovers' = leftovers
         /\ ob' = ob \/ Observe
<1> DEFINE P == /\ owner' \in {"nil", "live", "closing", "closed"}
                /\ lifetime' \in {"unknown", "closing", "closed"}
                /\ owner' = "closed" \/ lifetime' = "closed" => cl' = "closed"
                /\ cl = "closed" => cl' = "closed"
                /\ cl' = "open" => cl = "open"
                /\ early \subseteq early' /\ (~Listen => early' = early)
                /\ cl' \in {"detach", "last", "closed"} /\ ~Collect =>
                     cl \in {"detach", "last", "closed"} /\ leftovers' = leftovers
                /\ ob' = ob \/ Observe
<1>1. ASSUME UNCHANGED <<cl, receipts, leftovers, early>>, ob' = ob \/ Observe PROVE P
  BY <1>1 DEF receipts, ReceiptInv
<1>2. ASSUME NEW m \in Messages, Ship(m) PROVE P
  BY <1>2 DEF Ship, ReceiptInv
<1>3. ASSUME NEW s \in shipping, Bind(s) PROVE P
  BY SMTT(30), <1>3 DEF Bind, NewOwner, isClosing, ReceiptInv
<1>4. ASSUME Listen PROVE P
  BY <1>4 DEF Listen, ReceiptInv, receipts
<1>5. ASSUME SetLifetime("mark", "closing", "seal") \/ SetLifetime("last", "closed", "closed")
      PROVE  P
  BY SMTT(30), <1>5 DEF SetLifetime, ReceiptInv
<1>6. ASSUME Close \/ CloseAb \/ CloseJoin \/ Collect \/ Detach PROVE P
  BY <1>6 DEF Close, CloseAb, CloseJoin, Collect, Detach, ReceiptInv, receipts
<1>7. ASSUME Transport /\ ~Listen PROVE P
  <2>1. UNCHANGED <<cl, receipts, leftovers, ob, early>>
    BY SMTT(30), <1>7 DEF Transport, Deliver, Write, PeerRead, Flow, PeerAck, receipts
  <2> QED BY SMTT(30), <1>1, <2>1
<1>8. ASSUME Reconnecting PROVE P
  <2>1. UNCHANGED <<cl, receipts, leftovers, ob, early>>
    BY <1>8 DEF Reconnecting, Reconnect, Join, Shrink, Reset, Dial, receipts
  <2> QED BY <1>1, <2>1
<1>9. ASSUME Observe PROVE P
  <2>1. UNCHANGED <<cl, receipts, leftovers, early>>
    BY Zenon, <1>9 DEF Observe, Watch, ReadLifetime, RereadFrame, FinishLifetime, Forget, receipts
  <2> QED BY SMTT(30), <1>1, <1>9, <2>1
<1>10. ASSUME UNCHANGED vars PROVE P
  BY <1>1, <1>10 DEF vars
<1> HIDE DEF P
<1>11. P
  BY Zenon, <1>2, <1>3, <1>4, <1>5, <1>6, <1>7, <1>8, <1>9, <1>10 DEF Next, Closing
<1> QED BY <1>11 DEF P

\* Every step keeps the receipts in agreement with Close.
LEMMA ReceiptInvStep ==
  ASSUME WireInv, PhaseInv, BufferInv, ReceiptInv, [Next]_vars
  PROVE  ReceiptInv'
<1>1. ReceiptsMove
  BY ReceiptStep
<1>2. ASSUME cl' = "open", NEW s \in DOMAIN ab'.receipts, ab'.receipts[s] = "acknowledged"
      PROVE  s \in early'
  <2>1. cl = "open"
    BY <1>2, CloseMoves
  <2>2. CASE Listen
    <3>1. DOMAIN ab'.receipts = DOMAIN ab.receipts
      <4>1. CASE Acknowledged(ab, Head(toClient), ab')
        BY <4>1 DEF Acknowledged
      <4> QED BY SMTT(30), <2>2, <4>1, ListenStep
    <3> QED BY SMTT(30), <1>2, <2>1, <2>2, <3>1 DEF Listen, isClosing
  <2>3. CASE ~Listen
    <3>1. early' = early
      BY <2>3, CloseMoves
    <3> QED BY SMTT(30), <1>1, <1>2, <2>1, <2>3, <3>1 DEF ReceiptsMove, ReceiptInv
  <2> QED BY <2>2, <2>3
<1>3. ASSUME cl' \in {"detach", "last", "closed"}, NEW s \in DOMAIN ab'.receipts
      PROVE  /\ ab'.receipts[s] = "retained" => s \in leftovers'
             /\ ab'.receipts[s] = "acknowledged" => s \notin leftovers'
  <2>1. CASE Collect
    <3>1. leftovers' = Live(ab) /\ ab' = ab
      BY <2>1, LeftoversAreHeld DEF Collect
    <3>2. Marks(ab)
      BY DEF BufferInv, Sound, Core
    <3> QED BY <3>1, <3>2 DEF Marks, Live
  <2>2. CASE ~Collect
    <3>1. cl \in {"detach", "last", "closed"} /\ leftovers' = leftovers /\ ~ab.isRunning
      BY SMTT(30), <1>3, <2>2, CloseMoves DEF PhaseInv
    <3>2. s \in DOMAIN ab.receipts /\ (ab'.receipts[s] = ab.receipts[s]
                                        \/ ab'.receipts[s] = "retired")
      BY <1>1, <3>1 DEF ReceiptsMove
    <3> QED BY <3>1, <3>2 DEF ReceiptInv
  <2> QED BY <2>1, <2>2
<1> QED BY SMTT(30), <1>2, <1>3, CloseMoves DEF ReceiptInv

\* Every step keeps what ObserveReceipt has read true.
LEMMA LookStep ==
  ASSUME WireInv, PhaseInv, BufferInv, ReceiptInv, LookInv, [Next]_vars
  PROVE  LookInv'
<1>1. ReceiptsMove
  BY ReceiptStep
<1>2. CASE ob' = ob
  <2>1. cl = "closed" => cl' = "closed" /\ ab'.receipts = ab.receipts
    BY <1>1, CloseMoves DEF ReceiptsMove
  <2>2. early \subseteq early'
    BY CloseMoves
  <2> QED BY SMTT(30), <1>1, <1>2, <2>1, <2>2 DEF LookInv, LiveMeansBeforeClose, ReceiptsMove
<1>3. CASE Observe
  <2>0. /\ UNCHANGED <<ab, cl, owner, lifetime, early>>
        /\ \A s \in DOMAIN ab.receipts : ab.receipts[s] \in FrameStates /\ s \in Nat
    <3>1. UNCHANGED <<ab, cl, owner, lifetime, early>>
      BY Zenon, <1>3 DEF Observe, Watch, ReadLifetime, RereadFrame, FinishLifetime, Forget, receipts
    <3>2. \A s \in Assigned(ab) : s \in Nat
      BY BufferFacts DEF Assigned
    <3> QED BY SMTT(30), <3>1, <3>2, BufferFacts
  <2>1. ASSUME NEW s \in Watched, Watch(s) PROVE LookInv'
    BY Zenon, <2>0, <2>1 DEF Watch, Idle, LookInv, LiveMeansBeforeClose
  <2>2. CASE ReadLifetime
    BY Zenon, <2>0, <2>2 DEF ReadLifetime, LookInv, LiveMeansBeforeClose, ReceiptInv
  <2>3. CASE RereadFrame
    BY Zenon, <2>0, <2>3 DEF RereadFrame, Reread, LookInv, LiveMeansBeforeClose
  <2>4. CASE FinishLifetime
    BY ZenonT(40), <2>0, <2>4 DEF FinishLifetime, ReadClosing, isClosing, LookInv, LiveMeansBeforeClose,
       ReceiptInv
  <2>5. CASE Forget
    BY <2>0, <2>5 DEF Forget, Idle, LookInv, LiveMeansBeforeClose, FrameStates
  <2> QED BY SMTT(30), <1>3, <2>1, <2>2, <2>3, <2>4, <2>5 DEF Observe
<1> QED BY <1>2, <1>3, CloseMoves

IInv == BufferInv /\ WireInv /\ PhaseInv /\ ReceiptInv /\ LookInv

\* A new client satisfies the inductive invariant.
LEMMA InitIInv == Init => IInv
<1> SUFFICES ASSUME Init PROVE IInv
  OBVIOUS
<1>1. /\ ab = NewAckBuffer /\ cl = "open" /\ Len(<<>>) = 0 /\ DOMAIN <<>> = {}
      /\ ab.receipts = <<>> /\ ab.nextSeqNum = 1 /\ ab.buff = <<>> /\ ab.firstSeqNum = 1
  BY EmptySeq DEF Init, NewAckBuffer
<1>2. BufferInv
  <2>1. (\E lg : Sound(ab, lg)) /\ Tracked(ab)
    BY <1>1, NewIsSound
  <2>2. Numbered(ab)
    BY <1>1 DEF Numbered
  <2> QED BY SMTT(30), <1>1, <2>1, <2>2 DEF BufferInv
<1>3. WireInv
  <2>1. Elements(<<>>) = {} /\ Live(ab) = {}
    BY <1>1 DEF Elements, Live, Held
  <2>2. Behind(ab) = {} /\ Assigned(ab) = {}
    BY <1>1, <2>1 DEF Behind, Assigned
  <2>3. Flowing(ab, conn, inHand, toPeer, received, garbled)
    BY SMTT(30), <1>1, <2>1, <2>2 DEF Init, Flowing
  <2>4. conn \in BOOLEAN /\ <<>> \in Seq(Nat)
    BY EmptySeq DEF Init
  <2> QED BY ZenonT(40), <2>1, <2>3, <2>4 DEF Init, WireInv
<1>4. PhaseInv
  BY DEF Init, PhaseInv
<1>5. ReceiptInv
  BY SMTT(30), <1>1 DEF Init, ReceiptInv
<1>6. LookInv
  BY DEF Init, LookInv, Idle, LiveMeansBeforeClose, FrameStates
<1> QED BY SMTT(30), <1>2, <1>3, <1>4, <1>5, <1>6 DEF IInv

\* Every step keeps the inductive invariant.
LEMMA StepIInv == IInv /\ [Next]_vars => IInv'
<1> SUFFICES ASSUME IInv, [Next]_vars PROVE IInv'
  OBVIOUS
<1>0. BufferInv /\ WireInv /\ PhaseInv /\ ReceiptInv /\ LookInv
  BY DEF IInv
<1>1. BufferInv'
  <2>1. ASSUME NEW m \in Messages, Ship(m) PROVE BufferInv'
    BY SMTT(30), <1>0, <2>1, ShipEffect
  <2>2. ASSUME NEW cap \in Windows, Flow(cap) PROVE BufferInv'
    BY SMTT(30), <1>0, <2>2, ResizeStep, SessionAssumption DEF Flow
  <2>3. CASE Shrink
    BY SMTT(30), <1>0, <2>3, ResizeStep DEF Shrink
  <2> QED BY SMTT(30), <1>0, <2>1, <2>2, <2>3, Cases, DeliverStep, ListenStep, ResetStep, CloseSteps,
             ElsewhereStep
<1>2. WireInv' /\ PhaseInv' /\ ReceiptInv' /\ LookInv'
  BY SMTT(30), <1>0, WireStep, PhaseStep, ReceiptInvStep, LookStep
<1> QED BY <1>1, <1>2 DEF IInv

\* The inductive invariant always holds.
LEMMA AlwaysIInv == Spec => []IInv
BY InitIInv, StepIInv, PTL DEF Spec

-----------------------------------------------------------------------------
(* The theorems. *)

\* ObserveReceipt reports live and acknowledged only for an ACK applied before
\* Close was called, for any interleaving of its three loads with Close and with
\* the listener.
THEOREM LiveIsEarly == Spec => []LiveMeansBeforeClose
<1>1. IInv => LiveMeansBeforeClose
  BY SMTT(30) DEF IInv, LookInv
<1> QED BY <1>1, AlwaysIInv, PTL

\* What ObserveReceipt reports of a closed client stays true; frames it reports
\* unconfirmed were returned by Close, acknowledged ones were not.
THEOREM ClosedStaysFinal == Spec => []ClosedIsFinal
<1>1. IInv => ClosedIsFinal
  <2>1. SUFFICES ASSUME IInv, ob.pc = "done", ob.lifetime = "closed" PROVE ClosedIsFinal
    BY DEF ClosedIsFinal
  <2>2. /\ ob.seq \in DOMAIN ab.receipts /\ cl = "closed"
        /\ ob.frame = IF ab.receipts[ob.seq] = "retained" THEN "unconfirmed"
                      ELSE ab.receipts[ob.seq]
    BY <2>1 DEF IInv, LookInv
  <2>3. /\ ab.receipts[ob.seq] = "retained" => ob.seq \in leftovers
        /\ ab.receipts[ob.seq] = "acknowledged" => ob.seq \notin leftovers
    BY SMTT(30), <2>1, <2>2 DEF IInv, ReceiptInv
  <2>4. ab.receipts[ob.seq] # "unconfirmed"
    BY <2>1, <2>2, BufferFacts DEF IInv, FrameStates
  <2> QED BY SMTT(30), <2>2, <2>3, <2>4 DEF ClosedIsFinal
<1> QED BY <1>1, AlwaysIInv, PTL

\* A message of Outbox is a frame of the buffer.
LEMMA BoxIs ==
  ASSUME BufferInv
  PROVE  /\ Box = BoxOf(ab) /\ DOMAIN Box = Assigned(ab) /\ O!HeldIn(Box) = Live(ab)
         /\ Live(ab) \subseteq Assigned(ab)
<1>1. Box = BoxOf(ab)
  BY DEF Box, BoxOf
<1>2. PICK lg : Sound(ab, lg)
  BY DEF BufferInv
<1>3. /\ DOMAIN BoxOf(ab) = Assigned(ab) /\ Live(ab) \subseteq Assigned(ab)
      /\ {s \in DOMAIN BoxOf(ab) : BoxOf(ab)[s] = "held"} = Live(ab)
  BY Zenon, <1>2, BoxHolds
<1> QED BY Zenon, <1>1, <1>3 DEF O!HeldIn

\* Every step of the client is a step of Outbox or leaves it unchanged.
LEMMA RefineStep == IInv /\ [Next]_vars => [O!Next]_(O!vars)
<1> SUFFICES ASSUME IInv, [Next]_vars PROVE [O!Next]_(O!vars)
  OBVIOUS
<1>0. BufferInv /\ WireInv /\ PhaseInv /\ BufferInv'
  BY SMTT(30), StepIInv DEF IInv
<1>1. /\ Box = BoxOf(ab) /\ DOMAIN Box = Assigned(ab) /\ O!HeldIn(Box) = Live(ab)
      /\ Live(ab) \subseteq Assigned(ab) /\ Box' = BoxOf(ab')
  BY <1>0, BoxIs DEF Box, BoxOf
<1>2. PICK lg : Sound(ab, lg)
  BY <1>0 DEF BufferInv
<1>3. ASSUME ab'.nextSeqNum = ab.nextSeqNum, ab'.receipts = ab.receipts, Live(ab') = Live(ab),
             ab'.isRunning = ab.isRunning, UNCHANGED <<received, garbled, leftovers, Detached>>
      PROVE  UNCHANGED O!vars
  <2>1. Box' = Box
    BY SMTT(30), <1>1, <1>3, BoxSame
  <2> QED BY <1>3, <2>1 DEF O!vars
<1>4. ASSUME NEW m \in Messages, Ship(m) PROVE O!Accept
  <2>1. Admitted(ab, m.receipt, ab')
    BY SMTT(30), <1>0, <1>4, ShipEffect
  <2>2. BoxOf(ab') = Append(BoxOf(ab), "held") /\ Len(BoxOf(ab)) = ab.nextSeqNum - 1
    BY Zenon, <1>2, <2>1, BoxAdmit
  <2>3. Len(Box) + 1 = ab.nextSeqNum
    BY SMTT(30), <1>0, <1>1, <2>2, BufferFacts
  <2>4. /\ ab.isRunning /\ ab'.isRunning = ab.isRunning
        /\ UNCHANGED <<received, leftovers, Detached>>
        /\ garbled' = garbled \/ garbled' = garbled \cup {ab.nextSeqNum}
    BY ZenonT(40), <1>4, <2>1 DEF Ship, Admitted, Detached
  <2> QED BY SMTT(30), <1>1, <2>2, <2>3, <2>4 DEF O!Accept
<1>5. CASE Deliver
  <2>1. /\ ab'.nextSeqNum = ab.nextSeqNum /\ ab'.receipts = ab.receipts
        /\ Live(ab') = Live(ab) /\ ab'.isRunning = ab.isRunning
    BY <1>0, <1>5, DeliverStep DEF Sent, LooksSame
  <2> QED BY <1>3, <1>5, <2>1 DEF Deliver, peer, Detached
<1>6. CASE Listen
  <2> DEFINE seq == Head(toClient)
  <2>1. /\ UNCHANGED <<received, garbled, leftovers, Detached>>
        /\ leftovers = NotYet /\ toClient # <<>>
    BY <1>0, <1>6 DEF Listen, peer, PhaseInv, Detached
  <2>2. CASE ab' = ab
    BY SMTT(30), <1>3, <2>1, <2>2
  <2>3. CASE Acknowledged(ab, seq, ab')
    <3>1. seq \in received
      <4>1. seq = toClient[1] /\ 1 \in 1 .. Len(toClient)
        BY SMTT(30), <1>0, <2>1, HeadTailProperties, EmptySeq DEF WireInv
      <4> QED BY <1>0, <4>1 DEF WireInv, Elements
    <3>2. seq \in Assigned(ab) /\ Before(ab, seq) \subseteq (received \cup garbled)
      BY <1>0, <3>1 DEF WireInv, Flowing
    <3> HIDE DEF seq
    <3>3. {t \in Live(ab) : t <= seq} \subseteq Before(ab, seq) \cup {seq}
      <4>1. Assigned(ab) \subseteq Nat
        BY <1>0, BufferFacts DEF Assigned
      <4> QED BY SMTT(30), <1>1, <3>2, <4>1 DEF Before
    <3>4. O!Arrived({t \in O!HeldIn(Box) : t <= seq})
      BY SMTT(30), <1>1, <3>1, <3>2, <3>3 DEF O!Arrived
    <3>5. Box' = [t \in DOMAIN Box |->
                    IF t <= seq /\ Box[t] = "held" THEN "acknowledged" ELSE Box[t]]
      <4>1. BoxOf(ab') = [t \in DOMAIN BoxOf(ab) |->
                            IF t <= seq /\ BoxOf(ab)[t] = "held" THEN "acknowledged"
                            ELSE BoxOf(ab)[t]]
        BY Zenon, <1>2, <2>3, BoxAck
      <4> QED BY Zenon, <1>1, <4>1
    <3>6. ab'.isRunning = ab.isRunning
      BY <2>3 DEF Acknowledged
    <3>7. O!Confirm(seq)
      BY Zenon, <2>1, <3>4, <3>5, <3>6 DEF O!Confirm, O!NotYet, NotYet
    <3> QED BY Zenon, <1>1, <3>2, <3>7 DEF O!Next
  <2> QED BY SMTT(30), <1>0, <1>6, <2>2, <2>3, ListenStep
<1>7. CASE Reset
  <2>1. PICK S : StartedOver(ab, S, ab')
    BY SMTT(30), <1>0, <1>7, ResetStep
  <2>2. S \subseteq Live(ab) \cap DOMAIN ab.tracked /\ ab'.isRunning = ab.isRunning
    BY <2>1 DEF StartedOver
  <2>3. BoxOf(ab') = [t \in DOMAIN BoxOf(ab) |-> IF t \in S THEN "retired" ELSE BoxOf(ab)[t]]
    BY ZenonT(60), <1>2, <2>1, BoxReset
  <2>4. Box' = [t \in DOMAIN Box |-> IF t \in S THEN "retired" ELSE Box[t]]
    BY Zenon, <1>1, <2>3
  <2>5. UNCHANGED <<received, garbled, leftovers, Detached>>
    BY <1>7 DEF Reset, peer, Detached
  <2>6. O!GiveUp(S) /\ S \in SUBSET O!HeldIn(Box)
    BY <1>1, <2>2, <2>4, <2>5 DEF O!GiveUp
  <2>7. CASE Detached
    <3>1. S = {}
      BY <1>0, <2>2, <2>7 DEF BufferInv, Detached
    <3>2. Box = [t \in DOMAIN Box |-> Box[t]]
      BY DEF Box
    <3>3. Box' = [t \in DOMAIN Box |-> Box[t]]
      BY <2>4, <3>1
    <3> QED BY <2>2, <2>5, <3>2, <3>3 DEF O!vars
  <2>8. CASE leftovers = NotYet
    BY Zenon, <2>6, <2>8 DEF O!Next, O!Retire, O!NotYet, NotYet
  <2>9. CASE leftovers # NotYet /\ ~Detached
    BY Zenon, <2>6, <2>9 DEF O!Next, O!RetireReturned, O!NotYet, NotYet
  <2> QED BY Zenon, <2>7, <2>8, <2>9
<1>8. ASSUME NEW cap \in Windows, Flow(cap) PROVE UNCHANGED O!vars
  <2>1. SameFrames(ab, ab') /\ ab'.isRunning = ab.isRunning
    BY SMTT(30), <1>0, <1>8, ResizeStep, SessionAssumption DEF Flow
  <2> QED BY SMTT(30), <1>3, <1>8, <2>1 DEF Flow, peer, SameFrames, Detached
<1>9. CASE Shrink
  <2>1. SameFrames(ab, ab') /\ ab'.isRunning = ab.isRunning
    BY SMTT(30), <1>0, <1>9, ResizeStep DEF Shrink
  <2> QED BY SMTT(30), <1>3, <1>9, <2>1 DEF Shrink, peer, SameFrames, Detached
<1>10. CASE CloseAb
  <2>1. SameFrames(ab, ab') /\ ~ab'.isRunning
    BY SMTT(30), <1>0, <1>10, CloseSteps
  <2>2. Box' = Box
    BY SMTT(30), <1>1, <2>1, BoxSame DEF SameFrames
  <2>3. ab'.isRunning = FALSE
    BY SMTT(30), <1>0, <2>1, BufferFacts DEF BufferInv, Sound, Core, BufferType, FlagsType
  <2>4. O!Shut
    BY SMTT(30), <1>10, <2>2, <2>3 DEF CloseAb, O!Shut, peer, Detached
  <2> QED BY Zenon, <2>4 DEF O!Next
<1>11. CASE Detach
  <2>1. SameFrames(ab, ab') /\ ab'.isRunning = ab.isRunning
    BY SMTT(30), <1>0, <1>11, CloseSteps
  <2>2. Box' = Box
    BY SMTT(30), <1>1, <2>1, BoxSame DEF SameFrames
  <2>3. leftovers # NotYet /\ Detached' = TRUE /\ UNCHANGED <<received, garbled, leftovers>>
    BY <1>0, <1>11 DEF Detach, PhaseInv, Detached, peer
  <2>4. O!Rest
    BY Zenon, <2>1, <2>2, <2>3 DEF O!Rest, O!NotYet, NotYet
  <2> QED BY Zenon, <2>4 DEF O!Next
<1>12. CASE Elsewhere
  <2>1. ab' = ab
    BY <1>0, <1>12, ElsewhereStep
  <2>2. CASE PeerRead
    <3>1. /\ toPeer # <<>> /\ received' = received \cup {Head(toPeer)}
          /\ UNCHANGED <<garbled, leftovers, Detached>>
      BY <2>2 DEF PeerRead, Detached
    <3>2. Head(toPeer) = toPeer[1] /\ 1 \in 1 .. Len(toPeer)
      BY SMTT(30), <1>0, <3>1, HeadTailProperties, EmptySeq DEF WireInv
    <3>3. /\ Head(toPeer) \in Assigned(ab) \ garbled
          /\ Before(ab, Head(toPeer)) \subseteq (received \cup garbled)
      <4>1. /\ toPeer[1] \in Assigned(ab) \ garbled
            /\ Before(ab, toPeer[1]) \subseteq
                 (received \cup garbled \cup {toPeer[j] : j \in 1 .. 1 - 1})
        BY <1>0, <3>2 DEF WireInv, Flowing
      <4>2. {toPeer[j] : j \in 1 .. 1 - 1} = {}
        OBVIOUS
      <4> QED BY SMTT(30), <3>2, <4>1, <4>2
    <3>4. O!Arrived({t \in O!HeldIn(Box) : t < Head(toPeer)})
      BY <1>1, <3>3 DEF O!Arrived, Before
    <3>5. Box' = Box /\ ab'.isRunning = ab.isRunning
      BY <1>1, <2>1
    <3>6. O!Receive(Head(toPeer))
      BY Zenon, <1>1, <3>1, <3>3, <3>4, <3>5 DEF O!Receive
    <3> QED BY Zenon, <1>1, <3>3, <3>6 DEF O!Next
  <2>3. CASE Collect
    <3>1. leftovers = NotYet /\ ~ab.isRunning /\ leftovers' = Live(ab)
          /\ UNCHANGED <<received, garbled, Detached>>
      BY SMTT(30), <1>0, <2>3, LeftoversAreHeld DEF Collect, PhaseInv, peer, Detached
    <3>2. O!Return
      BY SMTT(30), <1>1, <2>1, <3>1 DEF O!Return, O!NotYet, NotYet
    <3> QED BY Zenon, <3>2 DEF O!Next
  <2>4. CASE UNCHANGED <<received, garbled, leftovers, Detached>>
    BY SMTT(30), <1>3, <2>1, <2>4
  <2>5. CASE \/ Close \/ CloseJoin
             \/ SetLifetime("mark", "closing", "seal")
             \/ SetLifetime("last", "closed", "closed")
    <3>1. UNCHANGED <<received, garbled, leftovers, Detached>>
      BY <2>5 DEF Close, CloseJoin, SetLifetime, peer, Detached
    <3> QED BY Zenon, <2>4, <3>1
  <2> QED BY Zenon, <1>12, <2>2, <2>3, <2>4, <2>5 DEF Elsewhere, Bind, Write, PeerAck,
             Reconnect, Join, Dial, Observe, Watch, ReadLifetime, RereadFrame,
             FinishLifetime, Forget, vars, peer, Detached
<1>13. ASSUME NEW m \in Messages, Ship(m) PROVE O!Next
  BY Zenon, <1>4, <1>13 DEF O!Next
<1> QED BY Zenon, <1>5, <1>6, <1>7, <1>8, <1>9, <1>10, <1>11, <1>12, <1>13, Cases

\* The client implements Outbox: whatever connections break and however often the
\* frames are sent again, only frames that the proxy has got are confirmed, the
\* proxy gets them in order, Close returns exactly the unconfirmed ones, and no message
\* changes its state once Close has detached the receipts.
THEOREM ClientImplementsOutbox == Spec => ImplementsOutbox
<1>1. Init => O!Init
  <2>1. SUFFICES ASSUME Init PROVE O!Init
    OBVIOUS
  <2>2. Box = <<>>
    <3>1. ab.nextSeqNum = 1
      BY <2>1 DEF Init, NewAckBuffer
    <3>2. Box = [s \in {} |-> Box[s]]
      BY SMTT(30), <3>1 DEF Box
    <3> QED BY SMTT(30), <3>2
  <2>3. ab.isRunning = TRUE
    BY <2>1 DEF Init, NewAckBuffer
  <2> QED BY SMTT(30), <2>1, <2>2, <2>3 DEF Init, O!Init, NotYet, O!NotYet, Detached
<1> QED BY <1>1, RefineStep, AlwaysIInv, PTL DEF Spec, ImplementsOutbox, O!Spec
=============================================================================
