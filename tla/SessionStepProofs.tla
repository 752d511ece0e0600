------------------------- MODULE SessionStepProofs --------------------------
(***************************************************************************)
(* The frames of Session between the buffer and the proxy: what is held    *)
(* before a frame arrives before it, through every step of the client.     *)
(***************************************************************************)
EXTENDS Session, AckBufferEffects

-----------------------------------------------------------------------------
(* The frames between the buffer and the proxy.  x is the buffer, c whether *)
(* the workers run, h the frame in the sender's hand, p the numbers written *)
(* and not read, rec the numbers received, gar those not encodable.         *)

Assigned(x) == 1 .. x.nextSeqNum - 1

Elements(p) == {p[i] : i \in 1 .. Len(p)}

Before(x, s) == {t \in Live(x) : t < s}

\* Everything handed out is somewhere, and what is held before a frame is there
\* before it.
Flowing(x, c, h, p, rec, gar) ==
  /\ gar \subseteq Assigned(x)
  /\ c => Behind(x) \subseteq (rec \cup gar \cup Elements(p) \cup {h})
  /\ h # NoFrame => /\ h \in Assigned(x)
                    /\ Before(x, h) \subseteq (rec \cup gar \cup Elements(p))
  /\ \A i \in 1 .. Len(p) :
       /\ p[i] \in Assigned(x) \ gar
       /\ Before(x, p[i]) \subseteq (rec \cup gar \cup {p[j] : j \in 1 .. i - 1})
  /\ \A s \in rec : s \in Assigned(x) /\ Before(x, s) \subseteq (rec \cup gar)

\* Frames leave the buffer, none goes behind the sender.
LEMMA FewerFlow ==
  ASSUME NEW x, NEW c, NEW h, NEW p, NEW rec, NEW gar, Flowing(x, c, h, p, rec, gar),
         NEW y, y.nextSeqNum = x.nextSeqNum, Live(y) \subseteq Live(x),
         c => Behind(y) \subseteq Behind(x)
  PROVE  Flowing(y, c, h, p, rec, gar)
<1>1. Assigned(y) = Assigned(x) /\ \A s : Before(y, s) \subseteq Before(x, s)
  BY DEF Assigned, Before
<1> QED BY <1>1 DEF Flowing

\* A frame is added, encodable or not.
LEMMA AdmitFlow ==
  ASSUME NEW x, BufferType(x), NEW c, NEW h, NEW p, NEW rec, NEW gar,
         Flowing(x, c, h, p, rec, gar),
         NEW receipt, NEW y, Admitted(x, receipt, y),
         NEW gar2, gar2 = gar \/ gar2 = gar \cup {x.nextSeqNum}
  PROVE  Flowing(y, c, h, p, rec, gar2)
<1>1. x.nextSeqNum \in Nat \ {0}
  BY TypeFacts
<1>2. y.nextSeqNum = x.nextSeqNum + 1 /\ Live(y) = Live(x) \cup {x.nextSeqNum}
      /\ Behind(y) = Behind(x)
  BY DEF Admitted
<1>3. /\ Assigned(x) \subseteq Assigned(y) /\ x.nextSeqNum \in Assigned(y)
      /\ x.nextSeqNum \notin Assigned(x)
  BY <1>1, <1>2 DEF Assigned
<1>4. \A s \in Assigned(x) : Before(y, s) = Before(x, s)
  BY <1>1, <1>2 DEF Assigned, Before
<1>5. gar \subseteq gar2 /\ gar2 \subseteq gar \cup {x.nextSeqNum}
  OBVIOUS
<1>6. gar2 \subseteq Assigned(y)
  BY <1>3, <1>5 DEF Flowing
<1>7. c => Behind(y) \subseteq (rec \cup gar2 \cup Elements(p) \cup {h})
  BY <1>2, <1>5 DEF Flowing
<1>8. h # NoFrame => /\ h \in Assigned(y)
                     /\ Before(y, h) \subseteq (rec \cup gar2 \cup Elements(p))
  BY <1>3, <1>4, <1>5 DEF Flowing
<1>9. ASSUME NEW i \in 1 .. Len(p)
      PROVE  /\ p[i] \in Assigned(y) \ gar2
             /\ Before(y, p[i]) \subseteq (rec \cup gar2 \cup {p[j] : j \in 1 .. i - 1})
  <2>1. /\ p[i] \in Assigned(x) \ gar
        /\ Before(x, p[i]) \subseteq (rec \cup gar \cup {p[j] : j \in 1 .. i - 1})
    BY DEF Flowing
  <2> QED BY <1>3, <1>4, <1>5, <2>1
<1>10. \A s \in rec : s \in Assigned(y) /\ Before(y, s) \subseteq (rec \cup gar2)
  BY <1>3, <1>4, <1>5 DEF Flowing
<1> QED BY SMTT(30), <1>6, <1>7, <1>8, <1>9, <1>10 DEF Flowing

\* GetNextToDeliver puts the next frame in the sender's empty hand.
LEMMA SentFlow ==
  ASSUME NEW x, BufferType(x), NEW p, NEW rec, NEW gar,
         Flowing(x, TRUE, NoFrame, p, rec, gar), NEW s, NEW y, Sent(x, s, y),
         NEW h, h = IF s = 0 THEN NoFrame ELSE s
  PROVE  Flowing(y, TRUE, h, p, rec, gar)
<1>1. /\ y.nextSeqNum = x.nextSeqNum /\ Live(y) = Live(x)
      /\ Behind(y) = Behind(x) \cup ({s} \cap Live(x))
      /\ s # 0 => s \in Live(x) /\ \A t \in Live(x) : t < s => t \in Behind(x)
  BY DEF Sent, LooksSame
<1>2. Live(x) \subseteq Assigned(x) /\ Assigned(x) \subseteq Nat \ {0}
  BY TypeFacts DEF Live, Held, Assigned
<1>3. Assigned(y) = Assigned(x) /\ \A t : Before(y, t) = Before(x, t)
  BY <1>1 DEF Assigned, Before
<1>4. Behind(x) \subseteq (rec \cup gar \cup Elements(p))
  <2>1. NoFrame \notin Live(x)
    BY <1>2, SessionAssumption
  <2> QED BY <2>1 DEF Flowing, Behind
<1>5. h # NoFrame => h = s /\ s # 0
  OBVIOUS
<1>6. Behind(y) \subseteq (rec \cup gar \cup Elements(p) \cup {h})
  BY <1>1, <1>2, <1>4
<1>7. h # NoFrame => /\ h \in Assigned(y)
                     /\ Before(y, h) \subseteq (rec \cup gar \cup Elements(p))
  BY <1>1, <1>2, <1>3, <1>4, <1>5 DEF Before
<1> QED BY <1>3, <1>6, <1>7 DEF Flowing

\* The sender writes its frame, or passes over one that does not encode.
LEMMA WriteFlow ==
  ASSUME NEW x, NEW h, h # NoFrame, NEW p \in Seq(Nat), NEW rec, NEW gar, h \in Nat,
         Flowing(x, TRUE, h, p, rec, gar),
         NEW p2, p2 = IF h \in gar THEN p ELSE Append(p, h)
  PROVE  Flowing(x, TRUE, NoFrame, p2, rec, gar)
<1>1. CASE h \in gar
  BY <1>1 DEF Flowing
<1>2. CASE h \notin gar
  <2>1. /\ Len(p) \in Nat /\ Len(p2) = Len(p) + 1 /\ p2[Len(p) + 1] = h
        /\ \A i \in 1 .. Len(p) : p2[i] = p[i]
    BY <1>2
  <2>2. Elements(p2) = Elements(p) \cup {h}
    BY <2>1 DEF Elements
  <2>3. ASSUME NEW i \in 1 .. Len(p2)
        PROVE  /\ p2[i] \in Assigned(x) \ gar
               /\ Before(x, p2[i]) \subseteq (rec \cup gar \cup {p2[j] : j \in 1 .. i - 1})
    <3>1. CASE i = Len(p) + 1
      <4>1. {p2[j] : j \in 1 .. i - 1} = Elements(p)
        BY <2>1, <3>1 DEF Elements
      <4> QED BY <1>2, <2>1, <3>1, <4>1 DEF Flowing
    <3>2. CASE i \in 1 .. Len(p)
      <4>1. {p2[j] : j \in 1 .. i - 1} = {p[j] : j \in 1 .. i - 1}
        BY <2>1, <3>2
      <4>2. /\ p[i] \in Assigned(x) \ gar
            /\ Before(x, p[i]) \subseteq (rec \cup gar \cup {p[j] : j \in 1 .. i - 1})
        BY <3>2 DEF Flowing
      <4> QED BY <2>1, <3>2, <4>1, <4>2
    <3> QED BY <2>1, <3>1, <3>2
  <2> QED BY <2>2, <2>3 DEF Flowing
<1> QED BY Zenon, <1>1, <1>2

\* The proxy reads the oldest frame.
LEMMA ReadFlow ==
  ASSUME NEW x, NEW c, NEW h, NEW p \in Seq(Nat), p # <<>>, NEW rec, NEW gar,
         Flowing(x, c, h, p, rec, gar)
  PROVE  Flowing(x, c, h, Tail(p), rec \cup {Head(p)}, gar)
<1> DEFINE p2 == Tail(p)
           rec2 == rec \cup {Head(p)}
<1>1. /\ Len(p) \in Nat \ {0} /\ Len(p2) = Len(p) - 1 /\ Head(p) = p[1]
      /\ \A i \in 1 .. Len(p2) : p2[i] = p[i + 1]
  BY HeadTailProperties, EmptySeq
<1> HIDE DEF p2
<1>2. rec \cup Elements(p) \subseteq rec2 \cup Elements(p2)
  <2>1. SUFFICES ASSUME NEW i \in 1 .. Len(p) PROVE p[i] \in rec2 \cup Elements(p2)
    BY DEF Elements
  <2>2. CASE i = 1
    BY <1>1, <2>2
  <2>3. CASE i # 1
    <3>1. i - 1 \in 1 .. Len(p2) /\ p2[i - 1] = p[i]
      BY <1>1, <2>3
    <3> QED BY <3>1 DEF Elements
  <2> QED BY <2>2, <2>3
<1>3. ASSUME NEW i \in 1 .. Len(p2)
      PROVE  /\ p2[i] \in Assigned(x) \ gar
             /\ Before(x, p2[i]) \subseteq (rec2 \cup gar \cup {p2[j] : j \in 1 .. i - 1})
  <2>1. i + 1 \in 1 .. Len(p) /\ p2[i] = p[i + 1] /\ (i + 1) - 1 = i
    BY <1>1
  <2>2. /\ p[i + 1] \in Assigned(x) \ gar
        /\ Before(x, p[i + 1]) \subseteq (rec \cup gar \cup {p[j] : j \in 1 .. i})
    BY <2>1 DEF Flowing
  <2>3. {p[j] : j \in 1 .. i} \subseteq {p[1]} \cup {p2[j] : j \in 1 .. i - 1}
    <3>1. SUFFICES ASSUME NEW j \in 1 .. i, j # 1
                   PROVE  p[j] \in {p2[k] : k \in 1 .. i - 1}
      BY Zenon
    <3>2. j - 1 \in 1 .. i - 1 /\ j - 1 \in 1 .. Len(p2) /\ p2[j - 1] = p[j]
      BY <1>1, <3>1
    <3> QED BY <3>2
  <2> QED BY Zenon, <1>1, <2>1, <2>2, <2>3
<1>4. ASSUME NEW s \in rec2
      PROVE  s \in Assigned(x) /\ Before(x, s) \subseteq (rec2 \cup gar)
  <2>1. CASE s \in rec
    BY <2>1 DEF Flowing
  <2>2. CASE s = p[1]
    <3>1. 1 \in 1 .. Len(p) /\ {p[j] : j \in 1 .. 1 - 1} = {}
      BY <1>1
    <3> QED BY <2>2, <3>1 DEF Flowing
  <2> QED BY <1>1, <2>1, <2>2
<1>5. gar \subseteq Assigned(x)
  BY DEF Flowing
<1>6. c => Behind(x) \subseteq (rec2 \cup gar \cup Elements(p2) \cup {h})
  BY <1>2 DEF Flowing
<1>7. h # NoFrame => h \in Assigned(x)
                     /\ Before(x, h) \subseteq (rec2 \cup gar \cup Elements(p2))
  BY <1>2 DEF Flowing
<1> QED BY Zenon, <1>3, <1>4, <1>5, <1>6, <1>7 DEF Flowing, p2

\* The connection is cut; a new one starts with nothing handed out.
LEMMA CutFlow ==
  ASSUME NEW x, NEW c, NEW h, NEW p, NEW rec, NEW gar, Flowing(x, c, h, p, rec, gar),
         NEW c2, c2 => Behind(x) = {}
  PROVE  Flowing(x, c2, NoFrame, <<>>, rec, gar)
<1>1. 1 .. Len(<<>>) = {}
  OBVIOUS
<1> QED BY <1>1 DEF Flowing

-----------------------------------------------------------------------------
(* The refinement mapping on the record. *)

BoxOf(x) == [s \in 1 .. x.nextSeqNum - 1 |->
               IF x.receipts[s] \in {"acknowledged", "retired"} THEN x.receipts[s]
               ELSE IF s \in Live(x) THEN "held" ELSE "acknowledged"]

\* The messages that the box holds are the frames that the buffer holds.
LEMMA BoxHolds ==
  ASSUME NEW x, NEW lg, Sound(x, lg)
  PROVE  /\ DOMAIN BoxOf(x) = Assigned(x) /\ Live(x) \subseteq Assigned(x)
         /\ {s \in DOMAIN BoxOf(x) : BoxOf(x)[s] = "held"} = Live(x)
<1>1. BufferType(x) /\ Marks(x)
  BY DEF Sound, Core
<1>2. /\ DOMAIN x.receipts = 1 .. x.nextSeqNum - 1
      /\ Live(x) \subseteq 1 .. x.nextSeqNum - 1
  BY SMTT(30), <1>1, TypeFacts DEF Live
<1>3. \A s \in Live(x) : x.receipts[s] \notin {"acknowledged", "retired"}
  BY SMTT(30), <1>1, <1>2 DEF Marks, Live
<1> QED BY <1>2, <1>3 DEF BoxOf, Assigned

\* An acknowledgement confirms every message held up to its number.
LEMMA BoxAck ==
  ASSUME NEW x, NEW lg, Sound(x, lg), NEW seq, NEW r, Acknowledged(x, seq, r)
  PROVE  BoxOf(r) = [t \in DOMAIN BoxOf(x) |->
                       IF t <= seq /\ BoxOf(x)[t] = "held" THEN "acknowledged"
                       ELSE BoxOf(x)[t]]
<1>1. BufferType(x) /\ Marks(x)
  BY DEF Sound, Core
<1>2. DOMAIN x.receipts = 1 .. x.nextSeqNum - 1 /\ x.nextSeqNum \in Nat /\ seq \in Nat
      /\ x.firstSeqNum \in Nat
  BY <1>1, TypeFacts DEF Acknowledged, Held
<1>3. /\ r.nextSeqNum = x.nextSeqNum /\ Live(r) = {t \in Live(x) : t > seq}
      /\ r.receipts = [s \in DOMAIN x.receipts |->
                         IF s <= seq /\ x.receipts[s] = "retained" THEN "acknowledged"
                         ELSE x.receipts[s]]
  BY DEF Acknowledged
<1>4. SUFFICES ASSUME NEW t \in 1 .. x.nextSeqNum - 1
               PROVE  BoxOf(r)[t] = IF t <= seq /\ BoxOf(x)[t] = "held" THEN "acknowledged"
                                    ELSE BoxOf(x)[t]
  BY Zenon, <1>3 DEF BoxOf
<1>5. /\ x.receipts[t] = "acknowledged" => t \notin Live(x)
      /\ x.receipts[t] = "retired" => t \notin Live(x)
      /\ x.receipts[t] = "retained" => t \in Live(x)
  BY <1>1, <1>2 DEF Marks, Live
<1>6. r.receipts[t] = IF t <= seq /\ x.receipts[t] = "retained" THEN "acknowledged"
                      ELSE x.receipts[t]
  BY <1>2, <1>3
<1>7. t \in Live(r) <=> t \in Live(x) /\ ~(t <= seq)
  BY SMTT(30), <1>2, <1>3
<1>8. /\ BoxOf(r)[t] = IF r.receipts[t] \in {"acknowledged", "retired"} THEN r.receipts[t]
                       ELSE IF t \in Live(r) THEN "held" ELSE "acknowledged"
      /\ BoxOf(x)[t] = IF x.receipts[t] \in {"acknowledged", "retired"} THEN x.receipts[t]
                       ELSE IF t \in Live(x) THEN "held" ELSE "acknowledged"
  BY <1>3 DEF BoxOf
<1> QED BY SMTT(30), <1>5, <1>6, <1>7, <1>8

\* A reset retires messages that were held.
LEMMA BoxReset ==
  ASSUME NEW x, NEW lg, Sound(x, lg), NEW S, NEW r, StartedOver(x, S, r)
  PROVE  BoxOf(r) = [t \in DOMAIN BoxOf(x) |-> IF t \in S THEN "retired" ELSE BoxOf(x)[t]]
<1>1. DOMAIN x.receipts = 1 .. x.nextSeqNum - 1
  BY TypeFacts DEF Sound, Core
<1>2. /\ r.nextSeqNum = x.nextSeqNum /\ Live(r) = Live(x) \ S
      /\ r.receipts = [s \in DOMAIN x.receipts |->
                         IF s \in S THEN "retired" ELSE x.receipts[s]]
  BY DEF StartedOver
<1> QED BY SMTT(30), <1>1, <1>2 DEF BoxOf

\* A box is told by the numbers, the receipts and the held frames.
LEMMA BoxSame ==
  ASSUME NEW x, NEW r, r.nextSeqNum = x.nextSeqNum, r.receipts = x.receipts, Live(r) = Live(x)
  PROVE  BoxOf(r) = BoxOf(x)
BY DEF BoxOf

\* Adding appends a held message.
LEMMA BoxAdmit ==
  ASSUME NEW x, NEW lg, Sound(x, lg), NEW receipt, NEW r, Admitted(x, receipt, r)
  PROVE  BoxOf(r) = Append(BoxOf(x), "held") /\ Len(BoxOf(x)) = x.nextSeqNum - 1
<1>1. BufferType(x)
  BY DEF Sound, Core
<1>2. /\ x.nextSeqNum \in Nat \ {0} /\ x.receipts \in Seq(FrameStates)
      /\ Len(x.receipts) = x.nextSeqNum - 1
      /\ \A s \in Live(x) : s \in 1 .. x.nextSeqNum - 1
  BY SMTT(30), <1>1, TypeFacts DEF BufferType, SequencesType, Live
<1>3. /\ r.nextSeqNum = x.nextSeqNum + 1 /\ Live(r) = Live(x) \cup {x.nextSeqNum}
      /\ r.receipts = Append(x.receipts, IF receipt THEN "retained" ELSE "none")
  BY DEF Admitted
<1> DEFINE n == x.nextSeqNum - 1
           cell == IF receipt THEN "retained" ELSE "none"
           V == {x.receipts[s] : s \in 1 .. n} \cup {"held", "acknowledged"}
<1>4. n \in Nat /\ x.nextSeqNum = n + 1 /\ r.nextSeqNum - 1 = n + 1
  BY SMTT(30), <1>2, <1>3
<1>5. /\ \A s \in 1 .. n : r.receipts[s] = x.receipts[s]
      /\ r.receipts[n + 1] = cell
  BY SMTT(30), <1>2, <1>3, <1>4
<1>6. BoxOf(x) \in [1 .. n -> V]
  BY DEF BoxOf
<1>7. BoxOf(x) \in Seq(V) /\ Len(BoxOf(x)) = n
  BY <1>4, <1>6, SeqOfFunction
<1>8. Append(BoxOf(x), "held") = [s \in 1 .. n + 1 |-> IF s = n + 1 THEN "held" ELSE BoxOf(x)[s]]
  <2> DEFINE A == Append(BoxOf(x), "held")
  <2>1. "held" \in V
    OBVIOUS
  <2> HIDE DEF V
  <2>2. /\ A \in Seq(V) /\ Len(A) = n + 1 /\ A[n + 1] = "held"
        /\ \A s \in 1 .. n : A[s] = BoxOf(x)[s]
    BY <1>7, <2>1, AppendProperties
  <2>3. A = [s \in 1 .. n + 1 |-> A[s]]
    <3>1. A \in [1 .. n + 1 -> V]
      BY Zenon, <2>2, LenProperties
    <3> QED BY Zenon, <3>1
  <2>4. \A s \in 1 .. n + 1 : A[s] = IF s = n + 1 THEN "held" ELSE BoxOf(x)[s]
    BY <1>4, <2>2
  <2> HIDE DEF A
  <2>5. A = [s \in 1 .. n + 1 |-> IF s = n + 1 THEN "held" ELSE BoxOf(x)[s]]
    BY <2>3, <2>4
  <2> QED BY <2>5 DEF A
<1> HIDE DEF V
<1>9. \A s \in 1 .. n : s \in Live(r) <=> s \in Live(x)
  BY <1>3, <1>4
<1>10. BoxOf(r) = [s \in 1 .. n + 1 |->
                     IF r.receipts[s] \in {"acknowledged", "retired"} THEN r.receipts[s]
                     ELSE IF s \in Live(r) THEN "held" ELSE "acknowledged"]
  BY <1>4 DEF BoxOf
<1>11. \A s \in 1 .. n :
         BoxOf(x)[s] = IF r.receipts[s] \in {"acknowledged", "retired"} THEN r.receipts[s]
                       ELSE IF s \in Live(r) THEN "held" ELSE "acknowledged"
  BY <1>5, <1>9 DEF BoxOf
<1>12. r.receipts[n + 1] \notin {"acknowledged", "retired"} /\ n + 1 \in Live(r)
  BY Zenon, <1>3, <1>4, <1>5
<1>13. \A s \in 1 .. n + 1 : s = n + 1 \/ s \in 1 .. n
  BY <1>4
<1> QED BY SMTT(30), <1>7, <1>8, <1>10, <1>11, <1>12, <1>13

-----------------------------------------------------------------------------
(* The inductive invariant. *)

\* The buffer is sound; Close drops the tracked list after the workers are gone.
BufferInv == /\ \E lg : Sound(ab, lg)
             /\ cl \notin {"last", "closed"} => Tracked(ab)
             /\ cl \in {"last", "closed"} => DOMAIN ab.tracked = {}
             /\ Numbered(ab)

WireInv == /\ conn \in BOOLEAN /\ inHand \in Nat \cup {NoFrame}
           /\ toPeer \in Seq(Nat) /\ toClient \in Seq(Nat)
           /\ Flowing(ab, conn, inHand, toPeer, received, garbled)
           /\ Elements(toClient) \subseteq received

\* Where the reconnect goroutine and Close are, and what has stopped by then.
PhaseInv ==
  /\ rc \in {"idle", "join", "shrink", "reset", "dial"}
  /\ cl \in {"open", "mark", "seal", "join", "collect", "detach", "last", "closed"}
  /\ rc \in {"shrink", "reset", "dial"} => ~conn
  /\ ~conn => inHand = NoFrame /\ toPeer = <<>> /\ toClient = <<>>
  /\ rc = "dial" => ab.nextIndexToDeliver = 0
  /\ cl \in {"collect", "detach", "last", "closed"} => ~conn
  /\ cl \in {"join", "collect", "detach", "last", "closed"} => ~ab.isRunning
  /\ cl \in {"open", "mark", "seal", "join", "collect"} => leftovers = NotYet
  /\ cl \in {"detach", "last", "closed"} => leftovers # NotYet

-----------------------------------------------------------------------------
(* What the steps do to the buffer. *)

\* The state of the buffer that the lemmas on its methods ask for.
LEMMA BufferFacts ==
  ASSUME BufferInv
  PROVE  /\ BufferType(ab) /\ IsBuffer(ab) /\ ab.isRunning \in BOOLEAN
         /\ DOMAIN ab.receipts = Assigned(ab)
         /\ \A s \in DOMAIN ab.receipts : ab.receipts[s] \in FrameStates
         /\ ab.nextSeqNum \in Nat \ {0}
<1>1. BufferType(ab)
  BY DEF BufferInv, Sound, Core
<1>2. ab.receipts \in Seq(FrameStates)
  BY <1>1 DEF BufferType, SequencesType
<1>3. \A s \in DOMAIN ab.receipts : ab.receipts[s] \in FrameStates
  BY SMTT(30), <1>2, ElementOfSeq, LenProperties
<1> QED BY <1>1, <1>3, TypeFacts DEF BufferType, FlagsType, Assigned

\* Ship adds a frame.
LEMMA ShipEffect ==
  ASSUME BufferInv, PhaseInv, NEW m \in Messages, Ship(m)
  PROVE  Admitted(ab, m.receipt, ab') /\ BufferInv'
<1>1. BufferType(ab)
  BY BufferFacts
<1>2. /\ ab' = Admit(ab, m, 0, FALSE, 0) /\ ab.isAvailable /\ cl' = cl
      /\ cl \notin {"last", "closed"}
  BY DEF Ship, PhaseInv
<1>3. Admitted(ab, m.receipt, ab')
  BY Zenon, <1>1, <1>2, AdmitEffect
<1>4. IsInput(m)
  BY SessionAssumption DEF IsInput
<1>5. PICK lg : Sound(ab, lg)
  BY DEF BufferInv
<1>6. Sound(ab', Logged(lg, m)) /\ (Tracked(ab) => Tracked(ab'))
  BY Zenon, <1>2, <1>4, <1>5, AdmitKeeps
<1> QED BY Zenon, <1>2, <1>3, <1>6 DEF BufferInv, Admitted

\* The sender takes the next frame.
LEMMA DeliverStep ==
  ASSUME BufferInv, PhaseInv, Deliver
  PROVE  Sent(ab, NextToDeliver(ab), ab') /\ BufferInv'
<1>1. BufferType(ab)
  BY BufferFacts
<1>2. /\ ab' = GetNextToDeliver(ab) /\ ab.isReadyToDeliver = TRUE /\ cl' = cl
      /\ cl \notin {"last", "closed"} /\ Tracked(ab)
  BY <1>1 DEF Deliver, PhaseInv, BufferInv, BufferType, FlagsType
<1>3. PICK lg : Sound(ab, lg)
  BY DEF BufferInv
<1>4. Sent(ab, NextToDeliver(ab), ab')
  BY Zenon, <1>2, <1>3, DeliverEffect
<1>5. (\E l2 : Sound(ab', l2)) /\ Tracked(ab')
  BY Zenon, <1>2, <1>3, DeliverKeeps
<1>6. Numbered(ab')
  BY <1>4 DEF Sent, SameRoom, Numbered, BufferInv
<1> QED BY <1>2, <1>4, <1>5, <1>6 DEF BufferInv

\* The listener applies an ACK.
LEMMA ListenStep ==
  ASSUME BufferInv, PhaseInv, Listen
  PROVE  (ab' = ab \/ Acknowledged(ab, Head(toClient), ab')) /\ BufferInv'
<1>1. /\ ab' = Ack(ab, Head(toClient)) /\ cl' = cl
      /\ cl \notin {"last", "closed"} /\ Tracked(ab)
  BY DEF Listen, PhaseInv, BufferInv
<1>2. PICK lg : Sound(ab, lg)
  BY DEF BufferInv
<1>3. ab' = ab \/ Acknowledged(ab, Head(toClient), ab')
  BY Zenon, <1>1, <1>2, AckEffect
<1>4. Sound(ab', lg) /\ Tracked(ab')
  BY Zenon, <1>1, <1>2, AckKeeps
<1>5. Numbered(ab')
  BY <1>3 DEF Acknowledged, KeepsPlace, BufferInv
<1> QED BY SMTT(30), <1>1, <1>3, <1>4, <1>5 DEF BufferInv

\* The buffer starts over for a new connection.
LEMMA ResetStep ==
  ASSUME BufferInv, PhaseInv, Reset
  PROVE  (\E S : StartedOver(ab, S, ab')) /\ BufferInv'
<1>1. ab' = ResetDelivery(ab) /\ cl' = cl
  BY DEF Reset
<1>2. PICK lg : Sound(ab, lg)
  BY DEF BufferInv
<1>3. Core(ab, lg)
  BY <1>2 DEF Sound
<1>4. StartedOver(ab, {s \in DOMAIN ab.tracked \ ab.retired : Exhausted(ab, s)}, ab')
  BY Zenon, <1>1, <1>3, ResetEffect
<1>5. Sound(ab', lg) /\ (Tracked(ab) => Tracked(ab'))
  BY Zenon, <1>1, <1>3, ResetKeeps
<1>6. Numbered(ab') /\ DOMAIN ab'.tracked \subseteq DOMAIN ab.tracked
  BY <1>4 DEF StartedOver, BufferInv
<1> QED BY SMTT(30), <1>1, <1>4, <1>5, <1>6 DEF BufferInv

\* UpdateCapacity from FLOW or a reconnect.
LEMMA ResizeStep ==
  ASSUME BufferInv, NEW cap \in Nat, ab' = UpdateCapacity(ab, cap), cl' = cl
  PROVE  SameFrames(ab, ab') /\ ab'.isRunning = ab.isRunning /\ BufferInv'
<1>1. IsBuffer(ab)
  BY BufferFacts
<1>2. PICK lg : Sound(ab, lg)
  BY DEF BufferInv
<1>3. SameFrames(ab, ab') /\ ab'.isRunning = ab.isRunning /\ ab'.tracked = ab.tracked
  BY Zenon, <1>1, OthersEffect
<1>4. Sound(ab', lg) /\ (Tracked(ab) => Tracked(ab'))
  BY Zenon, <1>2, CapacityKeeps
<1> QED BY <1>3, <1>4 DEF BufferInv, SameFrames

\* Close closes the buffer, and later drops the tracked list.
LEMMA CloseSteps ==
  ASSUME BufferInv, PhaseInv, CloseAb \/ Detach
  PROVE  /\ SameFrames(ab, ab') /\ BufferInv'
         /\ CloseAb => ~ab'.isRunning
         /\ Detach => ab'.isRunning = ab.isRunning
<1>1. IsBuffer(ab)
  BY BufferFacts
<1>2. PICK lg : Sound(ab, lg)
  BY DEF BufferInv
<1>3. CASE CloseAb
  <2>1. ab' = CloseBuffer(ab) /\ cl = "seal" /\ cl' = "join"
    BY <1>3 DEF CloseAb
  <2>2. SameFrames(ab, ab') /\ ab'.isRunning = FALSE
    BY Zenon, <1>1, <2>1, OthersEffect
  <2>3. Sound(ab', lg) /\ (Tracked(ab) => Tracked(ab'))
    BY Zenon, <1>2, <2>1, SealKeeps
  <2> QED BY <2>1, <2>2, <2>3 DEF BufferInv, SameFrames, Detach
<1>4. CASE Detach
  <2>1. ab' = ReleaseReceiptTracking(ab) /\ cl = "detach" /\ cl' = "last"
    BY <1>4 DEF Detach
  <2>2. SameFrames(ab, ab') /\ ab'.isRunning = ab.isRunning /\ DOMAIN ab'.tracked = {}
    BY Zenon, <1>1, <2>1, OthersEffect
  <2>3. Sound(ab', lg)
    BY Zenon, <1>2, <2>1, ReleaseTrackingKeeps
  <2> QED BY <2>1, <2>2, <2>3 DEF BufferInv, SameFrames, CloseAb
<1> QED BY <1>3, <1>4

\* The steps that leave the buffer alone.
Elsewhere == \/ \E s \in shipping : Bind(s)
             \/ Write \/ PeerRead \/ (\E s \in received : PeerAck(s))
             \/ Reconnect \/ Join \/ Dial
             \/ Close \/ CloseJoin \/ Collect
             \/ SetLifetime("mark", "closing", "seal")
             \/ SetLifetime("last", "closed", "closed")
             \/ Observe \/ UNCHANGED vars

\* They leave it sound.
LEMMA ElsewhereStep ==
  ASSUME BufferInv, PhaseInv, Elsewhere
  PROVE  ab' = ab /\ BufferInv'
<1>1. ab' = ab
  BY ZenonT(40) DEF Elsewhere, Bind, Write, PeerRead, PeerAck, Reconnect, Join, Dial, Close, CloseJoin,
         Collect, SetLifetime, Observe, Watch, ReadLifetime, RereadFrame, FinishLifetime,
         Forget, vars
<1>2. cl' \in {"last", "closed"} <=> cl \in {"last", "closed"}
  BY Zenon DEF Elsewhere, Bind, Write, PeerRead, PeerAck, Reconnect, Join, Dial, Close, CloseJoin,
         Collect, SetLifetime, Observe, Watch, ReadLifetime, RereadFrame, FinishLifetime,
         Forget, vars
<1> QED BY SMTT(30), <1>1, <1>2 DEF BufferInv

\* The steps, by what they do to the buffer.
LEMMA Cases ==
  ASSUME [Next]_vars
  PROVE  \/ \E m \in Messages : Ship(m)
         \/ Deliver \/ Listen \/ (\E cap \in Windows : Flow(cap)) \/ Shrink \/ Reset
         \/ CloseAb \/ Detach \/ Elsewhere
BY Zenon DEF Next, Transport, Reconnecting, Closing, Elsewhere

-----------------------------------------------------------------------------
(* Every step keeps the invariant on the wire. *)

\* The steps of the workers, the proxy and the goroutines that leave the buffer.
LEMMA ElsewhereWire ==
  ASSUME WireInv, PhaseInv, BufferInv, Elsewhere
  PROVE  WireInv'
<1>1. ab' = ab
  BY ElsewhereStep
<1>2. CASE Write
  <2>1. /\ conn = TRUE /\ inHand \in Nat /\ inHand # NoFrame /\ toPeer \in Seq(Nat)
        /\ Flowing(ab, TRUE, inHand, toPeer, received, garbled)
    BY Zenon, <1>2 DEF WireInv, Write
  <2>2. /\ toPeer' = IF inHand \in garbled THEN toPeer ELSE Append(toPeer, inHand)
        /\ inHand' = NoFrame /\ conn' = conn /\ toClient' = toClient
        /\ received' = received /\ garbled' = garbled
    BY <1>2 DEF Write, peer
  <2>3. Flowing(ab, TRUE, NoFrame, toPeer', received, garbled)
    BY Zenon, <2>1, <2>2, WriteFlow
  <2>4. toPeer' \in Seq(Nat)
    BY <2>1, <2>2
  <2> QED BY Zenon, <1>1, <2>1, <2>2, <2>3, <2>4 DEF WireInv
<1>3. CASE PeerRead
  <2>1. /\ toPeer # <<>> /\ toPeer' = Tail(toPeer) /\ received' = received \cup {Head(toPeer)}
        /\ conn' = conn /\ inHand' = inHand /\ toClient' = toClient /\ garbled' = garbled
    BY <1>3 DEF PeerRead
  <2>2. Flowing(ab, conn, inHand, toPeer', received', garbled)
    BY <2>1, ReadFlow DEF WireInv
  <2>3. toPeer' \in Seq(Nat)
    BY <2>1, HeadTailProperties DEF WireInv
  <2> QED BY SMTT(30), <1>1, <2>1, <2>2, <2>3 DEF WireInv
<1>4. ASSUME NEW s \in received, PeerAck(s) PROVE WireInv'
  <2>1. /\ toClient' = Append(toClient, s) /\ conn' = conn /\ inHand' = inHand
        /\ toPeer' = toPeer /\ received' = received /\ garbled' = garbled
    BY <1>4 DEF PeerAck, peer
  <2>2. s \in Nat
    <3>1. s \in Assigned(ab)
      BY DEF WireInv, Flowing
    <3> QED BY SMTT(30), <3>1, BufferFacts DEF Assigned
  <2>3. toClient' \in Seq(Nat) /\ Elements(toClient') \subseteq Elements(toClient) \cup {s}
    <3>1. /\ toClient' \in Seq(Nat) /\ Len(toClient') = Len(toClient) + 1
          /\ Len(toClient) \in Nat
          /\ \A i \in 1 .. Len(toClient) : toClient'[i] = toClient[i]
          /\ toClient'[Len(toClient) + 1] = s
      BY <2>1, <2>2 DEF WireInv
    <3>2. \A i \in 1 .. Len(toClient') : i \in 1 .. Len(toClient) \/ i = Len(toClient) + 1
      BY <3>1
    <3> QED BY <3>1, <3>2 DEF Elements
  <2> QED BY SMTT(30), <1>1, <2>1, <2>3 DEF WireInv
<1>5. CASE Join \/ CloseJoin
  <2>1. /\ conn' = FALSE /\ inHand' = NoFrame /\ toPeer' = <<>> /\ toClient' = <<>>
        /\ received' = received /\ garbled' = garbled
    BY <1>5 DEF Join, CloseJoin, Disconnect, peer
  <2>2. Flowing(ab, FALSE, NoFrame, <<>>, received, garbled)
    BY Zenon, CutFlow DEF WireInv
  <2>3. <<>> \in Seq(Nat) /\ Elements(<<>>) = {}
    BY EmptySeq DEF Elements
  <2> QED BY Zenon, <1>1, <2>1, <2>2, <2>3 DEF WireInv
<1>6. CASE Dial
  <2>1. /\ conn' = ~isClosing /\ inHand' = inHand /\ toPeer' = toPeer /\ toClient' = toClient
        /\ received' = received /\ garbled' = garbled
        /\ inHand = NoFrame /\ toPeer = <<>> /\ ab.nextIndexToDeliver = 0
    BY <1>6 DEF Dial, peer, PhaseInv
  <2>2. Behind(ab) = {}
    <3>1. /\ BufferType(ab) /\ ab.firstSeqNum \in Nat /\ ab.nextSeqNum \in Nat
          /\ Position(ab) = ab.firstSeqNum
      BY SMTT(30), <2>1, BufferFacts, TypeFacts DEF Position
    <3> QED BY <3>1 DEF Behind, Live, Held
  <2>3. Flowing(ab, conn', NoFrame, <<>>, received, garbled)
    BY <2>2, CutFlow DEF WireInv
  <2>4. conn' \in BOOLEAN
    BY Zenon, <2>1
  <2> QED BY <1>1, <2>1, <2>3, <2>4 DEF WireInv
<1>7. CASE UNCHANGED <<wire, peer>>
  BY <1>1, <1>7 DEF WireInv, wire, peer
<1> QED BY Zenon, <1>2, <1>3, <1>4, <1>5, <1>6, <1>7 DEF Elsewhere, Bind, Reconnect, Close,
           Collect, SetLifetime, Observe, Watch, ReadLifetime, RereadFrame, FinishLifetime,
           Forget, vars, wire, peer

\* Every step keeps it.
LEMMA WireStep ==
  ASSUME WireInv, PhaseInv, BufferInv, [Next]_vars
  PROVE  WireInv'
<1>1. BufferType(ab)
  BY BufferFacts
<1>2. ASSUME NEW m \in Messages, Ship(m) PROVE WireInv'
  <2>1. Admitted(ab, m.receipt, ab')
    BY <1>2, ShipEffect
  <2>2. /\ garbled' = garbled \/ garbled' = garbled \cup {ab.nextSeqNum}
        /\ conn' = conn /\ inHand' = inHand /\ toPeer' = toPeer /\ toClient' = toClient
        /\ received' = received
    BY <1>2 DEF Ship, wire
  <2>3. Flowing(ab', conn, inHand, toPeer, received, garbled')
    BY Zenon, <1>1, <2>1, <2>2, AdmitFlow DEF WireInv
  <2> QED BY <2>2, <2>3 DEF WireInv
<1>3. CASE Deliver
  <2>1. Sent(ab, NextToDeliver(ab), ab')
    BY <1>3, DeliverStep
  <2>2. /\ conn = TRUE /\ inHand = NoFrame
        /\ inHand' = IF NextToDeliver(ab) = 0 THEN NoFrame ELSE NextToDeliver(ab)
        /\ conn' = conn /\ toPeer' = toPeer /\ toClient' = toClient
        /\ received' = received /\ garbled' = garbled
    BY <1>3 DEF Deliver, WireInv, peer
  <2>3. Flowing(ab, TRUE, NoFrame, toPeer, received, garbled)
    BY Zenon, <2>2 DEF WireInv
  <2>4. Flowing(ab', TRUE, inHand', toPeer, received, garbled)
    BY Zenon, <1>1, <2>1, <2>2, <2>3, SentFlow
  <2>5. inHand' \in Nat \cup {NoFrame}
    <3>1. NextToDeliver(ab) # 0 => NextToDeliver(ab) \in Live(ab)
      BY <2>1 DEF Sent
    <3>2. Live(ab) \subseteq Nat
      BY <1>1, TypeFacts DEF Live, Held
    <3> QED BY <2>2, <3>1, <3>2
  <2> QED BY Zenon, <2>2, <2>4, <2>5 DEF WireInv
<1>4. CASE Listen
  <2>1. ab' = ab \/ Acknowledged(ab, Head(toClient), ab')
    BY <1>4, ListenStep
  <2>2. /\ toClient # <<>> /\ toClient' = Tail(toClient)
        /\ conn' = conn /\ inHand' = inHand /\ toPeer' = toPeer
        /\ received' = received /\ garbled' = garbled
    BY <1>4 DEF Listen, peer
  <2>3. Flowing(ab', conn, inHand, toPeer, received, garbled)
    <3>1. CASE ab' = ab
      BY <3>1 DEF WireInv
    <3>2. CASE Acknowledged(ab, Head(toClient), ab')
      <4>1. /\ ab'.nextSeqNum = ab.nextSeqNum /\ Live(ab') \subseteq Live(ab)
            /\ Behind(ab') \subseteq Behind(ab)
        BY SMTT(30), <3>2 DEF Acknowledged, KeepsPlace
      <4> QED BY Zenon, <4>1, FewerFlow DEF WireInv
    <3> QED BY SMTT(30), <2>1, <3>1, <3>2
  <2>4. toClient' \in Seq(Nat) /\ Elements(toClient') \subseteq Elements(toClient)
    <3>1. /\ toClient' \in Seq(Nat) /\ Len(toClient') = Len(toClient) - 1
          /\ Len(toClient) \in Nat
          /\ \A i \in 1 .. Len(toClient') : toClient'[i] = toClient[i + 1]
      BY <2>2, HeadTailProperties DEF WireInv
    <3>2. \A i \in 1 .. Len(toClient') : i + 1 \in 1 .. Len(toClient)
      BY <3>1
    <3> QED BY <3>1, <3>2 DEF Elements
  <2> QED BY <2>2, <2>3, <2>4 DEF WireInv
<1>5. ASSUME SameFrames(ab, ab'), UNCHANGED <<wire, peer>> PROVE WireInv'
  <2>1. /\ ab'.nextSeqNum = ab.nextSeqNum /\ Live(ab') \subseteq Live(ab)
        /\ Behind(ab') \subseteq Behind(ab)
    BY SMTT(30), <1>5 DEF SameFrames
  <2>2. Flowing(ab', conn, inHand, toPeer, received, garbled)
    BY Zenon, <2>1, FewerFlow DEF WireInv
  <2> QED BY <1>5, <2>2 DEF WireInv, wire, peer
<1>6. ASSUME NEW cap \in Windows, Flow(cap) PROVE WireInv'
  BY SMTT(30), <1>5, <1>6, ResizeStep, SessionAssumption DEF Flow
<1>7. CASE Shrink
  BY SMTT(30), <1>5, <1>7, ResizeStep DEF Shrink
<1>8. CASE CloseAb \/ Detach
  BY <1>5, <1>8, CloseSteps DEF CloseAb, Detach
<1>9. CASE Reset
  <2>1. PICK S : StartedOver(ab, S, ab')
    BY <1>9, ResetStep
  <2>2. ~conn /\ UNCHANGED <<wire, peer>>
    BY <1>9 DEF Reset, PhaseInv
  <2>3. ab'.nextSeqNum = ab.nextSeqNum /\ Live(ab') \subseteq Live(ab)
    BY <2>1 DEF StartedOver
  <2>4. Flowing(ab', conn, inHand, toPeer, received, garbled)
    BY Zenon, <2>2, <2>3, FewerFlow DEF WireInv
  <2> QED BY <2>2, <2>4 DEF WireInv, wire, peer
<1>10. CASE Elsewhere
  BY <1>10, ElsewhereWire
<1> QED BY Zenon, <1>2, <1>3, <1>4, <1>6, <1>7, <1>8, <1>9, <1>10, Cases
=============================================================================
