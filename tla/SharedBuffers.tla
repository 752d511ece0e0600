--------------------------- MODULE SharedBuffers ----------------------------
(***************************************************************************)
(* Several clients' AckBuffers that charge one ByteBudget, with the Add    *)
(* calls that wait for it.  A buffer calls the budget while it holds its   *)
(* own mutex, so one call of the buffer is one step, also when it releases *)
(* bytes and the scheduler gives them to waiters of other clients.         *)
(*                                                                         *)
(* The budget is fair or ungrouped from the start (bb.fair).  The peers    *)
(* acknowledge any delivered frame at any time.                            *)
(***************************************************************************)
EXTENDS AckBufferOps, ByteBudget

CONSTANTS Clients, Producers,
          Owner,       \* the client of each producer
          Group,       \* the BudgetGroup of each client
          Messages,    \* what each producer may add
          NoMessage,
          Windows,     \* the FLOW each client may be told
          Drainers,    \* the clients that may be drained before they are closed
          Plans        \* bound: how many Add calls each producer makes

ASSUME SharedAssumption ==
  /\ Owner \in [Producers -> Clients]
  /\ DOMAIN Group = Clients /\ Plans \subseteq [Producers -> Nat]
  /\ \A p \in Producers : \A m \in Messages[p] :
       m # NoMessage
       /\ m \in [size : Nat \ {0}, receipt : BOOLEAN, max : Nat, ackRequested : BOOLEAN]
  /\ Windows \in [Clients -> SUBSET (Nat \ {0})] /\ Drainers \subseteq Clients

VARIABLES ab,         \* the buffer of each client
          isOpen,     \* NewAckBuffer was called, and Close was not
          escape,     \* escapeSeq and escapeBytes of each buffer
          bb,         \* the budget
          pc, want,   \* of each producer, as in AckBuffer
          calls,      \* how many Add calls each producer still makes
          overshot    \* history: the numbers each client was given beyond the limit

vars == <<ab, isOpen, escape, bb, pc, want, calls, overshot>>

NoEscape == [seq |-> 0, bytes |-> 0]

Init == /\ ab = [c \in Clients |-> NewAckBuffer]
        /\ isOpen = [c \in Clients |-> FALSE]
        /\ escape = [c \in Clients |-> NoEscape]
        /\ \E fair \in BOOLEAN : bb = NewByteBudget(fair)
        /\ pc = [p \in Producers |-> "idle"]
        /\ want = [p \in Producers |-> NoMessage]
        /\ calls \in Plans
        /\ overshot = [c \in Clients |-> {}]

-----------------------------------------------------------------------------
(* Waking. *)

\* The channel that q sampled from the budget was closed in this step.
PoolWoke(q) ==
  \/ q \in DOMAIN bb'.waiters /\ bb'.waiters[q].granted
  \/ q \in bb.legacyWake \ bb'.legacyWake

WakesClient(c, signal, q) == signal /\ Owner[q] = c

\* Where the producers are after a step of client c that may signal its buffer.
Woken(c, signal) ==
  [q \in Producers |->
     IF pc[q] = "asleep" /\ (WakesClient(c, signal, q) \/ PoolWoke(q))
     THEN "woken" ELSE pc[q]]

\* A step of client c releases bytes to the budget and signals its buffer.
Settle(c, signal, after) == /\ bb' = after
                            /\ pc' = Woken(c, signal)

-----------------------------------------------------------------------------
(* NewAckBuffer and Close. *)

Open(c) == /\ ~isOpen[c] /\ ab[c].isRunning
           /\ \E p \in Producers : Owner[p] = c /\ calls[p] # 0
           /\ isOpen' = [isOpen EXCEPT ![c] = TRUE]
           /\ bb' = Register(bb, Group[c])
           /\ UNCHANGED <<ab, escape, pc, want, calls, overshot>>

\* releaseAllLocked
ReleaseAll(c) == ReleaseFor(bb, ab[c].bytes, escape[c].bytes, Group[c])

Close(c) == /\ isOpen[c]
            /\ isOpen' = [isOpen EXCEPT ![c] = FALSE]
            /\ ab' = [ab EXCEPT ![c] = CloseBuffer(@)]
            /\ escape' = [escape EXCEPT ![c] = NoEscape]
            /\ Settle(c, TRUE, Unregister(ReleaseAll(c), Group[c]))
            /\ UNCHANGED <<want, calls, overshot>>

\* drain seals the buffer and keeps its charge.
BeginDrain(c) == /\ isOpen[c] /\ ab[c].isRunning
                 /\ ab' = [ab EXCEPT ![c] = Seal(@)]
                 /\ Settle(c, TRUE, bb)
                 /\ UNCHANGED <<isOpen, escape, want, calls, overshot>>

-----------------------------------------------------------------------------
(* Add. *)

\* The producer's call ends; its waiter, if it still has one, is cancelled.
Leave(p) == /\ bb' = Cancel(bb, p)
            /\ pc' = [Woken(Owner[p], FALSE) EXCEPT ![p] = "idle"]
            /\ want' = [want EXCEPT ![p] = NoMessage]

\* It sleeps on its buffer's channel and, with a waiter, on the budget's.
Sleep(p, m, after) ==
  /\ bb' = after
  /\ pc' = [Woken(Owner[p], FALSE) EXCEPT
              ![p] = IF p \in DOMAIN bb'.waiters /\ bb'.waiters[p].granted
                     THEN "woken" ELSE "asleep"]
  /\ want' = [want EXCEPT ![p] = m]

\* The step of forced ACK requests: the local cap's, or the budget's if smaller.
SharedPressure(b, size, used) ==
  LET own    == PressureStep(b, size)
      shared == Total \div PressureStepDivisor
  IN IF Total # 0 /\ 2 * used >= Total /\ (own = 0 \/ shared < own) THEN shared ELSE own

EscapeAfter(c, m, over) ==
  IF over /\ bb.fair THEN [seq |-> ab[c].nextSeqNum, bytes |-> m.size] ELSE escape[c]

ForceWhenEmpty(b) == b.buff = <<>>

Force(b) == ~HeldFlagged(b)

\* The message has its bytes and takes the next number.
Admitted(p, m, r) ==
  LET c == Owner[p]
      b == ab[c]
  IN /\ bb' = r.bb
     /\ ab' = [ab EXCEPT ![c] = Admit(b, m, m.size, r.overshot \/ OverCap(b, m.size),
                                      SharedPressure(b, m.size, bb'.used))]
     /\ escape' = [escape EXCEPT ![c] = EscapeAfter(c, m, r.overshot)]
     /\ overshot' = [overshot EXCEPT ![c] = IF r.overshot THEN @ \cup {b.nextSeqNum} ELSE @]
     /\ pc' = [Woken(c, FALSE) EXCEPT ![p] = "idle"]
     /\ want' = [want EXCEPT ![p] = NoMessage]

\* One turn of addWithReceipt's loop.
TryAdd(p, m) ==
  LET c == Owner[p]
      b == ab[c]
  IN \/ /\ ~b.isRunning
        /\ Leave(p)
        /\ UNCHANGED <<ab, escape, overshot>>
     \/ /\ b.isRunning
        /\ BlockedLocally(b, m.size)
        /\ Sleep(p, m, Cancel(bb, p))
        /\ UNCHANGED <<ab, escape, overshot>>
     \/ /\ b.isRunning
        /\ ~BlockedLocally(b, m.size)
        /\ \E r \in {ReserveFor(bb, m.size, Force(b), Group[c], p)} :
             \/ r.ok /\ Admitted(p, m, r)
             \/ ~r.ok /\ Sleep(p, m, r.bb) /\ UNCHANGED <<ab, escape, overshot>>

Add(p, m) == /\ pc[p] = "idle" /\ calls[p] # 0
             /\ isOpen[Owner[p]]
             /\ calls' = [calls EXCEPT ![p] = @ - 1]
             /\ TryAdd(p, m)
             /\ UNCHANGED isOpen

Retry(p) == /\ pc[p] = "woken"
            /\ TryAdd(p, want[p])
            /\ UNCHANGED <<isOpen, calls>>

Timeout(p) == /\ pc[p] \in {"asleep", "woken"}
              /\ Leave(p)
              /\ UNCHANGED <<ab, isOpen, escape, calls, overshot>>

-----------------------------------------------------------------------------
(* The transport of a client.  GetNextToDeliver's own retirement is left out: *)
(* it never happens (FenceNeverFires in AckBufferProofs).                     *)

Deliver(c) == /\ ab[c].isReadyToDeliver
              /\ ab' = [ab EXCEPT ![c] = GetNextToDeliver(@)]
              /\ UNCHANGED <<isOpen, escape, bb, pc, want, calls, overshot>>

EscapeGone(c, seq) == escape[c].bytes # 0 /\ escape[c].seq \in ab[c].firstSeqNum .. seq

\* removePrefixLocked: the bytes of the removed slots go back, with the escape.
ReceiveAck(c, seq) ==
  LET freed == ab[c].bytes - BytesAfterRemoval(ab[c], ab[c].firstSeqNum .. seq)
      esc   == IF EscapeGone(c, seq) THEN escape[c].bytes ELSE 0
  IN /\ AckAccepted(ab[c], seq)
     /\ ab' = [ab EXCEPT ![c] = Ack(@, seq)]
     /\ escape' = [escape EXCEPT ![c] = IF EscapeGone(c, seq) THEN NoEscape ELSE @]
     /\ Settle(c, TRUE, ReleaseFor(bb, freed, esc, Group[c]))
     /\ UNCHANGED <<isOpen, want, calls, overshot>>

Resize(c, cap) == /\ cap # ab[c].currentCapacity
                  /\ ab' = [ab EXCEPT ![c] = UpdateCapacity(@, cap)]
                  /\ Settle(c, TRUE, bb)
                  /\ UNCHANGED <<isOpen, escape, want, calls, overshot>>

Spent(b) == {s \in DOMAIN b.tracked \ b.retired : Exhausted(b, s)}

\* retireLocked, once per spent frame in order: bytes and escape go back.
ReleaseRetired(c) ==
  LET b == ab[c]
      one(s, pool) ==
        ReleaseFor(pool, b.bytes - BytesAfterRemoval(b, {s}),
                   IF escape[c].seq = s THEN escape[c].bytes ELSE 0, Group[c])
  IN FoldLeft(LAMBDA pool, s : one(s, pool), bb, SetToSortSeq(Spent(b), LAMBDA s, t : s < t))

Reset(c) ==
  /\ ab' = [ab EXCEPT ![c] = ResetDelivery(@)]
  /\ escape' = [escape EXCEPT ![c] = IF escape[c].seq \in Spent(ab[c]) THEN NoEscape ELSE @]
  /\ Settle(c, Spent(ab[c]) # {}, ReleaseRetired(c))
  /\ UNCHANGED <<isOpen, want, calls, overshot>>

Next == \/ \E c \in Clients : Open(c) \/ Close(c) \/ Deliver(c) \/ Reset(c)
        \/ \E c \in Drainers : BeginDrain(c)
        \/ \E c \in Clients : \E seq \in Held(ab[c]) : ReceiveAck(c, seq)
        \/ \E c \in Clients : \E cap \in Windows[c] : Resize(c, cap)
        \/ \E p \in Producers : \E m \in Messages[p] : Add(p, m)
        \/ \E p \in Producers : Retry(p) \/ Timeout(p)

Spec == Init /\ [][Next]_vars

-----------------------------------------------------------------------------
(* Properties. *)

Sum(f(_), S) == MapThenSumSet(f, S)

Members(k) == {c \in Clients : Group[c] = k /\ isOpen[c]}
WaitersOf(k) == {p \in DOMAIN bb.waiters : bb.waiters[p].group = k}
Queued(k) == ToSet(bb.groups[k].waiters)
Bytes(c) == ab[c].bytes
CreditOf(p) == bb.waiters[p].credit

\* The application limits the transmissions of all of a client's messages, or of none.
Uniform(c) ==
  LET added == UNION {Messages[p] : p \in {q \in Producers : Owner[q] = c}}
  IN (\A m \in added : m.max = 0) \/ (\A m \in added : m.max # 0)

\* What the budget says of a group is what its clients hold and its waiters were
\* credited, and the group is counted, listed and kept exactly as long as needed.
GroupExact(k) ==
  LET g == bb.groups[k] IN
  /\ g.used = Sum(Bytes, Members(k)) + Sum(CreditOf, WaitersOf(k))
  /\ (\A c \in Clients : Group[c] = k => Uniform(c)) =>
       g.escape = Sum(LAMBDA c : escape[c].bytes, Members(k))
  /\ g.pending = Cardinality(WaitersOf(k))
  /\ g.refs = Cardinality(Members(k)) + g.pending /\ g.refs # 0
  /\ g.active <=> g.used # 0 \/ g.pending # 0
  /\ Queued(k) = {p \in WaitersOf(k) : ~bb.waiters[p].granted}
  /\ Contains(bb.waiting, k) <=> Queued(k) # {}
  /\ Contains(bb.waiting, k) <=> (Contains(bb.reserveReady, k) \/ k \in bb.blocked)
  /\ ~(Contains(bb.reserveReady, k) /\ k \in bb.blocked)

\* No reservation is lost or returned twice, whatever a grant races with (time-out,
\* Close, ACK, a closed window, the forced admission): used is the sum of what open
\* buffers hold and waiters were credited, escape the sum of the buffers' escapes
\* while no client mixes limited and unlimited messages (BudgetEmpty is about those).
AccountsExact ==
  /\ bb.used = Sum(Bytes, {c \in Clients : isOpen[c]}) + Sum(CreditOf, DOMAIN bb.waiters)
  /\ bb.fair =>
       /\ DOMAIN bb.groups = {Group[c] : c \in {d \in Clients : isOpen[d]}}
                               \cup {bb.waiters[p].group : p \in DOMAIN bb.waiters}
       /\ \A k \in DOMAIN bb.groups : GroupExact(k)
       /\ (\A c \in Clients : Uniform(c)) =>
            bb.escape = Sum(LAMBDA c : escape[c].bytes, Clients)
       /\ bb.active = Cardinality({k \in DOMAIN bb.groups : bb.groups[k].active})

\* What assertBudgetEmpty asks for: when every client is closed and no Add is
\* under way, nothing is left in the budget.
BudgetEmpty ==
  (\A c \in Clients : ~isOpen[c]) /\ (\A p \in Producers : pc[p] = "idle")
    => bb = NewByteBudget(bb.fair)

\* The frames of client c that were admitted beyond the limit and still count.
Overshooting(c) == IF isOpen[c] THEN overshot[c] \cap Live(ab[c]) ELSE {}


OrdinaryOf(k, pool) ==
  IF k \in DOMAIN pool.groups THEN pool.groups[k].used - pool.groups[k].escape ELSE 0

\* What a step gives back to the budget for group k, escapes aside: slots that leave
\* a buffer, and credits of a waiter that leaves without its bytes.
Returned(k) ==
  Sum(LAMBDA c : Monus(ab[c].bytes - escape[c].bytes, ab'[c].bytes - escape'[c].bytes),
      {c \in Clients : Group[c] = k})
  + Sum(CreditOf, {p \in WaitersOf(k) : /\ p \notin DOMAIN bb'.waiters
                                        /\ ~(bb.waiters[p].granted
                                               /\ ab'[Owner[p]].nextSeqNum > ab[Owner[p]].nextSeqNum)})

Gained(k) == OrdinaryOf(k, bb') - OrdinaryOf(k, bb) + Returned(k)

\* "Borrowers can use total-reserve bytes; the remainder admits only groups below
\* their current fair share": what a step gives to groups that end above their
\* share fits below total-reserve.
ReserveForNewcomers ==
  [][LET over == {k \in DOMAIN bb'.groups : bb'.groups[k].used > Share(bb', k)}
         low  == Ordinary(bb) - Sum(Returned, {Group[c] : c \in Clients})
     IN Total # 0 /\ over # {} =>
          Sum(Gained, over) <= Monus(Total - Reserve, low)]_bb

\* An Add sleeps only while neither its buffer nor the budget has anything for it:
\* its window or cap is closed, or an ACK request is held and the budget has no
\* byte that any waiter may have (fair) or no room for this message (ungrouped).
SleepsOnlyWithoutRoom ==
  \A p \in Producers : pc[p] = "asleep" =>
    LET b == ab[Owner[p]] IN
    /\ b.isRunning
    /\ \/ BlockedLocally(b, want[p].size)
       \/ /\ HeldFlagged(b)
          /\ IF bb.fair
             THEN /\ p \in DOMAIN bb.waiters /\ ~bb.waiters[p].granted
                  /\ Ordinary(bb) >= Total - Reserve
                  /\ Ordinary(bb) < Total => \A k \in ToSet(bb.waiting) : ~Eligible(bb, k)
             ELSE ~Room(bb, want[p].size)

\* The sender hands out what is ready, a woken producer does not stay woken, and
\* the peer answers the requests it gets: nothing else is ever acknowledged.  Each
\* is the part of an action above that tells it from the others, so that TLC need
\* not compute the budget to see whether it is enabled.
HandsOut(c) == /\ ab[c].isReadyToDeliver
               /\ ab' = [ab EXCEPT ![c] = GetNextToDeliver(@)]

SlotOf(b, s) == b.buff[s - b.firstSeqNum + 1]

AnswersRequest(c) ==
  \E seq \in ab[c].firstSeqNum .. Position(ab[c]) - 1 :
    /\ SlotOf(ab[c], seq).ackRequested
    /\ AckAccepted(ab[c], seq)
    /\ ab' = [ab EXCEPT ![c] = Ack(@, seq)]

Runs(p) == /\ pc[p] = "woken"
           /\ pc' \in [Producers -> {"idle", "asleep", "woken"}]
           /\ pc'[p] # "woken"

Fairness == /\ \A c \in Clients : WF_ab(HandsOut(c)) /\ SF_ab(AnswersRequest(c))
            /\ \A p \in Producers : WF_pc(Runs(p))

FairSpec == Spec /\ Fairness

\* The connection of client c breaks before it was given a frame with a request.
CutShort(c) ==
  /\ ab'[c].firstSeqNum = ab[c].firstSeqNum
  /\ ab'[c].nextIndexToDeliver < ab[c].nextIndexToDeliver
  /\ \A s \in Live(ab[c]) : s < Position(ab[c]) => ~SlotOf(ab[c], s).ackRequested

\* "a client never blocks on bytes unless it holds an unacked message that carries
\* AckRequested": an Add that waits ends although nobody times out, other clients
\* never release a byte, partial credits of several waiters use up the room, and
\* only requested ACKs come; unless connection after connection breaks before the
\* request goes out.  (A window that shrinks below what is held may leave no
\* request behind; that wait is not on bytes, and needs the periodic ACK.)
AddEnds == \A p \in Producers : []<>(pc[p] = "idle") \/ []<><<CutShort(Owner[p])>>_ab
=============================================================================
