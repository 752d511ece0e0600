----------------------------- MODULE ByteBudget -----------------------------
(***************************************************************************)
(* The ByteBudget struct of byte_budget.go as a record, and its methods as *)
(* operators from records to records; each runs under bb.mu.               *)
(*                                                                         *)
(* A group is named by its key and is in bb.groups while something refers  *)
(* to it.  An Add call waits for one reservation at a time, so a           *)
(* budgetWaiter is named by the goroutine that waits.  g.allElem and       *)
(* g.reserveElem are membership in the sequences bb.waiting and            *)
(* bb.reserveReady; the heap bb.blocked is the set of its groups, of which *)
(* only the smallest is ever looked at.  A closed wake channel is granted, *)
(* and legacyWake is the set of goroutines that hold the open channel.     *)
(***************************************************************************)
EXTENDS Integers, SequencesExt

CONSTANTS Total, Reserve, MinGroup,  \* FairByteBudgetOptions; Total 0 is unlimited
          BudgetQuantum,             \* budgetQuantum
          WordSize                   \* values of an unsigned word: 2^64 in the code

ASSUME BudgetAssumption ==
  /\ {Total, Reserve, MinGroup} \subseteq Nat
  /\ Total # 0 => Reserve < Total
  /\ BudgetQuantum \in Nat \ {0} /\ WordSize \in Nat
  /\ Total + Reserve + MinGroup < WordSize

NewByteBudget(fair) ==
  [fair |-> fair, used |-> 0, escape |-> 0, active |-> 0,
   groups |-> [k \in {} |-> 0], waiters |-> [p \in {} |-> 0],
   waiting |-> <<>>, reserveReady |-> <<>>, blocked |-> {}, legacyWake |-> {}]

NewGroup == [refs |-> 0, used |-> 0, escape |-> 0, pending |-> 0, active |-> FALSE,
             waiters |-> <<>>]

With(f, x, v) == [y \in DOMAIN f \cup {x} |-> IF y = x THEN v ELSE f[y]]
Without(f, x) == [y \in DOMAIN f \ {x} |-> f[y]]

Register(bb, k) ==
  IF ~bb.fair THEN bb
  ELSE LET g == IF k \in DOMAIN bb.groups THEN bb.groups[k] ELSE NewGroup
       IN [bb EXCEPT !.groups = With(@, k, [g EXCEPT !.refs = @ + 1])]

Unregister(bb, k) ==
  IF ~bb.fair THEN bb
  ELSE IF bb.groups[k].refs = 1 THEN [bb EXCEPT !.groups = Without(@, k)]
  ELSE [bb EXCEPT !.groups[k].refs = @ - 1]

-----------------------------------------------------------------------------
(* Accounts. *)

Activate(bb, k) ==
  LET g   == bb.groups[k]
      now == g.used # 0 \/ g.pending # 0
  IN [bb EXCEPT !.groups[k].active = now,
                !.active = CASE now /\ ~g.active -> @ + 1
                             [] ~now /\ g.active -> @ - 1
                             [] OTHER            -> @]

Share(bb, k) ==
  LET n == bb.active + (IF bb.groups[k].active THEN 0 ELSE 1)
  IN Max({MinGroup, Total \div Max({n, 2})})

\* used - escape, as the unsigned number the code compares.
Ordinary(bb) == (bb.used - bb.escape) % WordSize

Room(bb, n) == Total = 0 \/ (n <= Total /\ Ordinary(bb) <= Total - n)

FitsBelowTotal(bb, n, k) == Room(bb, n)

Fits(bb, n, k) ==
  /\ Room(bb, n)
  /\ \/ Total = 0 \/ ~bb.fair
     \/ Ordinary(bb) + n <= Total - Reserve
     \/ bb.groups[k].used + n <= Share(bb, k)

Charge(bb, n, k, escape) ==
  LET e == IF escape THEN n ELSE 0
  IN Activate([bb EXCEPT !.used = @ + n, !.escape = @ + e,
                         !.groups[k].used = @ + n, !.groups[k].escape = @ + e], k)

\* releaseLocked: never more than is charged.
Discharge(bb, n, escape, k) ==
  LET freed == Min({n, bb.groups[k].used, bb.used})
  IN Activate([bb EXCEPT !.used = @ - freed, !.escape = @ - escape,
                         !.groups[k].used = @ - freed, !.groups[k].escape = @ - escape], k)

-----------------------------------------------------------------------------
(* The scheduler of a fair budget. *)

HeadWaiter(bb, k) == bb.waiters[Head(bb.groups[k].waiters)]

GroupNeed(bb, k) == bb.groups[k].used + HeadWaiter(bb, k).n - HeadWaiter(bb, k).credit

Eligible(bb, k) == GroupNeed(bb, k) <= Share(bb, k)

PushOnce(s, k) == IF Contains(s, k) THEN s ELSE Append(s, k)

MoveToBack(s, k) == IF Contains(s, k) THEN Append(Remove(s, k), k) ELSE s

\* refreshLocked: the group's places in the lists follow its first waiter.
Refresh(bb, k) ==
  IF bb.groups[k].waiters = <<>>
  THEN [bb EXCEPT !.waiting = Remove(@, k), !.reserveReady = Remove(@, k),
                  !.blocked = @ \ {k}]
  ELSE IF Eligible(bb, k)
  THEN [bb EXCEPT !.waiting = PushOnce(@, k), !.reserveReady = PushOnce(@, k),
                  !.blocked = @ \ {k}]
  ELSE [bb EXCEPT !.waiting = PushOnce(@, k), !.reserveReady = Remove(@, k),
                  !.blocked = @ \cup {k}]

NextReserveStale(bb) == bb

\* nextReserveLocked: groups that a larger share made eligible join the line, the
\* neediest last; groups at its front that a smaller share shut out leave it.  All
\* waiting groups are active, so they have one share.
NextReserve(bb) ==
  LET raised == {k \in bb.blocked : Eligible(bb, k)}
      line   == bb.reserveReady \o
                  SetToSortSeq(raised, LAMBDA j, k : GroupNeed(bb, j) < GroupNeed(bb, k))
      stay   == SelectInSeq(line, LAMBDA k : Eligible(bb, k))
      keep   == IF stay = 0 THEN <<>> ELSE SubSeq(line, stay, Len(line))
  IN [bb EXCEPT !.reserveReady = keep,
                !.blocked = (@ \ raised) \cup (ToSet(line) \ ToSet(keep))]

\* One turn of group k: its first waiter gets some bytes, and leaves with the last.
Credit(bb, k, n) ==
  LET p    == Head(bb.groups[k].waiters)
      paid == [Charge(bb, n, k, FALSE) EXCEPT !.waiters[p].credit = @ + n]
      full == paid.waiters[p].credit = paid.waiters[p].n
      next == Refresh(IF full THEN [paid EXCEPT !.waiters[p].granted = TRUE,
                                               !.groups[k].waiters = Tail(@)]
                      ELSE paid, k)
  IN [next EXCEPT !.waiting = MoveToBack(@, k), !.reserveReady = MoveToBack(@, k)]

\* scheduleLocked.  Nobody waits for an unlimited budget.
RECURSIVE Schedule(_)
Schedule(bb) ==
  LET used == Ordinary(bb)
      base == Max({0, Total - Reserve - used})
      next == IF base # 0 THEN bb ELSE NextReserve(bb)
      line == IF base # 0 THEN next.waiting ELSE next.reserveReady
      k    == Head(line)
      room == IF Eligible(next, k) THEN Total - used ELSE base
      w    == HeadWaiter(next, k)
  IN IF bb.waiting = <<>> \/ used >= Total THEN bb
     ELSE IF line = <<>> THEN next
     ELSE Schedule(Credit(next, k, Min({w.n - w.credit, BudgetQuantum, room})))

-----------------------------------------------------------------------------
(* Reservations, as the buffers make them. *)

ReturnCreditsKept(bb, p) == bb

\* The credits of a waiter, or its whole grant, go back.
ReturnCredits(bb, p) ==
  LET w == bb.waiters[p]
  IN IF w.credit = 0 THEN bb ELSE Discharge(bb, w.credit, 0, w.group)

\* The waiter of p is gone from the queue: g.pending-- and what follows from it.
Forget(bb, p) ==
  LET k == bb.waiters[p].group
  IN Activate([bb EXCEPT !.groups[k].pending = @ - 1, !.waiters = Without(@, p)], k)

\* removeWaiterLocked
RemoveWaiter(bb, p) ==
  LET k == bb.waiters[p].group
      gone == Forget(ReturnCredits([bb EXCEPT !.groups[k].waiters = Remove(@, p)], p), p)
  IN Unregister(Refresh(gone, k), k)

\* A granted waiter takes its bytes.
Claim(bb, p) == Unregister(Forget(bb, p), bb.waiters[p].group)

\* cancel: the waiter of p, if it has one, is given up.
Cancel(bb, p) ==
  IF ~bb.fair THEN [bb EXCEPT !.legacyWake = @ \ {p}]
  ELSE IF p \notin DOMAIN bb.waiters THEN bb ELSE Schedule(RemoveWaiter(bb, p))

Enqueue(bb, n, k, p) ==
  LET w == [n |-> n, credit |-> 0, group |-> k, granted |-> FALSE]
  IN Schedule(Refresh(Activate(
       [bb EXCEPT !.waiters = With(@, p, w),
                  !.groups[k].waiters = Append(@, p),
                  !.groups[k].pending = @ + 1,
                  !.groups[k].refs = @ + 1], k), k))

Answer(ok, overshot, bb) == [ok |-> ok, overshot |-> overshot, bb |-> bb]

ReserveUngrouped(bb, n, force, p) ==
  LET fits == Room(bb, n)
  IN IF fits \/ force
     THEN Answer(TRUE, ~fits, [bb EXCEPT !.used = @ + n, !.legacyWake = @ \ {p}])
     ELSE Answer(FALSE, FALSE, [bb EXCEPT !.legacyWake = @ \cup {p}])

\* An attempt of p without a waiter, after it gave one up if removed.
ReserveNew(bb, n, force, k, p, removed) ==
  LET fits  == Fits(bb, n, k)
      queue == bb.groups[k].waiters # <<>>
      paid  == Charge(bb, n, k, ~fits \/ queue)
      fresh == IF queue THEN Refresh(paid, k) ELSE paid
  IN IF (fits /\ ~queue) \/ force
     THEN Answer(TRUE, ~fits \/ queue, IF removed THEN Schedule(fresh) ELSE fresh)
     ELSE Answer(FALSE, FALSE, Enqueue(bb, n, k, p))

ReserveFair(bb, n, force, k, p) ==
  LET waits == p \in DOMAIN bb.waiters
  IN CASE waits /\ bb.waiters[p].granted -> Answer(TRUE, FALSE, Claim(bb, p))
       [] waits /\ ~bb.waiters[p].granted /\ force ->
            ReserveNew(RemoveWaiter(bb, p), n, force, k, p, TRUE)
       [] waits /\ ~bb.waiters[p].granted /\ ~force -> Answer(FALSE, FALSE, bb)
       [] OTHER -> ReserveNew(bb, n, force, k, p, FALSE)

ReserveFor(bb, n, force, k, p) ==
  IF bb.fair THEN ReserveFair(bb, n, force, k, p) ELSE ReserveUngrouped(bb, n, force, p)

ReleaseFair(bb, n, escape, k) ==
  LET freed == Discharge(bb, n, escape, k)
  IN Schedule(IF freed.groups[k].waiters = <<>> THEN freed ELSE Refresh(freed, k))

\* releaseFor; without groups everybody who waits is woken.
ReleaseFor(bb, n, escape, k) ==
  IF n = 0 THEN bb
  ELSE IF bb.fair THEN ReleaseFair(bb, n, escape, k)
  ELSE [bb EXCEPT !.used = @ - Min({n, @}), !.legacyWake = {}]
=============================================================================
