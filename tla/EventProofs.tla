---------------------------- MODULE EventProofs -----------------------------
(***************************************************************************)
(* The event never blocks its setter, loses no signal and tells the truth, *)
(* for every set of callers.                                               *)
(***************************************************************************)
EXTENDS Event, SequenceTheorems, TLAPS

\* A signal in the channel of a waiting caller was given during the call.
ChanFired == \A p \in Callers : pc[p] = "select" /\ chan[p] = "full" => fired[p]

\* The inductive invariant.
EInv == TypeOK /\ SetNeverBlocks /\ NoLostSignal /\ TrueMeansFired /\ ChanFired

-----------------------------------------------------------------------------
(* The waiter list. *)

\* removeWaiter takes out the waiter at i and no other, although it moves the last
\* one into its place.
LEMMA RemoveWaiterIs ==
  ASSUME NEW S, NEW s \in Seq(S), IsInjective(s), NEW i \in DOMAIN s
  PROVE  /\ RemoveWaiter(s, i) \in Seq(ToSet(s) \ {s[i]})
         /\ IsInjective(RemoveWaiter(s, i))
         /\ ToSet(RemoveWaiter(s, i)) = ToSet(s) \ {s[i]}
<1> DEFINE n == Len(s)
           r == RemoveWaiter(s, i)
           at(j) == IF j = i THEN s[n] ELSE s[j]
<1>1. n \in Nat \ {0} /\ DOMAIN s = 1 .. n /\ i \in 1 .. n /\ i <= n
  OBVIOUS
<1>2. \A j, k \in 1 .. n : s[j] = s[k] => j = k
  BY <1>1 DEF IsInjective
<1>3. r = [j \in 1 .. n - 1 |-> at(j)]
  <2> DEFINE t == [s EXCEPT ![i] = s[n], ![n] = s[i]]
  <2>1. t \in Seq(S) /\ Len(t) = n /\ \A j \in 1 .. n - 1 : t[j] = at(j)
    BY <1>1
  <2>2. Front(t) = [j \in 1 .. n - 1 |-> t[j]]
    <3> HIDE DEF t
    <3> QED BY <1>1, <2>1 DEF Front
  <2>3. r = Front(t)
    BY DEF RemoveWaiter
  <2> HIDE DEF t, r, at
  <2> QED BY <2>1, <2>2, <2>3
<1> HIDE DEF r
<1>4. \A j \in 1 .. n - 1 : at(j) \in ToSet(s) \ {s[i]}
  BY <1>1, <1>2 DEF ToSet
<1>5. r \in Seq(ToSet(s) \ {s[i]}) /\ DOMAIN r = 1 .. n - 1
  <2> HIDE DEF at
  <2> QED BY <1>1, <1>3, <1>4
<1>6. IsInjective(r)
  <2>1. SUFFICES ASSUME NEW j \in 1 .. n - 1, NEW k \in 1 .. n - 1, at(j) = at(k)
                 PROVE  j = k
    BY <1>3, <1>5 DEF IsInjective
  <2> QED BY <1>1, <1>2, <2>1
<1>7. \A q \in ToSet(s) \ {s[i]} : \E j \in 1 .. n - 1 : q = at(j)
  <2>1. SUFFICES ASSUME NEW q \in ToSet(s) \ {s[i]}
                 PROVE  \E j \in 1 .. n - 1 : q = at(j)
    OBVIOUS
  <2>2. PICK k \in 1 .. n : q = s[k] /\ k # i
    BY <1>1 DEF ToSet
  <2>3. at(i) = s[n] /\ at(k) = s[k]
    BY <2>2
  <2> HIDE DEF n, at
  <2>4. CASE k = n
    <3>1. i \in 1 .. n - 1
      BY <1>1, <2>2, <2>4
    <3> QED BY <2>2, <2>4, <2>3, <3>1
  <2>5. CASE k # n
    <3>1. k \in 1 .. n - 1
      BY <1>1, <2>2, <2>5
    <3> QED BY <2>2, <2>3, <3>1
  <2> QED BY <2>4, <2>5
<1>8. ToSet(r) = ToSet(s) \ {s[i]}
  <2> HIDE DEF at
  <2> QED BY ZenonT(40), <1>3, <1>4, <1>5, <1>7 DEF ToSet
<1> QED BY <1>5, <1>6, <1>8 DEF r

\* The deferred function of WaitFor takes its caller out of the list.
LEMMA LeaveIs ==
  ASSUME NEW S, waiters \in Seq(S), IsInjective(waiters), NEW p
  PROVE  /\ ListAfterLeave(p) \in Seq(ToSet(waiters) \ {p})
         /\ IsInjective(ListAfterLeave(p))
         /\ ToSet(ListAfterLeave(p)) = ToSet(waiters) \ {p}
<1>1. CASE p \in ToSet(waiters)
  <2> DEFINE i == CHOOSE i \in DOMAIN waiters : waiters[i] = p
  <2>1. i \in DOMAIN waiters /\ waiters[i] = p
    BY <1>1 DEF ToSet
  <2>2. ListAfterLeave(p) = RemoveWaiter(waiters, i)
    BY <1>1 DEF ListAfterLeave
  <2> HIDE DEF i
  <2> QED BY <2>1, <2>2, RemoveWaiterIs
<1>2. CASE p \notin ToSet(waiters)
  <2>1. ListAfterLeave(p) = waiters
    BY <1>2 DEF ListAfterLeave
  <2>2. waiters \in Seq(ToSet(waiters) \ {p})
    BY <1>2 DEF ToSet
  <2> QED BY <1>2, <2>1, <2>2
<1> QED BY <1>1, <1>2

-----------------------------------------------------------------------------
(* The invariant. *)

\* A new event satisfies the invariant.
LEMMA InitInv == Init => EInv
<1>1. SUFFICES ASSUME Init PROVE EInv
  OBVIOUS
<1>2. waiters = <<>> /\ DOMAIN waiters = {} /\ ToSet(waiters) = {}
  BY <1>1 DEF Init, ToSet
<1>3. TypeOK
  <2>1. waiters \in Seq({p \in Callers : pc[p] \in {"select", "leave"}})
    BY <1>2
  <2> QED BY Zenon, <1>1, <2>1 DEF Init, TypeOK
<1>4. SetNeverBlocks
  BY <1>2 DEF SetNeverBlocks, IsInjective
<1>5. NoLostSignal /\ TrueMeansFired /\ ChanFired
  BY <1>1 DEF Init, NoLostSignal, TrueMeansFired, ChanFired
<1> QED BY <1>3, <1>4, <1>5 DEF EInv

\* Every step of Set, Clear, Wait and WaitFor keeps the invariant.
LEMMA NextInv == EInv /\ [Next]_vars => EInv'
<1>0. SUFFICES ASSUME EInv, [Next]_vars PROVE EInv'
  OBVIOUS
<1> DEFINE Inside == {p \in Callers : pc[p] \in {"select", "leave"}}
<1>1. /\ v \in BOOLEAN /\ waiters \in Seq(Inside)
      /\ chan \in [Callers -> {"empty", "full"}]
      /\ pc \in [Callers -> {"idle", "select", "leave", "asleep", "woken"}]
      /\ result \in [Callers -> BOOLEAN] /\ fired \in [Callers -> BOOLEAN]
  BY <1>0 DEF EInv, TypeOK
<1>2. ToSet(waiters) \subseteq Inside /\ waiters \in Seq(ToSet(waiters))
  BY <1>1 DEF ToSet
<1>3. IsInjective(waiters) /\ \A p \in ToSet(waiters) : chan[p] = "empty"
  BY <1>0 DEF EInv, SetNeverBlocks
<1>4. /\ \A p \in Callers : pc[p] = "select" => p \in ToSet(waiters) \/ chan[p] = "full"
      /\ v => waiters = <<>> /\ \A p \in Callers : pc[p] # "asleep"
      /\ \A p \in Callers : pc[p] = "leave" /\ result[p] => fired[p]
      /\ \A p \in Callers : pc[p] = "select" /\ chan[p] = "full" => fired[p]
  BY <1>0 DEF EInv, NoLostSignal, TrueMeansFired, ChanFired
<1>5. ASSUME waiters' = waiters PROVE ToSet(waiters') = ToSet(waiters)
  BY <1>5
<1>6. ASSUME waiters' = <<>>
      PROVE  ToSet(waiters') = {} /\ IsInjective(waiters') /\ \A S : waiters' \in Seq(S)
  <2>1. DOMAIN waiters' = {}
    BY <1>6
  <2> QED BY <1>6, <2>1 DEF ToSet, IsInjective
<1> HIDE DEF Inside
<1>7. CASE Set
  <2>1. /\ v' = TRUE /\ waiters' = <<>> /\ result' = result
        /\ chan' = [p \in Callers |-> IF p \in ToSet(waiters) THEN "full" ELSE chan[p]]
        /\ pc' = [p \in Callers |-> IF pc[p] = "asleep" THEN "woken" ELSE pc[p]]
        /\ fired' = [p \in Callers |-> TRUE]
    BY <1>7 DEF Set, ListAfterSet, Signalled
  <2>2. TypeOK'
    BY <1>1, <1>6, <2>1 DEF TypeOK
  <2>3. SetNeverBlocks'
    BY <1>6, <2>1 DEF SetNeverBlocks
  <2>4. NoLostSignal'
    BY <1>1, <1>4, <2>1 DEF NoLostSignal
  <2>5. TrueMeansFired' /\ ChanFired'
    BY <2>1 DEF TrueMeansFired, ChanFired
  <2> QED BY <2>2, <2>3, <2>4, <2>5 DEF EInv
<1>8. CASE Clear
  <2>1. v' = FALSE /\ UNCHANGED <<waiters, chan, pc, result, fired>>
    BY <1>8 DEF Clear
  <2>2. TypeOK'
    BY Zenon, <1>1, <2>1 DEF TypeOK, Inside
  <2>3. SetNeverBlocks' /\ NoLostSignal' /\ TrueMeansFired' /\ ChanFired'
    BY <1>3, <1>4, <2>1 DEF SetNeverBlocks, NoLostSignal, TrueMeansFired, ChanFired
  <2> QED BY <2>2, <2>3 DEF EInv
<1>9. ASSUME NEW p \in Callers, WaitFor(p) PROVE EInv'
  <2>1. CASE v
    <3>1. /\ UNCHANGED <<v, waiters, chan, pc>> /\ pc[p] = "idle"
          /\ result' = [result EXCEPT ![p] = TRUE] /\ fired' = [fired EXCEPT ![p] = v]
      BY <1>9, <2>1 DEF WaitFor
    <3>2. TypeOK'
      BY <1>1, <3>1 DEF TypeOK, Inside
    <3>3. SetNeverBlocks' /\ NoLostSignal'
      BY <1>3, <1>4, <3>1 DEF SetNeverBlocks, NoLostSignal
    <3>4. TrueMeansFired' /\ ChanFired'
      BY <1>1, <1>4, <3>1 DEF TrueMeansFired, ChanFired
    <3> QED BY <3>2, <3>3, <3>4 DEF EInv
  <2>2. CASE ~v
    <3>1. /\ v' = v /\ result' = result /\ pc[p] = "idle"
          /\ waiters' = Append(waiters, p) /\ chan' = [chan EXCEPT ![p] = "empty"]
          /\ pc' = [pc EXCEPT ![p] = "select"] /\ fired' = [fired EXCEPT ![p] = v]
      BY <1>9, <2>2 DEF WaitFor, NewChan
    <3>2. p \notin ToSet(waiters)
      BY <1>2, <3>1 DEF Inside
    <3>3. ToSet(waiters') = ToSet(waiters) \cup {p} /\ IsInjective(waiters')
      <4>1. /\ Len(waiters) \in Nat /\ DOMAIN waiters = 1 .. Len(waiters)
            /\ DOMAIN waiters' = 1 .. Len(waiters) + 1
            /\ waiters'[Len(waiters) + 1] = p
            /\ \A i \in 1 .. Len(waiters) : waiters'[i] = waiters[i]
        BY <1>1, <3>1
      <4>2. ToSet(waiters') = ToSet(waiters) \cup {p}
        BY <4>1 DEF ToSet
      <4>3. IsInjective(waiters')
        BY <1>3, <3>2, <4>1 DEF IsInjective, ToSet
      <4> QED BY <4>2, <4>3
    <3>4. waiters' \in Seq(Inside')
      <4>1. Inside \subseteq Inside' /\ p \in Inside'
        BY <1>1, <3>1 DEF Inside
      <4>2. waiters \in Seq(Inside')
        BY <1>1, <4>1
      <4> QED BY <3>1, <4>1, <4>2, AppendProperties
    <3>5. TypeOK'
      BY <1>1, <3>1, <3>4 DEF TypeOK, Inside
    <3>6. SetNeverBlocks'
      BY <1>1, <1>3, <3>1, <3>2, <3>3 DEF SetNeverBlocks
    <3>7. NoLostSignal'
      BY <1>1, <1>4, <2>2, <3>1, <3>3 DEF NoLostSignal
    <3>8. TrueMeansFired' /\ ChanFired'
      BY <1>1, <1>4, <3>1 DEF TrueMeansFired, ChanFired
    <3> QED BY <3>5, <3>6, <3>7, <3>8 DEF EInv
  <2> QED BY <2>1, <2>2

<1>10. ASSUME NEW p \in Callers, NEW r \in BOOLEAN, pc[p] = "select", Return(p, r),
              r => chan[p] = "full"
       PROVE  EInv'
  <2>1. /\ pc' = [pc EXCEPT ![p] = "leave"] /\ result' = [result EXCEPT ![p] = r]
        /\ UNCHANGED <<v, waiters, chan, fired>>
    BY <1>10 DEF Return
  <2>2. Inside' = Inside
    BY <1>1, <1>10, <2>1 DEF Inside
  <2>3. TypeOK'
    BY <1>1, <2>1, <2>2 DEF TypeOK, Inside
  <2>4. SetNeverBlocks' /\ NoLostSignal'
    BY <1>1, <1>3, <1>4, <2>1 DEF SetNeverBlocks, NoLostSignal
  <2>5. TrueMeansFired' /\ ChanFired'
    BY SMTT(30), <1>1, <1>4, <1>10, <2>1 DEF TrueMeansFired, ChanFired
  <2> QED BY <2>3, <2>4, <2>5 DEF EInv
<1>11. ASSUME NEW p \in Callers, Leave(p) PROVE EInv'
  <2>1. /\ pc[p] = "leave" /\ waiters' = ListAfterLeave(p)
        /\ pc' = [pc EXCEPT ![p] = "idle"] /\ UNCHANGED <<v, chan, result, fired>>
    BY <1>11 DEF Leave
  <2>2. /\ waiters' \in Seq(ToSet(waiters) \ {p}) /\ IsInjective(waiters')
        /\ ToSet(waiters') = ToSet(waiters) \ {p}
    BY <1>1, <1>3, <2>1, LeaveIs
  <2>3. waiters' \in Seq(Inside')
    <3>1. ToSet(waiters) \ {p} \subseteq Inside'
      BY <1>1, <1>2, <2>1 DEF Inside
    <3> QED BY <2>2, <3>1
  <2>4. TypeOK'
    BY <1>1, <2>1, <2>3 DEF TypeOK, Inside
  <2>5. SetNeverBlocks'
    BY <1>3, <2>1, <2>2 DEF SetNeverBlocks
  <2>6. NoLostSignal'
    <3>1. v => waiters' = <<>>
      <4>1. ASSUME v PROVE ToSet(waiters) = {}
        BY <1>4, <4>1 DEF ToSet
      <4> QED BY <2>2, <4>1
    <3> QED BY <1>1, <1>4, <2>1, <2>2, <3>1 DEF NoLostSignal
  <2>7. TrueMeansFired' /\ ChanFired'
    BY <1>1, <1>4, <2>1 DEF TrueMeansFired, ChanFired
  <2> QED BY <2>4, <2>5, <2>6, <2>7 DEF EInv
<1>12. ASSUME NEW p \in Callers, Wait(p) PROVE EInv'
  <2>1. /\ pc[p] \in {"idle", "woken"}
        /\ pc' = [pc EXCEPT ![p] = IF v THEN "idle" ELSE "asleep"]
        /\ UNCHANGED <<v, waiters, chan, result, fired>>
    BY <1>12 DEF Wait
  <2>2. Inside' = Inside
    BY <1>1, <2>1 DEF Inside
  <2>3. TypeOK'
    BY <1>1, <2>1, <2>2 DEF TypeOK, Inside
  <2>4. SetNeverBlocks' /\ NoLostSignal'
    BY <1>1, <1>3, <1>4, <2>1 DEF SetNeverBlocks, NoLostSignal
  <2>5. TrueMeansFired' /\ ChanFired'
    BY <1>1, <1>4, <2>1 DEF TrueMeansFired, ChanFired
  <2> QED BY <2>3, <2>4, <2>5 DEF EInv
<1>13. CASE UNCHANGED vars
  BY <1>0, <1>13 DEF vars, EInv, TypeOK, SetNeverBlocks, NoLostSignal, TrueMeansFired, ChanFired
<1>14. ASSUME NEW p \in Callers, Receive(p) \/ Expire(p) PROVE EInv'
  BY Zenon, <1>10, <1>14 DEF Receive, Expire
<1> QED BY <1>0, <1>7, <1>8, <1>9, <1>11, <1>12, <1>13, <1>14 DEF Next

\* EInv holds in every reachable state of the event.
LEMMA Invariant == Spec => []EInv
  BY InitInv, NextInv, PTL DEF Spec

-----------------------------------------------------------------------------
(* The theorems. *)

\* The list holds only callers of WaitFor that have not returned: the deferred
\* function takes out its caller whatever ran before it.
THEOREM EventTypeCorrect == Spec => []TypeOK
<1>1. EInv => TypeOK
  BY DEF EInv
<1> QED BY <1>1, Invariant, PTL

\* Set never blocks on a waiter's channel while it holds e.m, and closes none twice.
THEOREM SetIsNonBlocking == Spec => []SetNeverBlocks
<1>1. EInv => SetNeverBlocks
  BY DEF EInv
<1> QED BY <1>1, Invariant, PTL

\* A goroutine in WaitFor is in the list or has its signal, and none is in the list
\* or asleep in Wait while the flag is set.
THEOREM SignalsAreKept == Spec => []NoLostSignal
<1>1. EInv => NoLostSignal
  BY DEF EInv
<1> QED BY <1>1, Invariant, PTL

\* WaitFor returns true only if the flag was set during the call.
THEOREM WaitForIsTruthful == Spec => []TrueMeansFired
<1>1. EInv => TrueMeansFired
  BY DEF EInv
<1> QED BY <1>1, Invariant, PTL
=============================================================================
