-------------------------------- MODULE Event --------------------------------
(***************************************************************************)
(* event.go: a flag that goroutines wait for, either on the condition      *)
(* variable (Wait) or with a timeout on a channel of their own (WaitFor).  *)
(* The critical sections of e.m are single steps.  A goroutine that        *)
(* returns from the select of WaitFor leaves the waiter list in a later    *)
(* step, in its deferred function, so Set and Clear run in between.        *)
(***************************************************************************)
EXTENDS Naturals, SequencesExt

CONSTANT Callers   \* goroutines that wait

VARIABLES v, waiters,
          chan,    \* the channel of a caller's WaitFor: "empty" or "full"
          pc,      \* "idle", "select", "leave", "asleep" (in e.c.Wait), "woken"
          result,  \* what the last WaitFor of a caller returns
          fired    \* v was set at some time since the caller's last WaitFor began

vars == <<v, waiters, chan, pc, result, fired>>

Init == /\ v = FALSE
        /\ waiters = <<>>
        /\ chan = [p \in Callers |-> "empty"]
        /\ pc = [p \in Callers |-> "idle"]
        /\ result = [p \in Callers |-> FALSE]
        /\ fired = [p \in Callers |-> FALSE]

\* The channels that Set sends on and closes.
Signalled(p) == p \in ToSet(waiters)

ListAfterSetKept == waiters

ListAfterSet == <<>>

Set == /\ v' = TRUE
       /\ chan' = [p \in Callers |-> IF Signalled(p) THEN "full" ELSE chan[p]]
       /\ waiters' = ListAfterSet
       /\ pc' = [p \in Callers |-> IF pc[p] = "asleep" THEN "woken" ELSE pc[p]]
       /\ fired' = [p \in Callers |-> TRUE]
       /\ UNCHANGED result

Clear == v' = FALSE /\ UNCHANGED <<waiters, chan, pc, result, fired>>

NewChanStale(p) == chan[p]

NewChan(p) == "empty"

WaitFor(p) ==
  /\ pc[p] = "idle"
  /\ fired' = [fired EXCEPT ![p] = v]
  /\ IF v
     THEN result' = [result EXCEPT ![p] = TRUE] /\ UNCHANGED <<waiters, chan, pc>>
     ELSE /\ waiters' = Append(waiters, p)
          /\ chan' = [chan EXCEPT ![p] = NewChan(p)]
          /\ pc' = [pc EXCEPT ![p] = "select"]
          /\ UNCHANGED result
  /\ UNCHANGED v

Return(p, r) == /\ pc' = [pc EXCEPT ![p] = "leave"]
                /\ result' = [result EXCEPT ![p] = r]
                /\ UNCHANGED <<v, waiters, chan, fired>>

Receive(p) == pc[p] = "select" /\ chan[p] = "full" /\ Return(p, TRUE)

\* The timer fires, or wins against a signal that has come.
Expire(p) == pc[p] = "select" /\ Return(p, FALSE)

RemoveWaiterLast(s, i) == Front(s)

\* The last element takes the place of the one removed.
RemoveWaiter(s, i) == Front([s EXCEPT ![i] = s[Len(s)], ![Len(s)] = s[i]])

ListAfterLeaveKept(p) == waiters

\* The deferred function of WaitFor.
ListAfterLeave(p) == IF p \in ToSet(waiters)
                     THEN RemoveWaiter(waiters, CHOOSE i \in DOMAIN waiters : waiters[i] = p)
                     ELSE waiters

Leave(p) == /\ pc[p] = "leave"
            /\ waiters' = ListAfterLeave(p)
            /\ pc' = [pc EXCEPT ![p] = "idle"]
            /\ UNCHANGED <<v, chan, result, fired>>

\* Wait, and its loop after a Broadcast.
Wait(p) == /\ pc[p] \in {"idle", "woken"}
           /\ pc' = [pc EXCEPT ![p] = IF v THEN "idle" ELSE "asleep"]
           /\ UNCHANGED <<v, waiters, chan, result, fired>>

Next == \/ Set \/ Clear
        \/ \E p \in Callers :
             WaitFor(p) \/ Receive(p) \/ Expire(p) \/ Leave(p) \/ Wait(p)

Spec == Init /\ [][Next]_vars

-----------------------------------------------------------------------------
(* Properties.                                                              *)

\* Every variable has its type, and the list holds callers of WaitFor that have
\* not returned yet.
TypeOK == /\ v \in BOOLEAN
          /\ waiters \in Seq({p \in Callers : pc[p] \in {"select", "leave"}})
          /\ chan \in [Callers -> {"empty", "full"}]
          /\ pc \in [Callers -> {"idle", "select", "leave", "asleep", "woken"}]
          /\ result \in [Callers -> BOOLEAN]
          /\ fired \in [Callers -> BOOLEAN]

\* Set, which holds e.m, never blocks on a channel and never closes one twice: the
\* list has each waiter once, and its channel, of capacity one, is empty.
SetNeverBlocks == /\ IsInjective(waiters)
                  /\ \A p \in ToSet(waiters) : chan[p] = "empty"

\* Nobody waits for a signal that was given: a goroutine in the select of WaitFor
\* is in the list or has its signal, even if Clear came right after Set, and no
\* one is in the list or asleep while the flag is set.
NoLostSignal ==
  /\ \A p \in Callers : pc[p] = "select" => p \in ToSet(waiters) \/ chan[p] = "full"
  /\ v => waiters = <<>> /\ \A p \in Callers : pc[p] # "asleep"

\* WaitFor returns true only when the flag was set at some time during the call.
TrueMeansFired == \A p \in Callers : pc[p] = "leave" /\ result[p] => fired[p]
==============================================================================
