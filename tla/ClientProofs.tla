---------------------------- MODULE ClientProofs ----------------------------
(***************************************************************************)
(* One reconnect at a time, no forgotten failure, no leaked socket and a   *)
(* quiet client after Close, for any number of reconnect goroutines and    *)
(* any number of connections.                                              *)
(***************************************************************************)
EXTENDS Client, TLAPS

-----------------------------------------------------------------------------
(* The inductive invariant.                                                 *)

\* Where a connect has a socket of its own.
HasSock == {"header", "read", "stopAfter", "process", "ask", "reject", "check", "publish"}

\* Where a connect holds connMutex.
Connecting == HasSock \cup {"begin", "dial", "handOff", "start", "unlock", "fail"}

\* Where any process holds connMutex.
InLock == Connecting \cup {"hangUp", "join"}

\* Where a connect, or the goroutine about to connect, finds no connection.
Fresh == HasSock \cup {"prepare", "lock", "begin", "dial", "fail", "again", "sleep"}

\* Where NewClient can still succeed and nobody was told of a failure.
Early == (HasSock \ {"reject"}) \cup {"lock", "begin", "dial", "handOff", "start"}

\* Where NewClient has published its connection.
Published == {"handOff", "start", "unlock", "up", "asking"}

\* Where each goroutine can be.
Roles ==
  /\ pc[Starter] \in Connecting \cup {"lock", "up", "asking", "abort", "gone"}
  /\ \A g \in Goroutines : pc[g] \in Connecting \cup {"idle", "signal", "dlock", "hangUp",
                                                       "join", "prepare", "lock", "again", "sleep"}
  /\ pc[Closer] \in {"idle", "cancel", "seal", "signal", "dlock", "hangUp", "join",
                     "collect", "closed"}

\* connMutex is held exactly where the code says so.
MutexInv == \A p \in Processes : mutex = p <=> pc[p] \in InLock

\* Nobody can reconnect before NewClient's connect has told of a failure or started
\* the workers, and nobody can close a client that NewClient has not returned.
StarterInv == /\ pc[Starter] \in Early => \A g \in Goroutines : pc[g] = "idle"
              /\ ~Up => pc[Closer] = "idle"

\* A connect finds no connection and no worker: its disconnect has joined them, and
\* the next reconnect waits for connMutex.
FreshInv == \A p \in Connectors : pc[p] \in Fresh => conn = 0 /\ Joined

\* isClosing and the close context follow Close, or the failing NewClient.
ClosingInv == /\ isClosing <=> pc[Closer] # "idle"
              /\ pc[Closer] \notin {"idle", "cancel"} => cancelled
              /\ cancelled => isClosing \/ pc[Starter] = "gone"

\* Until connect sets isStart, its three workers wait, on the socket it dialed.
StartInv == \A p \in Connectors :
              /\ pc[p] \in HasSock \cup {"dial", "handOff", "start"} => ~isStart
              /\ pc[p] \in HasSock => sock # 0
              /\ pc[p] \in {"handOff", "start"} => \A w \in Workers : worker[w] = "wait"
              /\ pc[p] \in {"handOff", "start", "unlock"} => conn = sock /\ conn # 0

\* Every open socket is c.conn or in the hands of a connect; disconnect leaves none.
LeakInv == /\ \A s \in opened : s = conn \/ (s = sock /\ \E p \in Connectors : pc[p] \in HasSock)
           /\ \A q \in Disconnectors : pc[q] = "join" => opened = {}

\* isStop is set on an open connection only for a disconnect that is under way.
StopInv == (pc[Starter] \in Published /\ ~isClosing /\ conn # 0 /\ isStop)
             => \E g \in Goroutines : pc[g] \in {"dlock", "hangUp", "join"}

\* NoForgottenFailure from the moment the connection is published.
FailureInv ==
  (pc[Starter] \in Published /\ ~isClosing /\ conn # 0 /\ \E w \in Workers : worker[w] = "none")
    => \E g \in Goroutines : Owns(g)

\* ClosedIsQuiet, and no goroutine is in a connect past its first test of isClosing.
QuietInv ==
  pc[Closer] \in {"collect", "closed"} =>
    /\ opened = {} /\ conn = 0 /\ Joined
    /\ \A g \in Goroutines : pc[g] \notin HasSock \cup {"dial", "handOff", "start", "unlock"}

\* Lifecycle and the types are proved one by one in a step: the types are about
\* Boolean variables, the rest about program counters.
Lifecycle == /\ Roles /\ MutexInv /\ StarterInv /\ SingleReconnect /\ FreshInv
             /\ ClosingInv /\ StartInv /\ WorkersHaveConn /\ LeakInv /\ StopInv
             /\ FailureInv /\ ResetBeforeStart /\ QuietInv

IInv == TypeOK /\ Lifecycle

-----------------------------------------------------------------------------
(* The steps.                                                               *)

\* When nobody owns the reconnect, there is a goroutine to start it: at most
\* one other is still returning from connect, since it holds connMutex.
LEMMA IdleGoroutine ==
  ASSUME IInv, ~isReconnecting
  PROVE  NewGoroutine \in Goroutines /\ pc[NewGoroutine] = "idle"
<1>1. \A g \in Goroutines : pc[g] \in {"idle", "start", "unlock"}
  BY DEF IInv, Lifecycle, SingleReconnect, Owns
<1>2. \A g, h \in Goroutines : pc[g] # "idle" /\ pc[h] # "idle" => g = h
  BY SMTT(30), <1>1 DEF IInv, Lifecycle, MutexInv, InLock, Connecting, Processes, Connectors
<1>3. \E g \in Goroutines : pc[g] = "idle"
  BY <1>2, ProcessesAssumption
<1> QED BY Zenon, <1>3 DEF NewGoroutine

\* Every step of connectBeforeWorkers keeps the invariant.
LEMMA ConnectKeeps ==
  ASSUME IInv, NEW p \in Connectors, ConnectStep(p), ~Ask(p)
  PROVE  IInv'
<1> USE ProcessesAssumption
    DEF IInv, Lifecycle, Processes, Connectors, Disconnectors, Workers, Goto, flags, net, buf,
        TypeOK, Labels, WorkerLabels, Roles, MutexInv, InLock, Connecting, HasSock, StarterInv,
        Early, Up, SingleReconnect, Owns, FreshInv, Fresh, Joined, ClosingInv, StartInv,
        WorkersHaveConn, LeakInv, StopInv, Published, FailureInv, ResetBeforeStart, QuietInv
<1>1. CASE Lock(p)
  BY SMTT(60), <1>1 DEF Lock, Acquire
<1>2. CASE Begin(p)
  <2>1. CASE isClosing
    BY SMTT(60), <1>2, <2>1 DEF Begin
  <2>2. CASE ~isClosing
    <3>1. /\ pc[p] = "begin" /\ Goto(p, "dial") /\ isStart' = FALSE
          /\ UNCHANGED <<worker, mutex, isClosing, isReconnecting, isStop, cancelled, net, buf>>
      BY Zenon, <1>2, <2>2 DEF Begin
    <3>2. TypeOK'
      BY Zenon, <3>1
    <3>3. Lifecycle'
      BY SMTT(60), <2>2, <3>1
    <3> QED BY Zenon, <3>2, <3>3
  <2> QED BY <2>1, <2>2
<1>3. CASE Dial(p)
  BY SMTT(60), <1>3 DEF Dial
<1>4. CASE DialFails(p)
  BY SMTT(60), <1>4 DEF DialFails
<1>5. CASE WriteHeader(p)
  BY SMTT(60), <1>5 DEF WriteHeader
<1>6. CASE HeaderFails(p)
  BY SMTT(60), <1>6 DEF HeaderFails, Shut
<1>7. CASE ReadFirst(p)
  BY SMTT(60), <1>7 DEF ReadFirst
<1>8. CASE ReadFails(p)
  BY SMTT(60), <1>8 DEF ReadFails, Shut
<1>9. CASE CloseOnCancel(p)
  BY SMTT(60), <1>9 DEF CloseOnCancel, Shut
<1>10. CASE StopAfter(p)
  <2>1. CASE Ended(p)
    <3>1. /\ pc[p] = "stopAfter" /\ Goto(p, "fail") /\ Shut(sock)
          /\ UNCHANGED <<worker, mutex, flags, conn, sock, first, dialed, buf>>
      BY Zenon, <1>10, <2>1 DEF StopAfter
    <3> QED BY SMTT(60), <3>1 DEF Shut
  <2>2. CASE ~Ended(p)
    <3>1. /\ pc[p] = "stopAfter" /\ Goto(p, "process")
          /\ UNCHANGED <<worker, mutex, flags, net, buf>>
      BY Zenon, <1>10, <2>2 DEF StopAfter
    <3> QED BY SMTT(60), <3>1
  <2> QED BY Zenon, <2>1, <2>2
<1>11. CASE Process(p)
  BY SMTT(60), <1>11 DEF Process
<1>12. CASE Reject(p)
  BY SMTT(60), <1>12 DEF Reject, Shut
<1>13. CASE Check(p)
  <2>1. CASE isClosing
    <3>1. /\ pc[p] = "check" /\ Goto(p, "fail") /\ Shut(sock)
          /\ UNCHANGED <<worker, mutex, flags, conn, sock, first, dialed, buf>>
      BY Zenon, <1>13, <2>1 DEF Check
    <3> QED BY SMTT(60), <3>1 DEF Shut
  <2>2. CASE ~isClosing
    <3>1. /\ pc[p] = "check" /\ Goto(p, "publish")
          /\ UNCHANGED <<worker, mutex, flags, net, buf>>
      BY Zenon, <1>13, <2>2 DEF Check
    <3> QED BY SMTT(60), <3>1, <2>2
  <2> QED BY <2>1, <2>2
<1>14. CASE Publish(p)
  <2>1. TypeOK'
    BY Zenon, <1>14 DEF Publish
  <2>2. Lifecycle'
    BY SMTT(60), <1>14 DEF Publish
  <2> QED BY Zenon, <2>1, <2>2
<1>15. CASE HandOff(p)
  BY SMTT(60), <1>15 DEF HandOff
<1>16. CASE Start(p)
  BY SMTT(60), <1>16 DEF Start
<1>17. CASE Unlock(p)
  BY SMTT(60), <1>17 DEF Unlock, Release, ReturnOnce
<1>18. CASE Fail(p)
  BY SMTT(60), <1>18 DEF Fail, Release
<1> QED
  BY Zenon, <1>1, <1>2, <1>3, <1>4, <1>5, <1>6, <1>7, <1>8, <1>9, <1>10, <1>11, <1>12, <1>13,
     <1>14, <1>15, <1>16, <1>17, <1>18 DEF ConnectStep

\* The swap of Reconnect, asked for by the first message, keeps the invariant.
LEMMA AskKeeps ==
  ASSUME IInv, NEW p \in Connectors, Ask(p)
  PROVE  IInv'
<1> USE ProcessesAssumption
    DEF IInv, Lifecycle, Processes, Connectors, Disconnectors, Workers, Goto, flags, net, buf,
        TypeOK, Labels, WorkerLabels, Roles, MutexInv, InLock, Connecting, HasSock, StarterInv,
        Early, Up, SingleReconnect, Owns, FreshInv, Fresh, Joined, ClosingInv, StartInv,
        WorkersHaveConn, LeakInv, StopInv, Published, FailureInv, ResetBeforeStart, QuietInv
<1>1. CASE isReconnecting
  <2>1. /\ pc[p] = "ask" /\ isReconnecting' = TRUE
        /\ pc' = [pc EXCEPT ![p] = "reject"]
        /\ UNCHANGED <<worker, mutex, isClosing, isStop, isStart, cancelled, net, buf>>
    BY Zenon, <1>1 DEF Ask, SwapReconnecting
  <2>2. TypeOK'
    BY Zenon, <2>1
  <2>3. Lifecycle'
    BY SMTT(60), <1>1, <2>1
  <2> QED BY Zenon, <2>2, <2>3
<1>2. CASE ~isReconnecting
  <2> DEFINE n == NewGoroutine
  <2>1. n \in Goroutines /\ pc[n] = "idle"
    BY Zenon, <1>2, IdleGoroutine
  <2>2. /\ pc[p] = "ask" /\ isReconnecting' = TRUE
        /\ pc' = [[pc EXCEPT ![p] = "reject"] EXCEPT ![n] = "signal"]
        /\ UNCHANGED <<worker, mutex, isClosing, isStop, isStart, cancelled, net, buf>>
    BY Zenon, <1>2 DEF Ask, SwapReconnecting
  <2> HIDE DEF n
  <2>3. TypeOK'
    BY Zenon, <2>1, <2>2
  <2>4. Lifecycle'
    BY SMTT(60), <1>2, <2>1, <2>2
  <2> QED BY Zenon, <2>3, <2>4
<1> QED BY Zenon, <1>1, <1>2

\* Every step of disconnect keeps the invariant.
LEMMA DisconnectKeeps ==
  ASSUME IInv, NEW q \in Disconnectors, DisconnectStep(q)
  PROVE  IInv'
<1> USE ProcessesAssumption
    DEF IInv, Lifecycle, Processes, Connectors, Disconnectors, Workers, Goto, flags, net, buf,
        TypeOK, Labels, WorkerLabels, Roles, MutexInv, InLock, Connecting, HasSock, StarterInv,
        Early, Up, SingleReconnect, Owns, FreshInv, Fresh, Joined, ClosingInv, StartInv,
        WorkersHaveConn, LeakInv, StopInv, Published, FailureInv, ResetBeforeStart, QuietInv
<1>1. CASE Signal(q)
  <2>1. TypeOK'
    BY Zenon, <1>1 DEF Signal
  <2>2. Lifecycle'
    BY SMTT(60), <1>1 DEF Signal
  <2> QED BY Zenon, <2>1, <2>2
<1>2. CASE DisconnectLock(q)
  BY SMTT(60), <1>2 DEF DisconnectLock, Acquire
<1>3. CASE HangUp(q)
  BY SMTT(60), <1>3 DEF HangUp, Shut
<1>4. CASE Join(q)
  BY SMTT(60), <1>4 DEF Join, Release
<1> QED
  BY Zenon, <1>1, <1>2, <1>3, <1>4 DEF DisconnectStep

\* The other steps of a reconnect goroutine keep the invariant.
LEMMA ReconnectKeeps ==
  ASSUME IInv, NEW g \in Goroutines,
         Prepare(g) \/ Again(g) \/ SleepEnds(g) \/ SleepCancelled(g)
  PROVE  IInv'
<1> USE ProcessesAssumption
    DEF IInv, Lifecycle, Processes, Connectors, Disconnectors, Workers, Goto, flags, net, buf,
        TypeOK, Labels, WorkerLabels, Roles, MutexInv, InLock, Connecting, HasSock, StarterInv,
        Early, Up, SingleReconnect, Owns, FreshInv, Fresh, Joined, ClosingInv, StartInv,
        WorkersHaveConn, LeakInv, StopInv, Published, FailureInv, ResetBeforeStart, QuietInv
<1>1. CASE Prepare(g)
  <2>1. TypeOK'
    BY Zenon, <1>1 DEF Prepare
  <2>2. Lifecycle'
    BY SMTT(60), <1>1 DEF Prepare
  <2> QED BY Zenon, <2>1, <2>2
<1>2. CASE Again(g)
  <2>1. CASE isClosing
    <3>1. /\ pc[g] = "again" /\ Goto(g, "idle") /\ isReconnecting' = FALSE
          /\ UNCHANGED <<worker, mutex, isClosing, isStop, isStart, cancelled, net, buf>>
      BY Zenon, <1>2, <2>1 DEF Again
    <3>2. TypeOK'
      BY Zenon, <3>1
    <3>3. Lifecycle'
      BY SMTT(60), <2>1, <3>1
    <3> QED BY Zenon, <3>2, <3>3
  <2>2. CASE ~isClosing
    <3>1. /\ pc[g] = "again" /\ Goto(g, "sleep")
          /\ UNCHANGED <<worker, mutex, flags, net, buf>>
      BY Zenon, <1>2, <2>2 DEF Again
    <3>2. TypeOK'
      BY Zenon, <3>1
    <3>3. Lifecycle'
      BY SMTT(60), <2>2, <3>1
    <3> QED BY Zenon, <3>2, <3>3
  <2> QED BY Zenon, <2>1, <2>2
<1>3. CASE SleepEnds(g)
  BY SMTT(60), <1>3 DEF SleepEnds
<1>4. CASE SleepCancelled(g)
  <2>1. TypeOK'
    BY Zenon, <1>4 DEF SleepCancelled
  <2>2. Lifecycle'
    BY SMTT(60), <1>4 DEF SleepCancelled
  <2> QED BY Zenon, <2>1, <2>2
<1> QED
  BY Zenon, <1>1, <1>2, <1>3, <1>4 DEF IInv

\* The steps of Close, the failing NewClient and the user keep the invariant.
LEMMA CallsKeep ==
  ASSUME IInv, Abort \/ Cancel \/ SealBuffer \/ Collect \/ Close \/ Ship \/ UserReconnect \/ UserSwap
  PROVE  IInv'
<1> USE ProcessesAssumption
    DEF IInv, Lifecycle, Processes, Connectors, Disconnectors, Workers, Goto, flags, net, buf,
        TypeOK, Labels, WorkerLabels, Roles, MutexInv, InLock, Connecting, HasSock, StarterInv,
        Early, Up, SingleReconnect, Owns, FreshInv, Fresh, Joined, ClosingInv, StartInv,
        WorkersHaveConn, LeakInv, StopInv, Published, FailureInv, ResetBeforeStart, QuietInv
<1>1. CASE Abort
  <2>1. TypeOK'
    BY Zenon, <1>1 DEF Abort
  <2>2. Lifecycle'
    BY SMTT(60), <1>1 DEF Abort
  <2> QED BY Zenon, <2>1, <2>2
<1>2. CASE Cancel
  <2>1. TypeOK'
    BY Zenon, <1>2 DEF Cancel
  <2>2. Lifecycle'
    BY SMTT(60), <1>2 DEF Cancel
  <2> QED BY Zenon, <2>1, <2>2
<1>3. CASE SealBuffer
  <2>1. TypeOK'
    BY Zenon, <1>3 DEF SealBuffer
  <2>2. Lifecycle'
    BY SMTT(60), <1>3 DEF SealBuffer
  <2> QED BY Zenon, <2>1, <2>2
<1>4. CASE Collect
  <2>1. TypeOK'
    BY Zenon, <1>4 DEF Collect
  <2>2. Lifecycle'
    BY SMTT(60), <1>4 DEF Collect
  <2> QED BY Zenon, <2>1, <2>2
<1>5. CASE Close
  <2>1. TypeOK'
    BY Zenon, <1>5 DEF Close
  <2>2. Lifecycle'
    BY SMTT(60), <1>5 DEF Close
  <2> QED BY Zenon, <2>1, <2>2
<1>6. CASE Ship
  <2>1. TypeOK'
    BY Zenon, <1>6 DEF Ship
  <2>2. Lifecycle'
    BY SMTT(60), <1>6 DEF Ship
  <2> QED BY Zenon, <2>1, <2>2
<1>7. CASE UserReconnect
  <2>1. TypeOK'
    BY Zenon, <1>7 DEF UserReconnect
  <2>2. Lifecycle'
    BY SMTT(60), <1>7 DEF UserReconnect
  <2> QED BY Zenon, <2>1, <2>2
<1>8. CASE UserSwap
  <2>1. CASE isReconnecting
    <3>1. /\ pc[Starter] = "asking" /\ isReconnecting' = TRUE
          /\ pc' = [pc EXCEPT ![Starter] = "up"]
          /\ UNCHANGED <<worker, mutex, isClosing, isStop, isStart, cancelled, net, buf>>
      BY Zenon, <1>8, <2>1 DEF UserSwap, SwapReconnecting
    <3>2. TypeOK'
      BY Zenon, <3>1
    <3>3. Lifecycle'
      BY SMTT(60), <2>1, <3>1
    <3> QED BY Zenon, <3>2, <3>3
  <2>2. CASE ~isReconnecting
    <3> DEFINE n == NewGoroutine
    <3>1. n \in Goroutines /\ pc[n] = "idle"
      BY Zenon, <2>2, IdleGoroutine
    <3>2. /\ pc[Starter] = "asking" /\ isReconnecting' = TRUE
          /\ pc' = [[pc EXCEPT ![Starter] = "up"] EXCEPT ![n] = "signal"]
          /\ UNCHANGED <<worker, mutex, isClosing, isStop, isStart, cancelled, net, buf>>
      BY Zenon, <1>8, <2>2 DEF UserSwap, SwapReconnecting
    <3> HIDE DEF n
    <3>3. TypeOK'
      BY Zenon, <3>1, <3>2
    <3>4. Lifecycle'
      BY SMTT(60), <2>2, <3>1, <3>2
    <3> QED BY Zenon, <3>3, <3>4
  <2> QED BY Zenon, <2>1, <2>2
<1> QED
  BY Zenon, <1>1, <1>2, <1>3, <1>4, <1>5, <1>6, <1>7, <1>8 DEF IInv

\* Every step that all the workers have keeps the invariant.
LEMMA WorkerKeeps ==
  ASSUME IInv, NEW w \in Workers, WorkerStep(w)
  PROVE  IInv'
<1> USE ProcessesAssumption
    DEF IInv, Lifecycle, Processes, Connectors, Disconnectors, Workers, Goto, flags, net, buf,
        Turn, TypeOK, Labels, WorkerLabels, Roles, MutexInv, InLock, Connecting, HasSock, StarterInv,
        Early, Up, SingleReconnect, Owns, FreshInv, Fresh, Joined, ClosingInv, StartInv,
        WorkersHaveConn, LeakInv, StopInv, Published, FailureInv, ResetBeforeStart, QuietInv
<1>1. CASE Awake(w)
  <2>1. TypeOK'
    BY Zenon, <1>1 DEF Awake
  <2>2. Lifecycle'
    BY SMTT(60), <1>1 DEF Awake
  <2> QED BY Zenon, <2>1, <2>2
<1>2. CASE Head(w)
  <2>1. TypeOK'
    BY Zenon, <1>2 DEF Head
  <2>2. Lifecycle'
    BY SMTT(60), <1>2 DEF Head
  <2> QED BY Zenon, <2>1, <2>2
<1>3. CASE IOFails(w)
  <2>1. TypeOK'
    BY Zenon, <1>3 DEF IOFails, Usable
  <2>2. Lifecycle'
    BY SMTT(60), <1>3 DEF IOFails, Usable
  <2> QED BY Zenon, <2>1, <2>2
<1>4. CASE Failed(w)
  <2>1. TypeOK'
    BY Zenon, <1>4 DEF Failed
  <2>2. Lifecycle'
    BY SMTT(60), <1>4 DEF Failed
  <2> QED BY Zenon, <2>1, <2>2
<1>5. CASE Swap(w)
  <2>1. CASE isReconnecting
    <3>1. /\ worker[w] \in {"swap", "askSwap"} /\ Turn(w, IF worker[w] = "swap" THEN "none" ELSE "head")
          /\ isReconnecting' = TRUE /\ pc' = pc
          /\ UNCHANGED <<mutex, isClosing, isStop, isStart, cancelled, net, buf>>
      BY Zenon, <1>5, <2>1 DEF Swap, SwapReconnecting
    <3>2. TypeOK'
      BY Zenon, <3>1
    <3>3. Lifecycle'
      BY SMTT(60), <2>1, <3>1
    <3> QED BY Zenon, <3>2, <3>3
  <2>2. CASE ~isReconnecting
    <3> DEFINE n == NewGoroutine
    <3>1. n \in Goroutines /\ pc[n] = "idle"
      BY Zenon, <2>2, IdleGoroutine
    <3>2. /\ worker[w] \in {"swap", "askSwap"} /\ Turn(w, IF worker[w] = "swap" THEN "none" ELSE "head")
          /\ isReconnecting' = TRUE /\ pc' = [pc EXCEPT ![n] = "signal"]
          /\ UNCHANGED <<mutex, isClosing, isStop, isStart, cancelled, net, buf>>
      BY Zenon, <1>5, <2>2 DEF Swap, SwapReconnecting
    <3> HIDE DEF n
    <3>3. TypeOK'
      BY Zenon, <3>1, <3>2
    <3>4. Lifecycle'
      BY SMTT(60), <2>2, <3>1, <3>2
    <3> QED BY Zenon, <3>3, <3>4
  <2> QED BY Zenon, <2>1, <2>2
<1> QED
  BY Zenon, <1>1, <1>2, <1>3, <1>4, <1>5 DEF WorkerStep

\* The steps of one worker only, and those of the peer, keep the invariant.
LEMMA WireKeeps ==
  ASSUME IInv, \/ Throttle \/ BackoffEnds \/ BackoffCancelled \/ Send \/ EncodeFails
         \/ NothingToSend \/ Ping \/ PeerStep
  PROVE  IInv'
<1> USE ProcessesAssumption
    DEF IInv, Lifecycle, Processes, Connectors, Disconnectors, Workers, Goto, flags, net, buf,
        Turn, TypeOK, Labels, WorkerLabels, Roles, MutexInv, InLock, Connecting, HasSock, StarterInv,
        Early, Up, SingleReconnect, Owns, FreshInv, Fresh, Joined, ClosingInv, StartInv,
        WorkersHaveConn, LeakInv, StopInv, Published, FailureInv, ResetBeforeStart, QuietInv
<1>1. CASE Throttle
  <2>1. TypeOK'
    BY Zenon, <1>1 DEF Throttle
  <2>2. Lifecycle'
    BY SMTT(60), <1>1 DEF Throttle
  <2> QED BY Zenon, <2>1, <2>2
<1>2. CASE BackoffEnds
  <2>1. TypeOK'
    BY Zenon, <1>2 DEF BackoffEnds
  <2>2. Lifecycle'
    BY SMTT(60), <1>2 DEF BackoffEnds
  <2> QED BY Zenon, <2>1, <2>2
<1>3. CASE BackoffCancelled
  <2>1. TypeOK'
    BY Zenon, <1>3 DEF BackoffCancelled
  <2>2. Lifecycle'
    BY SMTT(60), <1>3 DEF BackoffCancelled
  <2> QED BY Zenon, <2>1, <2>2
<1>4. CASE Send
  <2>1. TypeOK'
    BY Zenon, <1>4 DEF Send
  <2>2. Lifecycle'
    BY SMTT(60), <1>4 DEF Send
  <2> QED BY Zenon, <2>1, <2>2
<1>5. CASE EncodeFails
  <2>1. TypeOK'
    BY Zenon, <1>5 DEF EncodeFails
  <2>2. Lifecycle'
    BY SMTT(60), <1>5 DEF EncodeFails
  <2> QED BY Zenon, <2>1, <2>2
<1>6. CASE NothingToSend
  <2>1. TypeOK'
    BY Zenon, <1>6 DEF NothingToSend
  <2>2. Lifecycle'
    BY SMTT(60), <1>6 DEF NothingToSend
  <2> QED BY Zenon, <2>1, <2>2
<1>7. CASE Ping
  <2>1. TypeOK'
    BY Zenon, <1>7 DEF Ping
  <2>2. Lifecycle'
    BY SMTT(60), <1>7 DEF Ping
  <2> QED BY Zenon, <2>1, <2>2
<1>8. CASE PeerStep
  <2>1. ASSUME NEW verb \in Verbs, Receive(verb)
        PROVE  IInv'
    <3>1. TypeOK'
      BY Zenon, <2>1 DEF Receive
    <3>2. Lifecycle'
      BY SMTT(60), <2>1 DEF Receive, Usable
    <3> QED BY Zenon, <3>1, <3>2
  <2>2. ASSUME NEW s \in opened, Break(s)
        PROVE  IInv'
    <3>1. TypeOK'
      <4>1. broken' = broken \cup {s} /\ s \in opened /\ broken \subseteq opened
        BY Zenon, <2>2 DEF Break
      <4>2. broken' \subseteq opened
        BY ONLY <4>1
      <4> QED BY Zenon, <2>2, <4>2 DEF Break
    <3>2. Lifecycle'
      BY SMTT(60), <2>2 DEF Break
    <3> QED BY Zenon, <3>1, <3>2
  <2> QED BY Zenon, <1>8, <2>1, <2>2 DEF PeerStep
<1> QED
  BY Zenon, <1>1, <1>2, <1>3, <1>4, <1>5, <1>6, <1>7, <1>8 DEF IInv

-----------------------------------------------------------------------------
(* The theorems.                                                            *)

\* Every step of the client and of its peer keeps the invariant.
LEMMA NextKeeps ==
  ASSUME IInv, [Next]_vars
  PROVE  IInv'
<1>1. CASE UNCHANGED vars
  <2>1. TypeOK'
    BY Zenon, <1>1 DEF IInv, vars, flags, net, buf, TypeOK
  <2>2. Lifecycle'
    BY SMTT(60), <1>1
       DEF IInv, Lifecycle, vars, flags, net, buf, Roles, MutexInv, StarterInv, Up,
           SingleReconnect, Owns, FreshInv, Joined, ClosingInv, StartInv, WorkersHaveConn,
           LeakInv, StopInv, FailureInv, ResetBeforeStart, QuietInv
  <2> QED BY Zenon, <2>1, <2>2 DEF IInv
<1>2. ASSUME NEW p \in Connectors, ConnectStep(p)
      PROVE  IInv'
  BY Zenon, <1>2, ConnectKeeps, AskKeeps
<1>3. ASSUME NEW q \in Disconnectors, DisconnectStep(q)
      PROVE  IInv'
  BY Zenon, <1>3, DisconnectKeeps
<1>4. CASE StartStep
  BY Zenon, <1>2, <1>4, CallsKeep DEF StartStep, Connectors
<1>5. CASE CloseStep
  BY Zenon, <1>3, <1>5, CallsKeep DEF CloseStep, Disconnectors
<1>6. CASE UserStep
  BY Zenon, <1>6, CallsKeep DEF UserStep
<1>7. CASE PeerStep
  BY Zenon, <1>7, WireKeeps
<1>8. ASSUME NEW g \in Goroutines, ReconnectStep(g)
      PROVE  IInv'
  BY Zenon, <1>2, <1>3, <1>8, ReconnectKeeps DEF ReconnectStep, Connectors, Disconnectors
<1>9. ASSUME NEW w \in Workers, WorkerStep(w)
      PROVE  IInv'
  BY Zenon, <1>9, WorkerKeeps
<1>10. CASE WorkerStep("listener") \/ SenderStep \/ BackoffEnds \/ KeepAliveStep
  BY Zenon, <1>9, <1>10, WireKeeps DEF SenderStep, KeepAliveStep, Workers
<1> QED BY Zenon, <1>1, <1>4, <1>5, <1>6, <1>7, <1>8, <1>10 DEF Next

\* A new client satisfies the invariant.
LEMMA InitHolds ==
  ASSUME Init
  PROVE  IInv
<1> USE ProcessesAssumption
    DEF Init, Processes, Connectors, Disconnectors, Workers
<1>1. TypeOK
  <2>1. pc \in [Processes -> Labels] /\ worker \in [Workers -> WorkerLabels]
    BY DEF Labels, WorkerLabels
  <2>2. /\ {isClosing, isReconnecting, isStop, isStart, cancelled} \subseteq BOOLEAN
        /\ {sealed, unsent, inFlight, backoff} \subseteq BOOLEAN
    BY Zenon
  <2>3. /\ conn \in 0 .. dialed /\ sock \in 0 .. dialed /\ dialed \in 0 .. MaxConns
        /\ opened \subseteq 1 .. dialed
    BY SMT
  <2> QED BY Zenon, <2>1, <2>2, <2>3 DEF TypeOK
<1>2. Lifecycle
  BY SMTT(60)
     DEF Lifecycle, Roles, MutexInv, InLock, Connecting, HasSock, StarterInv, Early, Up,
         SingleReconnect, Owns, FreshInv, Fresh, Joined, ClosingInv, StartInv,
         WorkersHaveConn, LeakInv, StopInv, Published, FailureInv, ResetBeforeStart, QuietInv
<1> QED BY Zenon, <1>1, <1>2 DEF IInv

\* The invariant holds in every state the client reaches.
LEMMA AlwaysIInv == Spec => []IInv
<1>1. Init => IInv
  BY Zenon, InitHolds
<1>2. IInv /\ [Next]_vars => IInv'
  BY Zenon, NextKeeps
<1> QED BY <1>1, <1>2, PTL DEF Spec

\* Reconnect lets one goroutine reconnect at a time, and isReconnecting is set
\* exactly while there is one, however many workers, users and first messages ask.
THEOREM OneReconnectAtATime == Spec => []SingleReconnect
<1>1. IInv => SingleReconnect
  BY Zenon DEF IInv, Lifecycle
<1> QED BY <1>1, AlwaysIInv, PTL

\* A request for a reconnect that a worker drops is served: the owner of the
\* reconnect under way has not yet joined the workers of this connection.
THEOREM RequestsAreServed == Spec => []RequestIsServed
<1>1. ASSUME IInv, isReconnecting, NEW w \in Workers, worker[w] \in {"swap", "askSwap"}
      PROVE  \E g \in Goroutines : pc[g] \in {"signal", "dlock", "hangUp", "join"}
  <2>1. PICK g \in Goroutines : Owns(g)
    BY <1>1 DEF IInv, Lifecycle, SingleReconnect
  <2>2. g \in Connectors /\ ~Joined
    BY <1>1 DEF Connectors, Joined
  <2>3. pc[g] \notin Fresh
    BY <1>1, <2>2 DEF IInv, Lifecycle, FreshInv
  <2>4. pc[g] # "handOff"
    BY <1>1, <2>2 DEF IInv, Lifecycle, StartInv
  <2>5. pc[g] \in Connecting \cup {"idle", "signal", "dlock", "hangUp", "join", "prepare",
                                  "lock", "again", "sleep"}
    BY <1>1 DEF IInv, Lifecycle, Roles
  <2> QED BY <2>1, <2>3, <2>4, <2>5 DEF Owns, Connecting, Fresh
<1>2. IInv => RequestIsServed
  BY <1>1 DEF RequestIsServed
<1> QED BY <1>2, AlwaysIInv, PTL

\* The workers read c.conn without connMutex, and find the socket they were
\* started for: disconnect clears it only after wg.Wait.
THEOREM WorkersKeepTheirConn == Spec => []WorkersHaveConn
<1>1. IInv => WorkersHaveConn
  BY Zenon DEF IInv, Lifecycle
<1> QED BY <1>1, AlwaysIInv, PTL

\* ResetDelivery has run, after the old workers and before the new ones, in
\* every reconnect.
THEOREM DeliveryIsResetFirst == Spec => []ResetBeforeStart
<1>1. IInv => ResetBeforeStart
  BY Zenon DEF IInv, Lifecycle
<1> QED BY <1>1, AlwaysIInv, PTL

\* A worker that failed has its reconnect: beforeWorkers gives up the old one
\* before a worker of the new connection can fail.
THEOREM FailuresAreRemembered == Spec => []NoForgottenFailure
<1>1. IInv => NoForgottenFailure
  BY SMTT(30) DEF IInv, Lifecycle, FailureInv, Published, NoForgottenFailure, Up
<1> QED BY <1>1, AlwaysIInv, PTL

\* No error path of connect and no disconnect leaves a socket open that nobody
\* holds.
THEOREM SocketsAreOwned == Spec => []NoSocketLeak
<1>1. ASSUME IInv
      PROVE  NoSocketLeak
  <2> SUFFICES ASSUME NEW s \in opened, s # conn
               PROVE  s = sock /\ mutex \in Connectors /\ pc[mutex] # "fail"
    BY Zenon DEF NoSocketLeak
  <2>1. PICK p \in Connectors : pc[p] \in HasSock /\ s = sock
    BY <1>1 DEF IInv, Lifecycle, LeakInv
  <2>2. mutex = p
    BY <1>1, <2>1 DEF IInv, Lifecycle, MutexInv, InLock, Connecting, Processes
  <2> QED BY <2>1, <2>2 DEF HasSock
<1> QED BY <1>1, AlwaysIInv, PTL

\* After Close no worker runs, no socket is open and no goroutine can start one:
\* the recheck of isClosing stops a connect that Close overtook.
THEOREM CloseLeavesQuiet == Spec => []ClosedIsQuiet
<1>1. IInv => ClosedIsQuiet
  BY SMTT(30) DEF IInv, Lifecycle, QuietInv, ClosedIsQuiet, Joined, HasSock
<1> QED BY <1>1, AlwaysIInv, PTL
=============================================================================
