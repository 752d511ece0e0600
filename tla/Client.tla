------------------------------- MODULE Client -------------------------------
(***************************************************************************)
(* The connection lifecycle of client.go: NewClient's first connect, the   *)
(* three transport workers, the reconnect goroutines and Close, with the   *)
(* state they share: connMutex, the isStop and isStart events, the         *)
(* isClosing and isReconnecting flags, the close context and c.conn.       *)
(*                                                                         *)
(* Each access to shared state is a step; accesses that nobody else can    *)
(* observe apart are one step.  The peer sends any verb, and any           *)
(* connection may break or be refused at any time.  The buffer is reduced  *)
(* to what the lifecycle needs: whether a frame awaits the sender (unsent) *)
(* and whether one was given to a connection and not confirmed (inFlight). *)
(***************************************************************************)
EXTENDS Naturals, FiniteSets

CONSTANTS Goroutines,       \* reconnect goroutines that can exist at once
          Starter, Closer,  \* the callers of NewClient and of Close
          NoOne,            \* holder of the free connMutex
          Verbs,            \* the control messages the peer sends
          Calls,            \* the methods the user calls, besides Close
          MaxConns          \* bound: sockets dialed

ASSUME ProcessesAssumption ==
  /\ Starter \notin Goroutines /\ Closer \notin Goroutines /\ Starter # Closer
  /\ NoOne \notin Goroutines \cup {Starter, Closer}
  /\ \E g, h \in Goroutines : g # h
  /\ Verbs \subseteq {"READY", "ACK", "FLOW", "BACKOFF", "RECONNECT", "ERROR"}
  /\ "READY" \in Verbs
  /\ Calls \subseteq {"Ship", "Reconnect"}
  /\ MaxConns \in Nat

Connectors == Goroutines \cup {Starter}
Disconnectors == Goroutines \cup {Closer}
Processes == Connectors \cup Disconnectors
Workers == {"listener", "sender", "keepAlive"}

VARIABLES pc,             \* of every process
          worker,         \* of every worker; "none" when it has exited
          mutex,          \* holder of connMutex
          isClosing, isReconnecting, isStop, isStart,
          cancelled,      \* closeCancel was called
          conn,           \* c.conn: a socket, 0 for nil
          sock, first,    \* connect's socket, and the first message while it needs it
          dialed,         \* sockets dialed so far, numbered from 1
          opened,         \* sockets this side has not closed
          broken,         \* sockets the peer or the network has ended
          sealed,         \* the buffer was closed
          unsent, inFlight,
          backoff         \* c.backoffTime is not 0

flags == <<isClosing, isReconnecting, isStop, isStart, cancelled>>
net   == <<conn, sock, first, dialed, opened, broken>>
buf   == <<sealed, unsent, inFlight, backoff>>
vars  == <<pc, worker, mutex, flags, net, buf>>

Init == /\ pc = [p \in Processes |-> IF p = Starter THEN "lock" ELSE "idle"]
        /\ worker = [w \in Workers |-> "none"]
        /\ mutex = NoOne
        /\ isClosing = FALSE /\ isReconnecting = FALSE
        /\ isStop = FALSE /\ isStart = FALSE /\ cancelled = FALSE
        /\ conn = 0 /\ sock = 0 /\ first = "none" /\ dialed = 0
        /\ opened = {} /\ broken = {}
        /\ sealed = FALSE /\ unsent = FALSE /\ inFlight = FALSE /\ backoff = FALSE

Goto(p, label) == pc' = [pc EXCEPT ![p] = label]

Usable(s) == s \in opened \ broken

\* This side closes socket s, if it is one.
Shut(s) == opened' = opened \ {s} /\ broken' = broken \ {s}

Acquire(p) == mutex = NoOne /\ mutex' = p
Release(p) == mutex = p /\ mutex' = NoOne

-----------------------------------------------------------------------------
(* connectBeforeWorkers, run by NewClient and by the reconnect goroutines.  *)

Lock(p) == /\ pc[p] = "lock"
           /\ Acquire(p)
           /\ Goto(p, "begin")
           /\ UNCHANGED <<worker, flags, net, buf>>

Begin(p) == /\ pc[p] = "begin"
            /\ IF isClosing
               THEN Goto(p, "fail") /\ UNCHANGED isStart
               ELSE Goto(p, "dial") /\ isStart' = FALSE
            /\ UNCHANGED <<worker, mutex, isClosing, isReconnecting, isStop, cancelled,
                           net, buf>>

\* Only the reconnect goroutines connect under the close context.
Ended(p) == p # Starter /\ cancelled

\* A dial, with its retries, that gets through.
Dial(p) == /\ pc[p] = "dial"
           /\ ~Ended(p)
           /\ dialed < MaxConns
           /\ dialed' = dialed + 1
           /\ sock' = dialed + 1
           /\ opened' = opened \cup {dialed + 1}
           /\ Goto(p, "header")
           /\ UNCHANGED <<worker, mutex, flags, conn, first, broken, buf>>

\* The dial fails, or the context has ended.
DialFails(p) == /\ pc[p] = "dial"
                /\ Goto(p, "fail")
                /\ UNCHANGED <<worker, mutex, flags, net, buf>>

\* The header is written, perhaps to a connection that the peer has ended.
WriteHeader(p) == /\ pc[p] = "header"
                  /\ Goto(p, "read")
                  /\ UNCHANGED <<worker, mutex, flags, net, buf>>

HeaderFailsLeaks(p) == /\ pc[p] = "header"
                       /\ Goto(p, "fail")
                       /\ UNCHANGED <<worker, mutex, flags, net, buf>>

HeaderFails(p) == /\ pc[p] = "header"
                  /\ Shut(sock)
                  /\ Goto(p, "fail")
                  /\ UNCHANGED <<worker, mutex, flags, conn, sock, first, dialed, buf>>

ReadFirst(p) == /\ pc[p] = "read"
                /\ Usable(sock)
                /\ first' \in Verbs
                /\ Goto(p, "stopAfter")
                /\ UNCHANGED <<worker, mutex, flags, conn, sock, dialed, opened, broken, buf>>

\* A read error or the read deadline.
ReadFails(p) == /\ pc[p] = "read"
                /\ Shut(sock)
                /\ Goto(p, "fail")
                /\ UNCHANGED <<worker, mutex, flags, conn, sock, first, dialed, buf>>

\* The context.AfterFunc of connect closes the socket under the read.
CloseOnCancel(p) == /\ pc[p] \in {"read", "stopAfter"}
                    /\ Ended(p)
                    /\ sock \in opened
                    /\ Shut(sock)
                    /\ UNCHANGED <<pc, worker, mutex, flags, conn, sock, first, dialed, buf>>

StopAfter(p) == /\ pc[p] = "stopAfter"
                /\ IF Ended(p)
                   THEN Goto(p, "fail") /\ Shut(sock)
                   ELSE Goto(p, "process") /\ UNCHANGED <<opened, broken>>
                /\ UNCHANGED <<worker, mutex, flags, conn, sock, first, dialed, buf>>

\* There is always one to choose: two goroutines are never returning at once.
NewGoroutine == CHOOSE g \in Goroutines : pc[g] = "idle"

\* The second half of Reconnect, after its test of isClosing: the swap and the new
\* goroutine, unless one owns the reconnect.  The caller is at pcNext.
SwapReconnecting(pcNext) ==
  /\ isReconnecting' = TRUE
  /\ pc' = IF isReconnecting THEN pcNext ELSE [pcNext EXCEPT ![NewGoroutine] = "signal"]

\* processControlMessage of the first message; an unknown verb is like ERROR.
Process(p) ==
  /\ pc[p] = "process"
  /\ backoff' \in IF first = "BACKOFF" THEN BOOLEAN ELSE {backoff}
  /\ Goto(p, CASE first = "RECONNECT" /\ ~isClosing   -> "ask"
              [] first \in {"RECONNECT", "ERROR"}      -> "reject"
              [] OTHER                                -> "check")
  /\ UNCHANGED <<worker, mutex, flags, net, sealed, unsent, inFlight>>

Ask(p) == /\ pc[p] = "ask"
          /\ SwapReconnecting([pc EXCEPT ![p] = "reject"])
          /\ UNCHANGED <<worker, mutex, isClosing, isStop, isStart, cancelled, net, buf>>

Reject(p) == /\ pc[p] = "reject"
             /\ Shut(sock)
             /\ Goto(p, "fail")
             /\ UNCHANGED <<worker, mutex, flags, conn, sock, first, dialed, buf>>

Check(p) == /\ pc[p] = "check"
            /\ IF isClosing
               THEN Goto(p, "fail") /\ Shut(sock)
               ELSE Goto(p, "publish") /\ UNCHANGED <<opened, broken>>
            /\ UNCHANGED <<worker, mutex, flags, conn, sock, first, dialed, buf>>

\* isStop.Clear, c.conn = conn, and the three workers, which wait for isStart.
Publish(p) == /\ pc[p] = "publish"
              /\ isStop' = FALSE
              /\ conn' = sock
              /\ first' = "none"
              /\ worker' = [w \in Workers |-> "wait"]
              /\ Goto(p, "handOff")
              /\ UNCHANGED <<mutex, isClosing, isReconnecting, isStart, cancelled,
                             sock, dialed, opened, broken, buf>>

HandOffLate(p) == /\ pc[p] = "handOff"
                  /\ Goto(p, "start")
                  /\ UNCHANGED <<worker, mutex, flags, net, buf>>

\* beforeWorkers: the reconnect is given up before a worker can ask for one.
HandOff(p) == /\ pc[p] = "handOff"
              /\ isReconnecting' = (isReconnecting /\ p = Starter)
              /\ Goto(p, "start")
              /\ UNCHANGED <<worker, mutex, isClosing, isStop, isStart, cancelled, net, buf>>

Start(p) == /\ pc[p] = "start"
            /\ isStart' = TRUE
            /\ Goto(p, "unlock")
            /\ UNCHANGED <<worker, mutex, isClosing, isReconnecting, isStop, cancelled,
                           net, buf>>

ReturnTwice(p) == isReconnecting' = (isReconnecting /\ p = Starter)

\* The owner that handed off returns without touching isReconnecting.
ReturnOnce(p) == UNCHANGED isReconnecting

Unlock(p) == /\ pc[p] = "unlock"
             /\ Release(p)
             /\ ReturnOnce(p)
             /\ Goto(p, IF p = Starter THEN "up" ELSE "idle")
             /\ UNCHANGED <<worker, isClosing, isStop, isStart, cancelled, net, buf>>

Fail(p) == /\ pc[p] = "fail"
           /\ Release(p)
           /\ first' = "none"
           /\ Goto(p, IF p = Starter THEN "abort" ELSE "again")
           /\ UNCHANGED <<worker, flags, conn, sock, dialed, opened, broken, buf>>

\* NewClient gives up: ab.Close and closeCancel.
Abort == /\ pc[Starter] = "abort"
         /\ sealed' = TRUE
         /\ cancelled' = TRUE
         /\ Goto(Starter, "gone")
         /\ UNCHANGED <<worker, mutex, isClosing, isReconnecting, isStop, isStart, net,
                        unsent, inFlight, backoff>>

\* The loop of the reconnect goroutine after a failed attempt.
Again(g) == /\ pc[g] = "again"
            /\ IF isClosing
               THEN Goto(g, "idle") /\ isReconnecting' = FALSE
               ELSE Goto(g, "sleep") /\ UNCHANGED isReconnecting
            /\ UNCHANGED <<worker, mutex, isClosing, isStop, isStart, cancelled, net, buf>>

SleepEnds(g) == /\ pc[g] = "sleep"
                /\ Goto(g, "lock")
                /\ UNCHANGED <<worker, mutex, flags, net, buf>>

SleepCancelled(g) == /\ pc[g] = "sleep"
                     /\ cancelled
                     /\ isReconnecting' = FALSE
                     /\ Goto(g, "idle")
                     /\ UNCHANGED <<worker, mutex, isClosing, isStop, isStart, cancelled,
                                    net, buf>>

-----------------------------------------------------------------------------
(* disconnect, run by the reconnect goroutines and by Close.                *)

\* isStop is set before connMutex is asked for.
Signal(q) == /\ pc[q] = "signal"
             /\ isStop' = TRUE
             /\ Goto(q, "dlock")
             /\ UNCHANGED <<worker, mutex, isClosing, isReconnecting, isStart, cancelled,
                            net, buf>>

DisconnectLock(q) == /\ pc[q] = "dlock"
                     /\ Acquire(q)
                     /\ Goto(q, "hangUp")
                     /\ UNCHANGED <<worker, flags, net, buf>>

HangUp(q) == /\ pc[q] = "hangUp"
             /\ Shut(conn)
             /\ Goto(q, "join")
             /\ UNCHANGED <<worker, mutex, flags, conn, sock, first, dialed, buf>>

JoinedNoWait == TRUE

\* wg.Wait
Joined == \A w \in Workers : worker[w] = "none"

Join(q) == /\ pc[q] = "join"
           /\ Joined
           /\ conn' = 0
           /\ Release(q)
           /\ Goto(q, IF q = Closer THEN "collect" ELSE "prepare")
           /\ UNCHANGED <<worker, flags, sock, first, dialed, opened, broken, buf>>

PrepareWindowOnly(g) == /\ pc[g] = "prepare"
                        /\ Goto(g, "lock")
                        /\ UNCHANGED <<worker, mutex, flags, net, buf>>

\* UpdateCapacity(1) and ResetDelivery: what was sent will be sent again.
Prepare(g) == /\ pc[g] = "prepare"
              /\ unsent' = (unsent \/ inFlight)
              /\ inFlight' = FALSE
              /\ Goto(g, "lock")
              /\ UNCHANGED <<worker, mutex, flags, net, sealed, backoff>>

-----------------------------------------------------------------------------
(* Close, and the other calls of the user of a started client.              *)

\* NewClient has returned the client; "asking" is a user amid Reconnect.
Up == pc[Starter] \in {"up", "asking"}

Close == /\ Up /\ pc[Closer] = "idle"
         /\ isClosing' = TRUE
         /\ Goto(Closer, "cancel")
         /\ UNCHANGED <<worker, mutex, isReconnecting, isStop, isStart, cancelled, net, buf>>

Cancel == /\ pc[Closer] = "cancel"
          /\ cancelled' = TRUE
          /\ Goto(Closer, "seal")
          /\ UNCHANGED <<worker, mutex, isClosing, isReconnecting, isStop, isStart, net, buf>>

SealBuffer == /\ pc[Closer] = "seal"
              /\ sealed' = TRUE
              /\ Goto(Closer, "signal")
              /\ UNCHANGED <<worker, mutex, flags, net, unsent, inFlight, backoff>>

\* GetUnAcked, releaseReceiptTracking, and Close returns.
Collect == /\ pc[Closer] = "collect"
           /\ Goto(Closer, "closed")
           /\ UNCHANGED <<worker, mutex, flags, net, buf>>

Ship == /\ Up /\ "Ship" \in Calls
        /\ ~sealed
        /\ unsent' = TRUE
        /\ UNCHANGED <<pc, worker, mutex, flags, net, sealed, inFlight, backoff>>

UserReconnect == /\ pc[Starter] = "up" /\ "Reconnect" \in Calls
                 /\ ~isClosing
                 /\ Goto(Starter, "asking")
                 /\ UNCHANGED <<worker, mutex, flags, net, buf>>

UserSwap == /\ pc[Starter] = "asking"
            /\ SwapReconnecting([pc EXCEPT ![Starter] = "up"])
            /\ UNCHANGED <<worker, mutex, isClosing, isStop, isStart, cancelled, net, buf>>

-----------------------------------------------------------------------------
(* The workers.  "head" is the test of isStop at the top of their loops.    *)

Turn(w, label) == worker' = [worker EXCEPT ![w] = label]

AwakeEarly(w) == /\ worker[w] = "wait"
                 /\ Turn(w, "head")
                 /\ UNCHANGED <<pc, mutex, flags, net, buf>>

\* isStart.Wait: a worker runs only after the hand-off.
Awake(w) == /\ worker[w] = "wait"
            /\ isStart
            /\ Turn(w, "head")
            /\ UNCHANGED <<pc, mutex, flags, net, buf>>

Head(w) == /\ worker[w] = "head"
           /\ Turn(w, IF isStop THEN "none" ELSE IF w = "sender" THEN "throttle" ELSE "io")
           /\ UNCHANGED <<pc, mutex, flags, net, buf>>

\* listener: a message arrives and, unless it is RECONNECT, is processed.
Receive(verb) ==
  /\ worker["listener"] = "io"
  /\ Usable(conn)
  /\ Turn("listener", IF verb = "RECONNECT" THEN "asked" ELSE "head")
  /\ inFlight' \in IF verb = "ACK" THEN {FALSE, inFlight} ELSE {inFlight}
  /\ backoff' \in IF verb = "BACKOFF" THEN BOOLEAN ELSE {backoff}
  /\ UNCHANGED <<pc, mutex, flags, net, sealed, unsent>>

\* A read, a write or a ping on a connection that has ended.
IOFails(w) == /\ worker[w] = "io"
              /\ ~Usable(conn)
              /\ w = "sender" => unsent
              /\ unsent' = (unsent /\ w # "sender")
              /\ inFlight' = (inFlight \/ w = "sender")
              /\ Turn(w, "failed")
              /\ UNCHANGED <<pc, mutex, flags, net, sealed, backoff>>

\* sender: the frame GetNextToDeliver gives is written; on a connection that the
\* peer has ended, the write may succeed too.
Send == /\ worker["sender"] = "io"
        /\ unsent
        /\ conn \in opened
        /\ unsent' = FALSE
        /\ inFlight' = TRUE
        /\ Turn("sender", "head")
        /\ UNCHANGED <<pc, mutex, flags, net, sealed, backoff>>

\* The frame cannot be encoded: the sender goes on to the next one.
EncodeFails == /\ worker["sender"] = "io"
               /\ unsent
               /\ unsent' = FALSE
               /\ inFlight' = TRUE
               /\ Turn("sender", "head")
               /\ UNCHANGED <<pc, mutex, flags, net, sealed, backoff>>

NothingToSend == /\ worker["sender"] = "io"
                 /\ ~unsent
                 /\ Turn("sender", "head")
                 /\ UNCHANGED <<pc, mutex, flags, net, buf>>

\* keepAliveSender: the ping is written.
Ping == /\ worker["keepAlive"] = "io"
        /\ conn \in opened
        /\ Turn("keepAlive", "head")
        /\ UNCHANGED <<pc, mutex, flags, net, buf>>

\* sender: take the peer's throttle, or go on to the buffer.
Throttle == /\ worker["sender"] = "throttle"
            /\ Turn("sender", IF backoff THEN "backoff" ELSE "io")
            /\ backoff' = FALSE
            /\ UNCHANGED <<pc, mutex, flags, net, sealed, unsent, inFlight>>

BackoffEnds == /\ worker["sender"] = "backoff"
               /\ Turn("sender", "throttle")
               /\ UNCHANGED <<pc, mutex, flags, net, buf>>

BackoffDeaf == /\ worker["sender"] = "backoff"
               /\ isStop /\ ~cancelled
               /\ Turn("sender", "none")
               /\ UNCHANGED <<pc, mutex, flags, net, buf>>

BackoffCancelled == /\ worker["sender"] = "backoff"
                    /\ cancelled
                    /\ Turn("sender", "none")
                    /\ UNCHANGED <<pc, mutex, flags, net, buf>>

\* Reconnect by a worker: first the test of isClosing, then the swap.  After a
\* failure ("failed", "swap") the worker exits; after a RECONNECT message ("asked",
\* "askSwap") the listener goes on.
Failed(w) == /\ worker[w] \in {"failed", "asked"}
             /\ Turn(w, CASE ~isClosing -> IF worker[w] = "failed" THEN "swap" ELSE "askSwap"
                          [] isClosing  -> IF worker[w] = "failed" THEN "none" ELSE "head")
             /\ UNCHANGED <<pc, mutex, flags, net, buf>>

Swap(w) == /\ worker[w] \in {"swap", "askSwap"}
           /\ SwapReconnecting(pc)
           /\ Turn(w, IF worker[w] = "swap" THEN "none" ELSE "head")
           /\ UNCHANGED <<mutex, isClosing, isStop, isStart, cancelled, net, buf>>

\* The peer or the network ends a connection.
Break(s) == /\ Usable(s)
            /\ broken' = broken \cup {s}
            /\ UNCHANGED <<pc, worker, mutex, flags, conn, sock, first, dialed, opened, buf>>

-----------------------------------------------------------------------------
ConnectStep(p) == \/ Lock(p) \/ Begin(p) \/ Dial(p) \/ DialFails(p)
                  \/ WriteHeader(p) \/ HeaderFails(p)
                  \/ ReadFirst(p) \/ ReadFails(p) \/ CloseOnCancel(p) \/ StopAfter(p)
                  \/ Process(p) \/ Ask(p) \/ Reject(p) \/ Check(p) \/ Publish(p) \/ HandOff(p) \/ Start(p)
                  \/ Unlock(p) \/ Fail(p)
DisconnectStep(q) == Signal(q) \/ DisconnectLock(q) \/ HangUp(q) \/ Join(q)
ReconnectStep(g) == \/ DisconnectStep(g) \/ Prepare(g) \/ ConnectStep(g)
                    \/ Again(g) \/ SleepEnds(g) \/ SleepCancelled(g)
StartStep == ConnectStep(Starter) \/ Abort
CloseStep == Cancel \/ SealBuffer \/ DisconnectStep(Closer) \/ Collect
WorkerStep(w) == Awake(w) \/ Head(w) \/ IOFails(w) \/ Failed(w) \/ Swap(w)
SenderStep == \/ WorkerStep("sender") \/ Throttle \/ BackoffCancelled
              \/ Send \/ EncodeFails \/ NothingToSend
KeepAliveStep == WorkerStep("keepAlive") \/ Ping
UserStep == Close \/ Ship \/ UserReconnect \/ UserSwap
PeerStep == (\E verb \in Verbs : Receive(verb)) \/ (\E s \in opened : Break(s))

Next == \/ StartStep \/ CloseStep \/ UserStep \/ PeerStep
        \/ \E g \in Goroutines : ReconnectStep(g)
        \/ WorkerStep("listener") \/ SenderStep \/ BackoffEnds \/ KeepAliveStep

Spec == Init /\ [][Next]_vars

\* Every goroutine goes on running: a dial and the first read end one way or the
\* other, by their deadlines if by nothing else.  Nothing is asked of the peer, of
\* the user or of the length of a throttle, nor that connMutex is handed over
\* fairly.
Fairness == /\ \A g \in Goroutines : WF_vars(ReconnectStep(g))
            /\ WF_vars(StartStep) /\ WF_vars(CloseStep)
            /\ WF_vars(WorkerStep("listener")) /\ WF_vars(SenderStep)
            /\ WF_vars(KeepAliveStep)

FairSpec == Spec /\ Fairness

-----------------------------------------------------------------------------
(* Properties.                                                              *)

Labels == {"idle", "lock", "begin", "dial", "header", "read", "stopAfter", "process",
           "ask", "reject", "check", "publish", "handOff", "start", "unlock", "fail",
           "up", "asking", "abort", "gone",
           "again", "sleep", "signal", "dlock", "hangUp", "join", "prepare",
           "cancel", "seal", "collect", "closed"}
WorkerLabels == {"none", "wait", "head", "io", "throttle", "backoff", "failed", "swap",
                 "asked", "askSwap"}

\* Every variable has its type.
TypeOK == /\ pc \in [Processes -> Labels]
          /\ worker \in [Workers -> WorkerLabels]
          /\ mutex \in Processes \cup {NoOne}
          /\ {isClosing, isReconnecting, isStop, isStart, cancelled} \subseteq BOOLEAN
          /\ {sealed, unsent, inFlight, backoff} \subseteq BOOLEAN
          /\ conn \in 0 .. dialed /\ sock \in 0 .. dialed /\ dialed \in 0 .. MaxConns
          /\ first \in Verbs \cup {"none"}
          /\ opened \subseteq 1 .. dialed /\ broken \subseteq opened

\* A goroutine that owns the reconnect: from the swap in Reconnect to its
\* hand-off in connectBeforeWorkers, or to its return.
Owns(g) == pc[g] \notin {"idle", "start", "unlock"}

\* Reconnect's "only one thread is reconnecting": one goroutine at most is between
\* its swap and its hand-off, and isReconnecting says whether there is one, also
\* while the previous owner is still returning from connect.
SingleReconnect == /\ \A g, h \in Goroutines : Owns(g) /\ Owns(h) => g = h
                   /\ isReconnecting <=> \E g \in Goroutines : Owns(g)

\* "Only one thread is reconnecting": a worker that finds isReconnecting set drops its
\* request.  The owner it leaves the request to is still to end the connection that the worker
\* failed on or was told to leave, and is not already handing over the next one.
RequestIsServed ==
  (isReconnecting /\ \E w \in Workers : worker[w] \in {"swap", "askSwap"})
    => \E g \in Goroutines : pc[g] \in {"signal", "dlock", "hangUp", "join"}

\* A worker that failed is never forgotten: when a worker of an open client has
\* exited, a reconnect is under way (the comment on beforeWorkers).
NoForgottenFailure ==
  (Up /\ ~isClosing /\ conn # 0 /\ \E w \in Workers : worker[w] = "none")
    => \E g \in Goroutines : Owns(g)

\* c.conn, which the workers read without connMutex, is the socket they were
\* started for as long as one of them lives, and never nil.
WorkersHaveConn == (\E w \in Workers : worker[w] # "none") => conn # 0 /\ conn = sock

\* "Nobody else owns this socket": every socket not closed is c.conn or is in the
\* hands of the connect that holds connMutex.
NoSocketLeak ==
  opened \subseteq {conn} \cup (IF mutex \in Connectors /\ pc[mutex] # "fail" THEN {sock} ELSE {})

\* Before the workers of a connection start, what earlier connections were given
\* and did not confirm is to be sent again: ResetDelivery runs after the old
\* workers have exited and before the new ones start.
ResetBeforeStart ==
  \A g \in Goroutines :
    pc[g] \in {"lock", "begin", "dial", "header", "read", "stopAfter", "process", "ask",
              "reject", "check", "publish", "handOff", "start", "fail", "again", "sleep"} => ~inFlight

\* When Close has returned, the client is at rest for good: no worker, no open
\* socket, and no goroutine that can start one.
ClosedIsQuiet ==
  pc[Closer] \in {"collect", "closed"} =>
    /\ opened = {} /\ conn = 0
    /\ \A w \in Workers : worker[w] = "none"
    /\ \A g \in Goroutines : pc[g] \notin {"publish", "handOff", "start"}

\* Close was called, and isStop was cleared after Close had set it.
StopCleared == pc[Closer] \in {"dlock", "hangUp", "join"} /\ ~isStop

\* Close returns, whatever the peer does and however long its throttle is, unless
\* a connect that tested isClosing before Close was called clears isStop after
\* Close has set it.
CloseReturnsUnlessCleared == isClosing ~> (pc[Closer] = "closed" \/ StopCleared)

\* An open client whose connection has ended dials again (or has already done so
\* and gets the new connection), once the throttle that its sender may be waiting
\* out ends: "an immediate failure" is not forgotten, and a failed attempt is
\* followed by another.
Recovers == WF_vars(BackoffEnds) =>
  ((Up /\ ~Usable(conn))
     ~> (isClosing \/ Usable(conn) \/ \E g \in Goroutines : pc[g] = "dial"))

\* Close returns.  The recheck of isClosing in connectBeforeWorkers is there so
\* that clearing isStop does not "keep disconnect() waiting on them forever".
CloseReturns == isClosing ~> pc[Closer] = "closed"
=============================================================================
