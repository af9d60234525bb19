----------------------------- MODULE BusTransport -----------------------------
(***************************************************************************)
(* The bus transport (src/src/habitron_client/_transport.py): concurrent   *)
(* tasks call BusConnection, an asyncio.Lock serialises them, and every    *)
(* attempt of a command runs on a socket of its own that is closed         *)
(* whatever happens.  The hub (external) accepts one connection at a time, *)
(* executes the commands it reads, and may answer late, badly or never.    *)
(*                                                                         *)
(* A call is one invocation of request / request_crc, of send_only, or of  *)
(* the connect probe.  Bytes are abstracted to commands and replies, and a *)
(* reply to the class of input _exchange tells apart.  Time is abstracted: *)
(* a deadline may pass at any moment while it is armed.  Cancellation of   *)
(* the calling task may strike at every await.                             *)
(***************************************************************************)
EXTENDS Naturals, Sequences, SequencesExt

CONSTANTS
    Requests,     \* calls of request and request_crc
    OneWays,      \* calls of send_only
    Probes,       \* calls of connect
    MaxAttempts,  \* the constructor's max_attempts
    Socket,       \* identities of sockets; one is spent per attempt
    NoCall, NoSocket, NoCommand

Calls == Requests \cup OneWays \cup Probes

ASSUME CallsAssumption ==
    /\ Requests \cap OneWays = {}
    /\ Requests \cap Probes = {}
    /\ OneWays \cap Probes = {}
    /\ NoCall \notin Calls
    /\ NoSocket \notin Socket

\* BusConnection.__init__ raises ValueError for anything smaller.
ASSUME AttemptsAssumption == MaxAttempts \in Nat \ {0}

\* The frame one attempt of a call writes.
Command == [call : Calls, attempt : 1..MaxAttempts]

ASSUME NoCommandAssumption == NoCommand \notin Command

(***************************************************************************)
(* What a reply looks like to _exchange: a well-formed frame; fewer than   *)
(* HEADER_SIZE bytes and EOF ("short"); a wrong marker, an inconsistent    *)
(* length or a CRC mismatch ("bad"); a header whose body is cut by EOF     *)
(* ("cut").                                                                *)
(***************************************************************************)
ReplyKind == {"frame", "short", "bad", "cut"}
Reply == [cmd : Command, kind : ReplyKind]

Results == {"none", "retry",
            "answer", "ack", "returned",
            "timeout", "protocol", "connection", "cancelled"}

VARIABLES
    pc,       \* where each calling task is suspended
    lock,     \* the task that holds BusConnection._lock
    waiters,  \* the lock's FIFO queue
    attempt,  \* `attempt` of _round_trip, from 1; 0 before the lock is held
    sock,     \* the socket behind the task's `writer`
    result,   \* what the task is about to return or raise
    got,      \* the command whose reply the task returns
    client,   \* the client's end of every socket
    hub,      \* the hub's end of every socket
    toHub,    \* commands written and not yet read by the hub
    toClient, \* replies written and not yet read by the client
    backlog,  \* connections the hub has not accepted yet
    log       \* commands in the order the hub executed them

callVars == <<pc, lock, waiters, attempt, sock, result, got>>
connVars == <<client, hub, toHub, toClient>>
hubVars  == <<hub, toHub, backlog, log>>
vars == <<pc, lock, waiters, attempt, sock, result, got,
          client, hub, toHub, toClient, backlog, log>>

TypeOK ==
    /\ pc \in [Calls -> {"idle", "waiting", "opening", "reading", "closing", "done"}]
    /\ lock \in Calls \cup {NoCall}
    /\ waiters \in Seq(Calls)
    /\ attempt \in [Calls -> 0..MaxAttempts]
    /\ sock \in [Calls -> Socket \cup {NoSocket}]
    /\ result \in [Calls -> Results]
    /\ got \in [Calls -> Command \cup {NoCommand}]
    /\ client \in [Socket -> {"unused", "open", "closing", "closed"}]
    /\ hub \in [Socket -> {"none", "queued", "serving", "closed"}]
    /\ toHub \in [Socket -> Seq(Command)]
    /\ toClient \in [Socket -> Seq(Reply)]
    /\ backlog \in Seq(Socket)
    /\ log \in Seq(Command)

Init ==
    /\ pc = [c \in Calls |-> "idle"]
    /\ lock = NoCall
    /\ waiters = <<>>
    /\ attempt = [c \in Calls |-> 0]
    /\ sock = [c \in Calls |-> NoSocket]
    /\ result = [c \in Calls |-> "none"]
    /\ got = [c \in Calls |-> NoCommand]
    /\ client = [k \in Socket |-> "unused"]
    /\ hub = [k \in Socket |-> "none"]
    /\ toHub = [k \in Socket |-> <<>>]
    /\ toClient = [k \in Socket |-> <<>>]
    /\ backlog = <<>>
    /\ log = <<>>

-------------------------------------------------------------------------------
(***************************************************************************)
(* The lock.  asyncio.Lock wakes its waiters in arrival order, and its     *)
(* fast path is closed while anybody waits.                                *)
(***************************************************************************)
Call(c) ==
    /\ pc[c] = "idle"
    /\ pc' = [pc EXCEPT ![c] = "waiting"]
    /\ waiters' = Append(waiters, c)
    /\ UNCHANGED <<lock, attempt, sock, result, got, connVars, backlog, log>>

Acquire(c) ==
    /\ lock = NoCall
    /\ waiters # <<>>
    /\ c = Head(waiters)
    /\ waiters' = Tail(waiters)
    /\ lock' = c
    /\ pc' = [pc EXCEPT ![c] = "opening"]
    /\ attempt' = [attempt EXCEPT ![c] = 1]
    /\ UNCHANGED <<sock, result, got, connVars, backlog, log>>

\* Leaving `async with self._lock` with r, on whatever path.
Leave(c, r) ==
    /\ pc' = [pc EXCEPT ![c] = "done"]
    /\ sock' = [sock EXCEPT ![c] = NoSocket]
    /\ result' = [result EXCEPT ![c] = r]
    /\ lock' = NoCall

-------------------------------------------------------------------------------
(***************************************************************************)
(* Opening a socket.                                                       *)
(***************************************************************************)
\* Fault: the persistent connection of the earlier design is opened again.
FaultReusedSocket ==
    IF \E k \in Socket : client[k] \notin {"unused", "open"}
    THEN CHOOSE k \in Socket : client[k] \notin {"unused", "open"}
    ELSE CHOOSE k \in Socket : client[k] = "unused"

FreshSocket == CHOOSE k \in Socket : client[k] = "unused"

Opened(c) ==
    /\ pc[c] = "opening"
    /\ \E k \in Socket : client[k] = "unused"

\* A connection on a fresh socket with these commands on their way.
Connect(end, cmds) ==
    /\ client' = [client EXCEPT ![FreshSocket] = end]
    /\ hub' = [hub EXCEPT ![FreshSocket] = "queued"]
    /\ toHub' = [toHub EXCEPT ![FreshSocket] = @ \o cmds]
    /\ backlog' = Append(backlog, FreshSocket)
    /\ UNCHANGED toClient

\* Fault: the frame is written twice.
FaultWrittenTwice(c) ==
    /\ c \in Requests
    /\ Opened(c)
    /\ sock' = [sock EXCEPT ![c] = FreshSocket]
    /\ LET cmd == [call |-> c, attempt |-> attempt[c]] IN Connect("open", <<cmd, cmd>>)
    /\ pc' = [pc EXCEPT ![c] = "reading"]
    /\ UNCHANGED <<lock, waiters, attempt, result, got, log>>

\* open_connection succeeded.  There is no await between it and
\* writer.write(frame), so a command is on its way in the same step.
ConnectedRequest(c) ==
    /\ c \in Requests
    /\ Opened(c)
    /\ sock' = [sock EXCEPT ![c] = FreshSocket]
    /\ Connect("open", <<[call |-> c, attempt |-> attempt[c]]>>)
    /\ pc' = [pc EXCEPT ![c] = "reading"]
    /\ UNCHANGED <<lock, waiters, attempt, result, got, log>>

\* send_only: write, drain, and on to the finally clause.  A failing drain is
\* swallowed and ends in the same state.
ConnectedOneWay(c) ==
    /\ c \in OneWays
    /\ Opened(c)
    /\ sock' = [sock EXCEPT ![c] = FreshSocket]
    /\ Connect("closing", <<[call |-> c, attempt |-> attempt[c]]>>)
    /\ pc' = [pc EXCEPT ![c] = "closing"]
    /\ result' = [result EXCEPT ![c] = "returned"]
    /\ UNCHANGED <<lock, waiters, attempt, got, log>>

\* connect: nothing is written.
ConnectedProbe(c) ==
    /\ c \in Probes
    /\ Opened(c)
    /\ sock' = [sock EXCEPT ![c] = FreshSocket]
    /\ Connect("closing", <<>>)
    /\ pc' = [pc EXCEPT ![c] = "closing"]
    /\ result' = [result EXCEPT ![c] = "returned"]
    /\ UNCHANGED <<lock, waiters, attempt, got, log>>

\* _open raises HabitronConnectionError: connection refused, or the connect
\* deadline passed.  That is no OSError, so _round_trip and connect let it
\* through at once; send_only swallows it.
OpenFails(c) ==
    /\ pc[c] = "opening"
    /\ Leave(c, IF c \in OneWays THEN "returned" ELSE "connection")
    /\ UNCHANGED <<waiters, attempt, got, connVars, backlog, log>>

-------------------------------------------------------------------------------
(***************************************************************************)
(* _exchange.  Every way out of it reaches `finally: await self._close`:   *)
(* writer.close() at once, then the wait for the transport to be gone.     *)
(***************************************************************************)
CloseWith(c, r) ==
    /\ pc' = [pc EXCEPT ![c] = "closing"]
    /\ result' = [result EXCEPT ![c] = r]

\* Unread bytes die with the socket.
Close(k) ==
    /\ client' = [client EXCEPT ![k] = "closing"]
    /\ toClient' = [toClient EXCEPT ![k] = <<>>]

ResultOf(kind) ==
    CASE kind = "frame" -> "answer"
      [] kind = "short" -> "ack"        \* the sentinel b"OK"
      [] kind = "bad"   -> "protocol"   \* HabitronProtocolError, not retried
      [] kind = "cut"   -> "retry"      \* IncompleteReadError in the body

ReadReply(c) ==
    /\ pc[c] = "reading"
    /\ toClient[sock[c]] # <<>>
    /\ LET reply == Head(toClient[sock[c]])
       IN  /\ CloseWith(c, ResultOf(reply.kind))
           /\ got' = [got EXCEPT ![c] = reply.cmd]
    /\ Close(sock[c])
    /\ UNCHANGED <<lock, waiters, attempt, sock, hubVars>>

\* The hub closed without a byte: IncompleteReadError with an empty partial.
ReadEof(c) ==
    /\ pc[c] = "reading"
    /\ toClient[sock[c]] = <<>>
    /\ hub[sock[c]] = "closed"
    /\ CloseWith(c, "retry")
    /\ Close(sock[c])
    /\ UNCHANGED <<lock, waiters, attempt, sock, got, hubVars>>

\* An OSError out of drain or read, whatever became of the hub's end.
ConnectionLost(c) ==
    /\ pc[c] = "reading"
    /\ CloseWith(c, "retry")
    /\ Close(sock[c])
    /\ UNCHANGED <<lock, waiters, attempt, sock, got, hubVars>>

\* Fault: only the first attempt runs under a deadline.
FaultDeadlineOnce(c) ==
    /\ pc[c] = "reading"
    /\ attempt[c] = 1
    /\ CloseWith(c, "timeout")
    /\ Close(sock[c])
    /\ UNCHANGED <<lock, waiters, attempt, sock, got, hubVars>>

\* Fault: silence is taken for the payload-less acknowledgement.
FaultSilenceIsAck(c) ==
    /\ pc[c] = "reading"
    /\ CloseWith(c, "ack")
    /\ Close(sock[c])
    /\ UNCHANGED <<lock, waiters, attempt, sock, got, hubVars>>

\* asyncio.timeout(timeout) expires: HabitronTimeoutError, never retried.
TimedOut(c) ==
    /\ pc[c] = "reading"
    /\ CloseWith(c, "timeout")
    /\ Close(sock[c])
    /\ UNCHANGED <<lock, waiters, attempt, sock, got, hubVars>>

\* Fault: one attempt too many.
FaultOffByOne(c) ==
    /\ pc[c] = "closing"
    /\ result[c] = "retry"
    /\ attempt[c] <= MaxAttempts
    /\ client' = [client EXCEPT ![sock[c]] = "closed"]
    /\ attempt' = [attempt EXCEPT ![c] = @ + 1]
    /\ pc' = [pc EXCEPT ![c] = "opening"]
    /\ sock' = [sock EXCEPT ![c] = NoSocket]
    /\ result' = [result EXCEPT ![c] = "none"]
    /\ UNCHANGED <<lock, waiters, got, toClient, hubVars>>

\* Fault: the lock is taken per attempt.
FaultLockPerAttempt(c) ==
    /\ pc[c] = "closing"
    /\ result[c] = "retry"
    /\ attempt[c] < MaxAttempts
    /\ client' = [client EXCEPT ![sock[c]] = "closed"]
    /\ pc' = [pc EXCEPT ![c] = "waiting"]
    /\ waiters' = Append(waiters, c)
    /\ lock' = NoCall
    /\ sock' = [sock EXCEPT ![c] = NoSocket]
    /\ result' = [result EXCEPT ![c] = "none"]
    /\ UNCHANGED <<attempt, got, toClient, hubVars>>

\* wait_closed came back; the loop goes on after a lost connection.
ClosedRetry(c) ==
    /\ pc[c] = "closing"
    /\ result[c] = "retry"
    /\ attempt[c] < MaxAttempts
    /\ client' = [client EXCEPT ![sock[c]] = "closed"]
    /\ attempt' = [attempt EXCEPT ![c] = @ + 1]
    /\ pc' = [pc EXCEPT ![c] = "opening"]
    /\ sock' = [sock EXCEPT ![c] = NoSocket]
    /\ result' = [result EXCEPT ![c] = "none"]
    /\ UNCHANGED <<lock, waiters, got, toClient, hubVars>>

ClosedFinal(c) ==
    /\ pc[c] = "closing"
    /\ result[c] = "retry" => attempt[c] = MaxAttempts
    /\ client' = [client EXCEPT ![sock[c]] = "closed"]
    /\ Leave(c, IF result[c] = "retry" THEN "connection" ELSE result[c])
    /\ UNCHANGED <<waiters, attempt, got, toClient, hubVars>>

-------------------------------------------------------------------------------
(***************************************************************************)
(* Cancellation of the calling task.                                       *)
(***************************************************************************)
CancelWaiting(c) ==
    /\ pc[c] = "waiting"
    /\ \E i \in DOMAIN waiters : /\ waiters[i] = c
                                /\ waiters' = RemoveAt(waiters, i)
    /\ pc' = [pc EXCEPT ![c] = "done"]
    /\ result' = [result EXCEPT ![c] = "cancelled"]
    /\ UNCHANGED <<lock, attempt, sock, got, connVars, backlog, log>>

\* There is no writer yet.
CancelOpening(c) ==
    /\ pc[c] = "opening"
    /\ Leave(c, "cancelled")
    /\ UNCHANGED <<waiters, attempt, got, connVars, backlog, log>>

\* Fault: the socket is closed on errors but not on CancelledError.
FaultCancelLeaks(c) ==
    /\ pc[c] = "reading"
    /\ Leave(c, "cancelled")
    /\ UNCHANGED <<waiters, attempt, got, connVars, backlog, log>>

CancelReading(c) ==
    /\ pc[c] = "reading"
    /\ CloseWith(c, "cancelled")
    /\ Close(sock[c])
    /\ UNCHANGED <<lock, waiters, attempt, sock, got, hubVars>>

\* Fault: the lock is released by hand behind the wait, not by a context.
FaultCancelKeepsLock(c) ==
    /\ pc[c] = "closing"
    /\ pc' = [pc EXCEPT ![c] = "done"]
    /\ sock' = [sock EXCEPT ![c] = NoSocket]
    /\ result' = [result EXCEPT ![c] = "cancelled"]
    /\ UNCHANGED <<lock, waiters, attempt, got, connVars, backlog, log>>

\* Struck in wait_closed: the lock is released while the transport is still
\* going away, and whatever had been received is lost.
CancelClosing(c) ==
    /\ pc[c] = "closing"
    /\ Leave(c, "cancelled")
    /\ UNCHANGED <<waiters, attempt, got, connVars, backlog, log>>

\* The event loop finishes closing a transport nobody waits for any more.
TransportGone(k) ==
    /\ client[k] = "closing"
    /\ \A c \in Calls : ~(pc[c] = "closing" /\ sock[c] = k)
    /\ client' = [client EXCEPT ![k] = "closed"]
    /\ UNCHANGED <<callVars, toClient, hubVars>>

-------------------------------------------------------------------------------
(***************************************************************************)
(* The hub (external).                                                     *)
(***************************************************************************)
Busy == \E k \in Socket : hub[k] = "serving"

HubAccept ==
    /\ ~Busy
    /\ backlog # <<>>
    /\ hub' = [hub EXCEPT ![Head(backlog)] = "serving"]
    /\ backlog' = Tail(backlog)
    /\ UNCHANGED <<callVars, client, toHub, toClient, log>>

\* The hub reads and executes the next command.  It may answer, in which case
\* bytes for a closed socket are lost, or stay silent, or drop the connection;
\* it closes after a short or a cut answer.
HubServe(k) ==
    /\ hub[k] = "serving"
    /\ toHub[k] # <<>>
    /\ toHub' = [toHub EXCEPT ![k] = Tail(@)]
    /\ log' = Append(log, Head(toHub[k]))
    /\ \E kind \in ReplyKind \cup {"silence", "drop"} :
         /\ toClient' = IF kind \in ReplyKind /\ client[k] = "open"
                        THEN [toClient EXCEPT ![k] =
                                Append(@, [cmd |-> Head(toHub[k]), kind |-> kind])]
                        ELSE toClient
         /\ hub' = IF kind \in {"short", "cut", "drop"}
                   THEN [hub EXCEPT ![k] = "closed"] ELSE hub
    /\ UNCHANGED <<callVars, client, backlog>>

\* It sees the client's FIN behind everything the client had written.
HubSeesClose(k) ==
    /\ hub[k] = "serving"
    /\ client[k] \in {"closing", "closed"}
    /\ toHub[k] = <<>>
    /\ hub' = [hub EXCEPT ![k] = "closed"]
    /\ UNCHANGED <<callVars, client, toHub, toClient, backlog, log>>

\* Crash: connections and everything unread are gone.
HubReboot ==
    /\ \E k \in Socket : hub[k] \in {"queued", "serving"}
    /\ hub' = [k \in Socket |-> IF hub[k] = "none" THEN "none" ELSE "closed"]
    /\ toHub' = [k \in Socket |-> <<>>]
    /\ backlog' = <<>>
    /\ UNCHANGED <<callVars, client, toClient, log>>

-------------------------------------------------------------------------------
Connected(c) == ConnectedRequest(c) \/ ConnectedOneWay(c) \/ ConnectedProbe(c)
Cancel(c) == CancelWaiting(c) \/ CancelOpening(c) \/ CancelReading(c) \/ CancelClosing(c)

ClientStep(c) ==
    \/ Call(c) \/ Acquire(c)
    \/ ConnectedRequest(c) \/ ConnectedOneWay(c) \/ ConnectedProbe(c) \/ OpenFails(c)
    \/ ReadReply(c) \/ ReadEof(c) \/ ConnectionLost(c) \/ TimedOut(c)
    \/ ClosedRetry(c) \/ ClosedFinal(c)
    \/ CancelWaiting(c) \/ CancelOpening(c) \/ CancelReading(c) \/ CancelClosing(c)

HubStep == HubAccept \/ HubReboot \/ \E k \in Socket : HubServe(k) \/ HubSeesClose(k)

Next ==
    \/ \E c \in Calls : ClientStep(c)
    \/ \E k \in Socket : TransportGone(k)
    \/ HubStep

Spec == Init /\ [][Next]_vars

(***************************************************************************)
(* The event loop runs every task that can go on; both deadlines expire;   *)
(* a closed transport goes away (an OSError in wait_closed is suppressed). *)
(* Nothing is assumed of the hub, and nobody is obliged to cancel.         *)
(***************************************************************************)
Fairness ==
    /\ \A c \in Calls : /\ WF_vars(Acquire(c))
                        /\ WF_vars(Connected(c) \/ OpenFails(c))
                        /\ WF_vars(TimedOut(c))
                        /\ WF_vars(ClosedRetry(c) \/ ClosedFinal(c))
    /\ \A k \in Socket : WF_vars(TransportGone(k))

FairSpec == Spec /\ Fairness
-------------------------------------------------------------------------------
(***************************************************************************)
(* Properties.                                                             *)
(***************************************************************************)
\* The lock is held by exactly the task that is between acquiring and leaving
\* it, on every path out of send_only and _round_trip, cancellation included:
\* two tasks never drive the bus at once and no exit forgets the lock.
LockDiscipline ==
    \A c \in Calls : pc[c] \in {"opening", "reading", "closing"} <=> lock = c

\* An open client socket is the one the lock holder is reading from, so there
\* is never a second one and no error or cancellation path leaks one
\* (the `finally` clauses of _round_trip and send_only).
SocketDiscipline ==
    \A k \in Socket : client[k] = "open" =>
        \E c \in Calls : lock = c /\ pc[c] = "reading" /\ sock[c] = k

\* The reply a call returns was computed for this call and this attempt: the
\* desynchronised stream of the old persistent connection cannot come back.
AnswerIsOwn ==
    \A c \in Calls : result[c] \in {"answer", "ack"} =>
        /\ got[c] = [call |-> c, attempt |-> attempt[c]]
        /\ got[c] \in ToSet(log)

\* The hub executes the frame of one attempt at most once, so a call runs at
\* most max_attempts times, and once with the default of 1, whatever is lost,
\* late or cancelled.
OncePerAttempt ==
    \A i, j \in DOMAIN log : log[i] = log[j] => i = j

\* Executions of one call are never separated by another call's, although a
\* timed-out or cancelled command may still execute after its caller left:
\* the lock is kept across retries and the hub accepts in order.
NoInterleaving ==
    \A i, j \in DOMAIN log : i < j /\ log[i].call = log[j].call =>
        \A m \in i..j : log[m].call = log[i].call

\* A task that queued for the bus returns or raises in the end: nothing a dead
\* or mute hub does can hold the lock for ever.
EveryCallEnds ==
    \A c \in Calls : pc[c] = "waiting" ~> pc[c] = "done"

\* Every socket that was opened is closed in the end, also when its task was
\* cancelled while closing it.
EverySocketCloses ==
    \A k \in Socket : client[k] # "unused" ~> client[k] = "closed"

\* client.py:111 says max_attempts is the "Number of attempts per request
\* before raising": a request that raises HabitronConnectionError used them up.
AttemptsUsedUp ==
    \A c \in Requests : result[c] = "connection" => attempt[c] = MaxAttempts

\* The refinement mapping to what callers are promised.
statusBar ==
    [c \in Calls |->
        CASE pc[c] = "idle" -> "idle"
          [] pc[c] = "done" /\ result[c] \in {"answer", "ack"} -> "answered"
          [] pc[c] = "done" /\ result[c] \notin {"answer", "ack"} -> "failed"
          [] OTHER -> "pending"]
runsBar == [i \in DOMAIN log |-> log[i].call]
limitBar == [c \in Calls |-> IF c \in Requests THEN MaxAttempts
                            ELSE IF c \in OneWays THEN 1 ELSE 0]

Rpc == INSTANCE RpcService WITH status <- statusBar, runs <- runsBar, Limit <- limitBar

\* The transport implements the serial executor of RpcService.
ImplementsRpc == Rpc!Spec
===============================================================================
