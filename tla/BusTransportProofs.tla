-------------------------- MODULE BusTransportProofs --------------------------
(***************************************************************************)
(* Theorems of BusTransport for any number of calls, attempts and sockets. *)
(***************************************************************************)
EXTENDS BusTransport, SequenceTheorems, FiniteSetTheorems, TLAPS

(***************************************************************************)
(* Type correctness, one step per group of actions.                        *)
(***************************************************************************)
\* The socket _open hands out is one nobody has used: a fact about CHOOSE.
LEMMA FreshSocketIsUnused ==
    ASSUME \E k \in Socket : client[k] = "unused"
    PROVE  FreshSocket \in Socket /\ client[FreshSocket] = "unused"
  BY DEF FreshSocket

\* Taking one waiter out of the queue leaves a queue of the other waiters.
LEMMA RemoveAtType ==
    ASSUME NEW S, NEW s \in Seq(S), NEW i \in DOMAIN s
    PROVE  /\ RemoveAt(s, i) \in Seq(S)
           /\ Len(RemoveAt(s, i)) = Len(s) - 1
           /\ \A j \in 1..(Len(s) - 1) :
                RemoveAt(s, i)[j] = IF j < i THEN s[j] ELSE s[j + 1]
  <1> DEFINE front == SubSeq(s, 1, i - 1)
             back  == SubSeq(s, i + 1, Len(s))
  <1>0. Len(s) \in Nat /\ i \in 1..Len(s)
    OBVIOUS
  <1>1. /\ front \in Seq(S)
        /\ Len(front) = i - 1
        /\ \A j \in 1..(i - 1) : front[j] = s[j]
    BY <1>0, SubSeqProperties
  <1>2. /\ back \in Seq(S)
        /\ Len(back) = Len(s) - i
        /\ \A j \in 1..(Len(s) - i) : back[j] = s[i + j]
    BY <1>0, SubSeqProperties
  <1>3. RemoveAt(s, i) = front \o back
    BY DEF RemoveAt
  <1>4. /\ front \o back \in Seq(S)
        /\ Len(front \o back) = Len(front) + Len(back)
        /\ \A j \in 1..(Len(front) + Len(back)) :
             (front \o back)[j] = IF j <= Len(front) THEN front[j] ELSE back[j - Len(front)]
    BY <1>1, <1>2, ConcatProperties
  <1> HIDE DEF front, back
  <1>5. /\ Len(front \o back) = Len(s) - 1
        /\ \A j \in 1..(Len(s) - 1) :
             (front \o back)[j] = IF j <= i - 1 THEN front[j] ELSE back[j - (i - 1)]
    <2>1. Len(front) + Len(back) = Len(s) - 1
      BY <1>0, <1>1, <1>2
    <2> QED  BY <2>1, <1>1, <1>4
  <1>6. ASSUME NEW j \in 1..(Len(s) - 1)
        PROVE  (front \o back)[j] = IF j < i THEN s[j] ELSE s[j + 1]
    <2>1. CASE j < i
      <3>1. j \in 1..(i - 1)
        BY <2>1, <1>0
      <3> QED  BY <3>1, <2>1, <1>0, <1>1, <1>5
    <2>2. CASE ~(j < i)
      <3>1. j - (i - 1) \in 1..(Len(s) - i) /\ i + (j - (i - 1)) = j + 1 /\ ~(j <= i - 1)
        BY <2>2, <1>0
      <3>2. back[j - (i - 1)] = s[j + 1]
        BY <3>1, <1>2
      <3> QED  BY <3>1, <3>2, <2>2, <1>5
    <2> QED  BY <2>1, <2>2
  <1> QED  BY <1>3, <1>4, <1>5, <1>6
-------------------------------------------------------------------------------
\* writer.close() keeps the types of the client's end and of its stream.
LEMMA CloseType ==
    ASSUME TypeOK, NEW k, Close(k)
    PROVE  /\ client' \in [Socket -> {"unused", "open", "closing", "closed"}]
           /\ toClient' \in [Socket -> Seq(Reply)]
  <1>1. <<>> \in Seq(Reply)
    BY EmptySeq
  <1> QED  BY <1>1 DEF TypeOK, Close

\* A new connection keeps the types of both its ends and of the backlog.
LEMMA ConnectType ==
    ASSUME TypeOK, \E k \in Socket : client[k] = "unused",
           NEW end \in {"open", "closing"}, NEW cmds \in Seq(Command), Connect(end, cmds)
    PROVE  /\ client' \in [Socket -> {"unused", "open", "closing", "closed"}]
           /\ hub' \in [Socket -> {"none", "queued", "serving", "closed"}]
           /\ toHub' \in [Socket -> Seq(Command)]
           /\ toClient' \in [Socket -> Seq(Reply)]
           /\ backlog' \in Seq(Socket)
  <1>1. FreshSocket \in Socket
    BY FreshSocketIsUnused
  <1>2. toHub[FreshSocket] \o cmds \in Seq(Command)
    BY <1>1, ConcatProperties DEF TypeOK
  <1> QED  BY <1>1, <1>2 DEF TypeOK, Connect

-------------------------------------------------------------------------------
(***************************************************************************)
(* The inductive invariant, part by part.                                  *)
(***************************************************************************)
\* How far a call has come shows in its attempt, result and socket.
CallInv ==
    \A c \in Calls :
        /\ pc[c] \in {"idle", "waiting"} => attempt[c] = 0
        /\ pc[c] \in {"opening", "reading", "closing"} => attempt[c] # 0
        /\ pc[c] \in {"idle", "waiting", "opening", "reading"} => result[c] = "none"
        /\ pc[c] \in {"reading", "closing"} => sock[c] \in Socket

\* The lock's queue holds tasks that wait, each of them once.
QueueInv ==
    /\ \A i \in DOMAIN waiters : pc[waiters[i]] = "waiting"
    /\ \A i, j \in DOMAIN waiters : waiters[i] = waiters[j] => i = j

\* Who reads has an open socket, and nobody else has one.
SocketInv ==
    /\ SocketDiscipline
    /\ \A c \in Calls : pc[c] = "reading" => client[sock[c]] = "open"

\* The frame the current attempt of c writes.
Frame(c) == [call |-> c, attempt |-> attempt[c]]

\* A stream is used for one command and one reply to it.
StreamOf(frame, out, in, executed) ==
    /\ out \in {<<>>, <<frame>>}
    /\ \/ in = <<>>
       \/ /\ out = <<>>
          /\ frame \in ToSet(executed)
          /\ \E kind \in ReplyKind : in = <<[cmd |-> frame, kind |-> kind]>>

\* Only an open socket holds anything to read.
StreamInv ==
    /\ \A k \in Socket : client[k] = "unused" => toHub[k] = <<>>
    /\ \A k \in Socket : client[k] # "open" => toClient[k] = <<>>
    /\ \A c \in Calls : pc[c] = "reading" =>
         StreamOf(Frame(c), toHub[sock[c]], toClient[sock[c]], log)

\* A frame that was written is on its way on one socket or executed, not
\* both, and belongs to an attempt its call has already made.
WayInv ==
    /\ \A k \in Socket : toHub[k] = <<>> \/ \E cmd \in Command : toHub[k] = <<cmd>>
    /\ \A k, l \in Socket : toHub[k] # <<>> /\ toHub[k] = toHub[l] => k = l
    /\ \A k \in Socket, cmd \in Command : toHub[k] = <<cmd>> => cmd \notin ToSet(log)

SentInv ==
    \A cmd \in Command :
        (cmd \in ToSet(log) \/ \E k \in Socket : toHub[k] = <<cmd>>) =>
            /\ cmd.attempt <= attempt[cmd.call]
            /\ pc[cmd.call] = "opening" => cmd.attempt < attempt[cmd.call]

\* Every variable keeps its type in every step.
LEMMA TypeInductive == TypeOK /\ CallInv /\ [Next]_vars => TypeOK'
  <1> SUFFICES ASSUME TypeOK, CallInv, [Next]_vars
               PROVE  TypeOK'
    OBVIOUS
  <1> USE DEF TypeOK, vars, callVars, connVars, hubVars
  <1>1. ASSUME NEW c \in Calls, Call(c)
        PROVE  TypeOK'
    BY <1>1 DEF Call
  <1>2. ASSUME NEW c \in Calls, Acquire(c)
        PROVE  TypeOK'
    BY <1>2, AttemptsAssumption DEF Acquire
  <1>3. ASSUME NEW c \in Calls, ConnectedRequest(c)
        PROVE  TypeOK'
    <2>1. <<[call |-> c, attempt |-> attempt[c]]>> \in Seq(Command)
      BY <1>3 DEF ConnectedRequest, Opened, CallInv, Command, Calls
    <2>2. FreshSocket \in Socket
      BY <1>3, FreshSocketIsUnused DEF ConnectedRequest, Opened
    <2>3. /\ client' \in [Socket -> {"unused", "open", "closing", "closed"}]
          /\ hub' \in [Socket -> {"none", "queued", "serving", "closed"}]
          /\ toHub' \in [Socket -> Seq(Command)]
          /\ toClient' \in [Socket -> Seq(Reply)]
          /\ backlog' \in Seq(Socket)
      BY <1>3, <2>1, ConnectType DEF ConnectedRequest, Opened
    <2> QED
      BY <1>3, <2>2, <2>3 DEF ConnectedRequest, Results
  <1>4. ASSUME NEW c \in Calls, ConnectedOneWay(c)
        PROVE  TypeOK'
    <2>1. <<[call |-> c, attempt |-> attempt[c]]>> \in Seq(Command)
      BY <1>4 DEF ConnectedOneWay, Opened, CallInv, Command, Calls
    <2>2. FreshSocket \in Socket
      BY <1>4, FreshSocketIsUnused DEF ConnectedOneWay, Opened
    <2>3. /\ client' \in [Socket -> {"unused", "open", "closing", "closed"}]
          /\ hub' \in [Socket -> {"none", "queued", "serving", "closed"}]
          /\ toHub' \in [Socket -> Seq(Command)]
          /\ toClient' \in [Socket -> Seq(Reply)]
          /\ backlog' \in Seq(Socket)
      BY <1>4, <2>1, ConnectType DEF ConnectedOneWay, Opened
    <2> QED
      BY <1>4, <2>2, <2>3 DEF ConnectedOneWay, Results
  <1>5. ASSUME NEW c \in Calls, ConnectedProbe(c)
        PROVE  TypeOK'
    <2>1. <<>> \in Seq(Command)
      BY <1>5, EmptySeq
    <2>2. FreshSocket \in Socket
      BY <1>5, FreshSocketIsUnused DEF ConnectedProbe, Opened
    <2>3. /\ client' \in [Socket -> {"unused", "open", "closing", "closed"}]
          /\ hub' \in [Socket -> {"none", "queued", "serving", "closed"}]
          /\ toHub' \in [Socket -> Seq(Command)]
          /\ toClient' \in [Socket -> Seq(Reply)]
          /\ backlog' \in Seq(Socket)
      BY <1>5, <2>1, ConnectType DEF ConnectedProbe, Opened
    <2> QED
      BY <1>5, <2>2, <2>3 DEF ConnectedProbe, Results
  <1>6. ASSUME NEW c \in Calls, OpenFails(c)
        PROVE  TypeOK'
    <2>1. result' \in [Calls -> Results]
      BY <1>6 DEF OpenFails, Leave, Results
    <2> QED
      BY <1>6, <2>1 DEF OpenFails, Leave
  <1>7. ASSUME NEW c \in Calls, ReadReply(c)
        PROVE  TypeOK'
    <2>1. /\ client' \in [Socket -> {"unused", "open", "closing", "closed"}]
          /\ toClient' \in [Socket -> Seq(Reply)]
      BY <1>7, CloseType DEF ReadReply
    <2>2. sock[c] \in Socket /\ toClient[sock[c]] \in Seq(Reply)
      BY <1>7 DEF ReadReply, CallInv
    <2>3. Head(toClient[sock[c]]) \in Reply
      BY <1>7, <2>2, HeadTailProperties DEF ReadReply
    <2>4. /\ Head(toClient[sock[c]]).cmd \in Command
          /\ ResultOf(Head(toClient[sock[c]]).kind) \in Results
      BY <2>3 DEF Reply, ReplyKind, ResultOf, Results
    <2> QED
      BY <1>7, <2>1, <2>4 DEF ReadReply, CloseWith
  <1>8. ASSUME NEW c \in Calls, ReadEof(c)
        PROVE  TypeOK'
    <2>1. /\ client' \in [Socket -> {"unused", "open", "closing", "closed"}]
          /\ toClient' \in [Socket -> Seq(Reply)]
      BY <1>8, CloseType DEF ReadEof
    <2> QED
      BY <1>8, <2>1 DEF ReadEof, CloseWith, Results
  <1>9. ASSUME NEW c \in Calls, ConnectionLost(c)
        PROVE  TypeOK'
    <2>1. /\ client' \in [Socket -> {"unused", "open", "closing", "closed"}]
          /\ toClient' \in [Socket -> Seq(Reply)]
      BY <1>9, CloseType DEF ConnectionLost
    <2> QED
      BY <1>9, <2>1 DEF ConnectionLost, CloseWith, Results
  <1>10. ASSUME NEW c \in Calls, TimedOut(c)
        PROVE  TypeOK'
    <2>1. /\ client' \in [Socket -> {"unused", "open", "closing", "closed"}]
          /\ toClient' \in [Socket -> Seq(Reply)]
      BY <1>10, CloseType DEF TimedOut
    <2> QED
      BY <1>10, <2>1 DEF TimedOut, CloseWith, Results
  <1>11. ASSUME NEW c \in Calls, ClosedRetry(c)
        PROVE  TypeOK'
    <2>1. attempt[c] + 1 \in 0..MaxAttempts
      BY <1>11, AttemptsAssumption DEF ClosedRetry
    <2>2. attempt' \in [Calls -> 0..MaxAttempts]
      BY <1>11, <2>1 DEF ClosedRetry
    <2> QED
      BY <1>11, <2>2 DEF ClosedRetry, Results
  <1>12. ASSUME NEW c \in Calls, ClosedFinal(c)
        PROVE  TypeOK'
    <2>1. result' \in [Calls -> Results]
      BY <1>12 DEF ClosedFinal, Leave, Results
    <2> QED
      BY <1>12, <2>1 DEF ClosedFinal, Leave
  <1>13. ASSUME NEW c \in Calls, CancelWaiting(c)
        PROVE  TypeOK'
    <2>1. waiters' \in Seq(Calls)
      BY <1>13, RemoveAtType DEF CancelWaiting
    <2> QED
      BY <1>13, <2>1 DEF CancelWaiting, Results
  <1>14. ASSUME NEW c \in Calls, CancelOpening(c)
        PROVE  TypeOK'
    BY <1>14 DEF CancelOpening, Leave, Results
  <1>15. ASSUME NEW c \in Calls, CancelReading(c)
        PROVE  TypeOK'
    <2>1. /\ client' \in [Socket -> {"unused", "open", "closing", "closed"}]
          /\ toClient' \in [Socket -> Seq(Reply)]
      BY <1>15, CloseType DEF CancelReading
    <2> QED
      BY <1>15, <2>1 DEF CancelReading, CloseWith, Results
  <1>16. ASSUME NEW c \in Calls, CancelClosing(c)
        PROVE  TypeOK'
    BY <1>16 DEF CancelClosing, Leave, Results
  <1>17. ASSUME NEW k \in Socket, TransportGone(k)
        PROVE  TypeOK'
    BY <1>17 DEF TransportGone
  <1>18. ASSUME HubAccept
        PROVE  TypeOK'
    BY <1>18 DEF HubAccept
  <1>19. ASSUME NEW k \in Socket, HubServe(k)
        PROVE  TypeOK'
    <2>1. /\ toHub[k] \in Seq(Command)
          /\ Head(toHub[k]) \in Command
          /\ Tail(toHub[k]) \in Seq(Command)
      <3>1. toHub[k] \in Seq(Command) /\ toHub[k] # <<>>
        BY <1>19 DEF HubServe
      <3> QED  BY <3>1, HeadTailProperties
    <2>2. toHub' \in [Socket -> Seq(Command)] /\ log' \in Seq(Command)
      BY <1>19, <2>1 DEF HubServe
    <2>3. PICK kind \in ReplyKind \cup {"silence", "drop"} :
             /\ toClient' = IF kind \in ReplyKind /\ client[k] = "open"
                            THEN [toClient EXCEPT ![k] =
                                    Append(toClient[k], [cmd |-> Head(toHub[k]), kind |-> kind])]
                            ELSE toClient
             /\ hub' = IF kind \in {"short", "cut", "drop"}
                       THEN [hub EXCEPT ![k] = "closed"] ELSE hub
      BY <1>19 DEF HubServe
    <2>4. kind \in ReplyKind => [cmd |-> Head(toHub[k]), kind |-> kind] \in Reply
      BY <2>1 DEF Reply
    <2>5. toClient' \in [Socket -> Seq(Reply)]
      <3>1. CASE kind \in ReplyKind /\ client[k] = "open"
        <4>1. Append(toClient[k], [cmd |-> Head(toHub[k]), kind |-> kind]) \in Seq(Reply)
          BY <2>4, <3>1, AppendProperties
        <4> QED  BY <2>3, <3>1, <4>1
      <3>2. CASE ~(kind \in ReplyKind /\ client[k] = "open")
        BY <2>3, <3>2
      <3> QED  BY <3>1, <3>2
    <2>6. hub' \in [Socket -> {"none", "queued", "serving", "closed"}]
      BY <2>3
    <2> QED
      BY <1>19, <2>2, <2>5, <2>6 DEF HubServe
  <1>20. ASSUME NEW k \in Socket, HubSeesClose(k)
        PROVE  TypeOK'
    BY <1>20 DEF HubSeesClose
  <1>21. ASSUME HubReboot
        PROVE  TypeOK'
    <2>1. toHub' \in [Socket -> Seq(Command)] /\ backlog' \in Seq(Socket)
      <3>1. <<>> \in Seq(Command) /\ <<>> \in Seq(Socket)
        BY EmptySeq
      <3> QED  BY <1>21, <3>1 DEF HubReboot
    <2>2. hub' \in [Socket -> {"none", "queued", "serving", "closed"}]
      BY <1>21 DEF HubReboot
    <2> QED
      BY <1>21, <2>1, <2>2 DEF HubReboot
  <1>22. CASE UNCHANGED vars
    BY <1>22
  <1> QED
    BY <1>1, <1>2, <1>3, <1>4, <1>5, <1>6, <1>7, <1>8, <1>9, <1>10, <1>11, <1>12, <1>13, <1>14,
       <1>15, <1>16, <1>17, <1>18, <1>19, <1>20, <1>21, <1>22 DEF Next, ClientStep, HubStep

\* Only Call puts a task into the queue, and whoever leaves it stops waiting.
LEMMA QueueInductive == TypeOK /\ QueueInv /\ [Next]_vars => QueueInv'
  <1> SUFFICES ASSUME TypeOK, QueueInv, [Next]_vars
               PROVE  QueueInv'
    OBVIOUS
  <1> USE DEF QueueInv, TypeOK, vars, callVars, connVars, hubVars
  <1>1. ASSUME NEW c \in Calls, Call(c)
        PROVE  QueueInv'
    BY <1>1 DEF Call
  <1>2. ASSUME NEW c \in Calls, Acquire(c)
        PROVE  QueueInv'
    <2>1. /\ Len(waiters) \in Nat
          /\ DOMAIN Tail(waiters) = 1..(Len(waiters) - 1)
          /\ \A i \in DOMAIN Tail(waiters) : Tail(waiters)[i] = waiters[i + 1]
          /\ Head(waiters) = waiters[1] /\ Len(waiters) >= 1
      BY <1>2, HeadTailProperties DEF Acquire
    <2>2. \A i \in DOMAIN Tail(waiters) : i + 1 \in DOMAIN waiters /\ i + 1 # 1 /\ i \in Int
      BY <2>1
    <2>3. \A i \in DOMAIN Tail(waiters) : Tail(waiters)[i] # c
      BY <1>2, <2>1, <2>2 DEF Acquire
    <2>4. waiters' = Tail(waiters) /\ pc' = [pc EXCEPT ![c] = "opening"]
      BY <1>2 DEF Acquire
    <2>5. ASSUME NEW i \in DOMAIN waiters'
          PROVE  pc'[waiters'[i]] = "waiting"
      <3>1. waiters'[i] = waiters[i + 1] /\ i + 1 \in DOMAIN waiters /\ waiters'[i] # c
        BY <2>1, <2>2, <2>3, <2>4
      <3>2. waiters'[i] \in Calls /\ pc[waiters'[i]] = "waiting"
        BY <3>1
      <3> QED  BY <2>4, <3>1, <3>2
    <2>6. ASSUME NEW i \in DOMAIN waiters', NEW j \in DOMAIN waiters', waiters'[i] = waiters'[j]
          PROVE  i = j
      <3>1. waiters[i + 1] = waiters[j + 1]
        BY <2>1, <2>4, <2>6
      <3>2. i + 1 = j + 1
        BY <3>1, <2>2, <2>4
      <3> QED  BY <3>2, <2>2, <2>4
    <2> QED  BY <2>5, <2>6
  <1>3. ASSUME NEW c \in Calls, ConnectedRequest(c)
        PROVE  QueueInv'
    BY <1>3 DEF ConnectedRequest, Opened, Connect
  <1>4. ASSUME NEW c \in Calls, ConnectedOneWay(c)
        PROVE  QueueInv'
    BY <1>4 DEF ConnectedOneWay, Opened, Connect
  <1>5. ASSUME NEW c \in Calls, ConnectedProbe(c)
        PROVE  QueueInv'
    BY <1>5 DEF ConnectedProbe, Opened, Connect
  <1>6. ASSUME NEW c \in Calls, OpenFails(c)
        PROVE  QueueInv'
    BY <1>6 DEF OpenFails, Leave
  <1>7. ASSUME NEW c \in Calls, ReadReply(c)
        PROVE  QueueInv'
    BY <1>7 DEF ReadReply, CloseWith, Close, ResultOf
  <1>8. ASSUME NEW c \in Calls, ReadEof(c)
        PROVE  QueueInv'
    BY <1>8 DEF ReadEof, CloseWith, Close
  <1>9. ASSUME NEW c \in Calls, ConnectionLost(c)
        PROVE  QueueInv'
    BY <1>9 DEF ConnectionLost, CloseWith, Close
  <1>10. ASSUME NEW c \in Calls, TimedOut(c)
        PROVE  QueueInv'
    BY <1>10 DEF TimedOut, CloseWith, Close
  <1>11. ASSUME NEW c \in Calls, ClosedRetry(c)
        PROVE  QueueInv'
    BY <1>11 DEF ClosedRetry
  <1>12. ASSUME NEW c \in Calls, ClosedFinal(c)
        PROVE  QueueInv'
    BY <1>12 DEF ClosedFinal, Leave
  <1>13. ASSUME NEW c \in Calls, CancelWaiting(c)
        PROVE  QueueInv'
    <2>1. PICK i \in DOMAIN waiters : waiters[i] = c /\ waiters' = RemoveAt(waiters, i)
      BY <1>13 DEF CancelWaiting
    <2> DEFINE rest == RemoveAt(waiters, i)
    <2>2. /\ Len(waiters) \in Nat /\ i \in 1..Len(waiters)
          /\ DOMAIN rest = 1..(Len(waiters) - 1)
          /\ \A j \in 1..(Len(waiters) - 1) :
               rest[j] = IF j < i THEN waiters[j] ELSE waiters[j + 1]
      <3>1. waiters \in Seq(Calls) /\ i \in DOMAIN waiters
        BY <2>1
      <3>2. /\ rest \in Seq(Calls)
            /\ Len(rest) = Len(waiters) - 1
            /\ \A j \in 1..(Len(waiters) - 1) :
                 rest[j] = IF j < i THEN waiters[j] ELSE waiters[j + 1]
        BY <3>1, RemoveAtType
      <3> HIDE DEF rest
      <3> QED  BY <3>1, <3>2
    <2> HIDE DEF rest
    <2>3. ASSUME NEW j \in DOMAIN rest
          PROVE  \E m \in DOMAIN waiters : /\ rest[j] = waiters[m]
                                           /\ m = (IF j < i THEN j ELSE j + 1)
      <3>1. CASE j < i
        BY <2>2, <3>1
      <3>2. CASE ~(j < i)
        BY <2>2, <3>2
      <3> QED  BY <3>1, <3>2
    <2>4. pc' = [pc EXCEPT ![c] = "done"]
      BY <1>13 DEF CancelWaiting
    <2>5. ASSUME NEW j \in DOMAIN rest
          PROVE  pc'[rest[j]] = "waiting"
      <3>1. PICK m \in DOMAIN waiters : /\ rest[j] = waiters[m]
                                        /\ m = (IF j < i THEN j ELSE j + 1)
        BY <2>3
      <3>2. m # i
        BY <3>1, <2>1, <2>2
      <3> QED  BY <3>1, <3>2, <2>1, <2>4
    <2>6. ASSUME NEW j \in DOMAIN rest, NEW l \in DOMAIN rest, rest[j] = rest[l]
          PROVE  j = l
      <3>1. PICK m \in DOMAIN waiters : /\ rest[j] = waiters[m]
                                        /\ m = (IF j < i THEN j ELSE j + 1)
        BY <2>3
      <3>2. PICK n \in DOMAIN waiters : /\ rest[l] = waiters[n]
                                        /\ n = (IF l < i THEN l ELSE l + 1)
        BY <2>3
      <3>3. m = n
        BY <3>1, <3>2, <2>6
      <3>4. j \in Int /\ l \in Int /\ i \in Int
        BY <2>2
      <3> QED  BY <3>1, <3>2, <3>3, <3>4
    <2>7. waiters' = rest
      BY <2>1 DEF rest
    <2> QED  BY <2>5, <2>6, <2>7
  <1>14. ASSUME NEW c \in Calls, CancelOpening(c)
        PROVE  QueueInv'
    BY <1>14 DEF CancelOpening, Leave
  <1>15. ASSUME NEW c \in Calls, CancelReading(c)
        PROVE  QueueInv'
    BY <1>15 DEF CancelReading, CloseWith, Close
  <1>16. ASSUME NEW c \in Calls, CancelClosing(c)
        PROVE  QueueInv'
    BY <1>16 DEF CancelClosing, Leave
  <1>17. ASSUME NEW k \in Socket, TransportGone(k)
        PROVE  QueueInv'
    BY <1>17 DEF TransportGone
  <1>18. ASSUME HubAccept
        PROVE  QueueInv'
    BY <1>18 DEF HubAccept
  <1>19. ASSUME NEW k \in Socket, HubServe(k)
        PROVE  QueueInv'
    BY <1>19 DEF HubServe
  <1>20. ASSUME NEW k \in Socket, HubSeesClose(k)
        PROVE  QueueInv'
    BY <1>20 DEF HubSeesClose
  <1>21. ASSUME HubReboot
        PROVE  QueueInv'
    BY <1>21 DEF HubReboot
  <1>22. CASE UNCHANGED vars
    BY <1>22
  <1> QED
    BY <1>1, <1>2, <1>3, <1>4, <1>5, <1>6, <1>7, <1>8, <1>9, <1>10, <1>11, <1>12, <1>13, <1>14,
       <1>15, <1>16, <1>17, <1>18, <1>19, <1>20, <1>21, <1>22 DEF Next, ClientStep, HubStep

\* A call's progress stays consistent.
LEMMA CallInductive == TypeOK /\ QueueInv /\ CallInv /\ [Next]_vars => CallInv'
  <1> SUFFICES ASSUME TypeOK, QueueInv, CallInv, [Next]_vars
               PROVE  CallInv'
    OBVIOUS
  <1> USE DEF CallInv, TypeOK, vars, callVars, connVars, hubVars
  <1>1. ASSUME NEW c \in Calls, Call(c)
        PROVE  CallInv'
    BY <1>1 DEF Call
  <1>2. ASSUME NEW c \in Calls, Acquire(c)
        PROVE  CallInv'
    BY <1>2 DEF Acquire, QueueInv
  <1>3. ASSUME NEW c \in Calls, ConnectedRequest(c)
        PROVE  CallInv'
    BY <1>3, FreshSocketIsUnused DEF ConnectedRequest, Opened, Connect
  <1>4. ASSUME NEW c \in Calls, ConnectedOneWay(c)
        PROVE  CallInv'
    BY <1>4, FreshSocketIsUnused DEF ConnectedOneWay, Opened, Connect
  <1>5. ASSUME NEW c \in Calls, ConnectedProbe(c)
        PROVE  CallInv'
    BY <1>5, FreshSocketIsUnused DEF ConnectedProbe, Opened, Connect
  <1>6. ASSUME NEW c \in Calls, OpenFails(c)
        PROVE  CallInv'
    BY <1>6 DEF OpenFails, Leave
  <1>7. ASSUME NEW c \in Calls, ReadReply(c)
        PROVE  CallInv'
    BY <1>7 DEF ReadReply, CloseWith, Close, ResultOf
  <1>8. ASSUME NEW c \in Calls, ReadEof(c)
        PROVE  CallInv'
    BY <1>8 DEF ReadEof, CloseWith, Close
  <1>9. ASSUME NEW c \in Calls, ConnectionLost(c)
        PROVE  CallInv'
    BY <1>9 DEF ConnectionLost, CloseWith, Close
  <1>10. ASSUME NEW c \in Calls, TimedOut(c)
        PROVE  CallInv'
    BY <1>10 DEF TimedOut, CloseWith, Close
  <1>11. ASSUME NEW c \in Calls, ClosedRetry(c)
        PROVE  CallInv'
    BY <1>11 DEF ClosedRetry
  <1>12. ASSUME NEW c \in Calls, ClosedFinal(c)
        PROVE  CallInv'
    BY <1>12 DEF ClosedFinal, Leave
  <1>13. ASSUME NEW c \in Calls, CancelWaiting(c)
        PROVE  CallInv'
    BY <1>13 DEF CancelWaiting
  <1>14. ASSUME NEW c \in Calls, CancelOpening(c)
        PROVE  CallInv'
    BY <1>14 DEF CancelOpening, Leave
  <1>15. ASSUME NEW c \in Calls, CancelReading(c)
        PROVE  CallInv'
    BY <1>15 DEF CancelReading, CloseWith, Close
  <1>16. ASSUME NEW c \in Calls, CancelClosing(c)
        PROVE  CallInv'
    BY <1>16 DEF CancelClosing, Leave
  <1>17. ASSUME NEW k \in Socket, TransportGone(k)
        PROVE  CallInv'
    BY <1>17 DEF TransportGone
  <1>18. ASSUME HubAccept
        PROVE  CallInv'
    BY <1>18 DEF HubAccept
  <1>19. ASSUME NEW k \in Socket, HubServe(k)
        PROVE  CallInv'
    BY <1>19 DEF HubServe
  <1>20. ASSUME NEW k \in Socket, HubSeesClose(k)
        PROVE  CallInv'
    BY <1>20 DEF HubSeesClose
  <1>21. ASSUME HubReboot
        PROVE  CallInv'
    BY <1>21 DEF HubReboot
  <1>22. CASE UNCHANGED vars
    BY <1>22
  <1> QED
    BY <1>1, <1>2, <1>3, <1>4, <1>5, <1>6, <1>7, <1>8, <1>9, <1>10, <1>11, <1>12, <1>13, <1>14,
       <1>15, <1>16, <1>17, <1>18, <1>19, <1>20, <1>21, <1>22 DEF Next, ClientStep, HubStep

\* Whoever leaves the locked region releases the lock in the same step.
LEMMA LockInductive == TypeOK /\ LockDiscipline /\ [Next]_vars => LockDiscipline'
  <1> SUFFICES ASSUME TypeOK, LockDiscipline, [Next]_vars
               PROVE  LockDiscipline'
    OBVIOUS
  <1> USE DEF LockDiscipline, TypeOK, vars, callVars, connVars, hubVars
  <1>1. ASSUME NEW c \in Calls, Call(c)
        PROVE  LockDiscipline'
    BY <1>1, CallsAssumption DEF Call
  <1>2. ASSUME NEW c \in Calls, Acquire(c)
        PROVE  LockDiscipline'
    BY <1>2, CallsAssumption DEF Acquire
  <1>3. ASSUME NEW c \in Calls, ConnectedRequest(c)
        PROVE  LockDiscipline'
    BY <1>3, CallsAssumption DEF ConnectedRequest, Opened, Connect
  <1>4. ASSUME NEW c \in Calls, ConnectedOneWay(c)
        PROVE  LockDiscipline'
    BY <1>4, CallsAssumption DEF ConnectedOneWay, Opened, Connect
  <1>5. ASSUME NEW c \in Calls, ConnectedProbe(c)
        PROVE  LockDiscipline'
    BY <1>5, CallsAssumption DEF ConnectedProbe, Opened, Connect
  <1>6. ASSUME NEW c \in Calls, OpenFails(c)
        PROVE  LockDiscipline'
    BY <1>6, CallsAssumption DEF OpenFails, Leave
  <1>7. ASSUME NEW c \in Calls, ReadReply(c)
        PROVE  LockDiscipline'
    BY <1>7, CallsAssumption DEF ReadReply, CloseWith, Close, ResultOf
  <1>8. ASSUME NEW c \in Calls, ReadEof(c)
        PROVE  LockDiscipline'
    BY <1>8, CallsAssumption DEF ReadEof, CloseWith, Close
  <1>9. ASSUME NEW c \in Calls, ConnectionLost(c)
        PROVE  LockDiscipline'
    BY <1>9, CallsAssumption DEF ConnectionLost, CloseWith, Close
  <1>10. ASSUME NEW c \in Calls, TimedOut(c)
        PROVE  LockDiscipline'
    BY <1>10, CallsAssumption DEF TimedOut, CloseWith, Close
  <1>11. ASSUME NEW c \in Calls, ClosedRetry(c)
        PROVE  LockDiscipline'
    BY <1>11, CallsAssumption DEF ClosedRetry
  <1>12. ASSUME NEW c \in Calls, ClosedFinal(c)
        PROVE  LockDiscipline'
    BY <1>12, CallsAssumption DEF ClosedFinal, Leave
  <1>13. ASSUME NEW c \in Calls, CancelWaiting(c)
        PROVE  LockDiscipline'
    BY <1>13, CallsAssumption DEF CancelWaiting
  <1>14. ASSUME NEW c \in Calls, CancelOpening(c)
        PROVE  LockDiscipline'
    BY <1>14, CallsAssumption DEF CancelOpening, Leave
  <1>15. ASSUME NEW c \in Calls, CancelReading(c)
        PROVE  LockDiscipline'
    BY <1>15, CallsAssumption DEF CancelReading, CloseWith, Close
  <1>16. ASSUME NEW c \in Calls, CancelClosing(c)
        PROVE  LockDiscipline'
    BY <1>16, CallsAssumption DEF CancelClosing, Leave
  <1>17. ASSUME NEW k \in Socket, TransportGone(k)
        PROVE  LockDiscipline'
    BY <1>17, CallsAssumption DEF TransportGone
  <1>18. ASSUME HubAccept
        PROVE  LockDiscipline'
    BY <1>18, CallsAssumption DEF HubAccept
  <1>19. ASSUME NEW k \in Socket, HubServe(k)
        PROVE  LockDiscipline'
    BY <1>19, CallsAssumption DEF HubServe
  <1>20. ASSUME NEW k \in Socket, HubSeesClose(k)
        PROVE  LockDiscipline'
    BY <1>20, CallsAssumption DEF HubSeesClose
  <1>21. ASSUME HubReboot
        PROVE  LockDiscipline'
    BY <1>21, CallsAssumption DEF HubReboot
  <1>22. CASE UNCHANGED vars
    BY <1>22
  <1> QED
    BY <1>1, <1>2, <1>3, <1>4, <1>5, <1>6, <1>7, <1>8, <1>9, <1>10, <1>11, <1>12, <1>13, <1>14,
       <1>15, <1>16, <1>17, <1>18, <1>19, <1>20, <1>21, <1>22 DEF Next, ClientStep, HubStep

\* What an execution adds to the log.
LEMMA ToSetAppend ==
    ASSUME NEW S, NEW t \in Seq(S), NEW e \in S
    PROVE  ToSet(Append(t, e)) = ToSet(t) \cup {e}
  <1>1. /\ Len(t) \in Nat
        /\ DOMAIN t = 1..Len(t)
        /\ DOMAIN Append(t, e) = 1..(Len(t) + 1)
        /\ \A i \in 1..Len(t) : Append(t, e)[i] = t[i]
        /\ Append(t, e)[Len(t) + 1] = e
    BY AppendProperties
  <1>2. ASSUME NEW x \in ToSet(Append(t, e))
        PROVE  x \in ToSet(t) \cup {e}
    BY <1>1, <1>2 DEF ToSet
  <1>3. ASSUME NEW x \in ToSet(t)
        PROVE  x \in ToSet(Append(t, e))
    BY <1>1, <1>3 DEF ToSet
  <1>4. e \in ToSet(Append(t, e))
    BY <1>1 DEF ToSet
  <1> QED  BY <1>2, <1>3, <1>4

\* Every way out of the exchange closes the socket, and the lock keeps others from opening one.
LEMMA SocketInductive == TypeOK /\ CallInv /\ LockDiscipline /\ SocketInv /\ [Next]_vars => SocketInv'
  <1> SUFFICES ASSUME TypeOK, CallInv, LockDiscipline, SocketInv, [Next]_vars
               PROVE  SocketInv'
    OBVIOUS
  <1> USE DEF SocketInv, SocketDiscipline, LockDiscipline, CallInv, TypeOK, vars, callVars, connVars, hubVars
  <1>1. ASSUME NEW c \in Calls, Call(c)
        PROVE  SocketInv'
    BY <1>1, CallsAssumption DEF Call
  <1>2. ASSUME NEW c \in Calls, Acquire(c)
        PROVE  SocketInv'
    BY <1>2, CallsAssumption DEF Acquire
  <1>3. ASSUME NEW c \in Calls, ConnectedRequest(c)
        PROVE  SocketInv'
    BY <1>3, CallsAssumption, FreshSocketIsUnused DEF ConnectedRequest, Opened, Connect
  <1>4. ASSUME NEW c \in Calls, ConnectedOneWay(c)
        PROVE  SocketInv'
    BY <1>4, CallsAssumption, FreshSocketIsUnused DEF ConnectedOneWay, Opened, Connect
  <1>5. ASSUME NEW c \in Calls, ConnectedProbe(c)
        PROVE  SocketInv'
    BY <1>5, CallsAssumption, FreshSocketIsUnused DEF ConnectedProbe, Opened, Connect
  <1>6. ASSUME NEW c \in Calls, OpenFails(c)
        PROVE  SocketInv'
    BY <1>6, CallsAssumption DEF OpenFails, Leave
  <1>7. ASSUME NEW c \in Calls, ReadReply(c)
        PROVE  SocketInv'
    BY <1>7, CallsAssumption DEF ReadReply, CloseWith, Close, ResultOf
  <1>8. ASSUME NEW c \in Calls, ReadEof(c)
        PROVE  SocketInv'
    BY <1>8, CallsAssumption DEF ReadEof, CloseWith, Close
  <1>9. ASSUME NEW c \in Calls, ConnectionLost(c)
        PROVE  SocketInv'
    BY <1>9, CallsAssumption DEF ConnectionLost, CloseWith, Close
  <1>10. ASSUME NEW c \in Calls, TimedOut(c)
        PROVE  SocketInv'
    BY <1>10, CallsAssumption DEF TimedOut, CloseWith, Close
  <1>11. ASSUME NEW c \in Calls, ClosedRetry(c)
        PROVE  SocketInv'
    BY <1>11, CallsAssumption DEF ClosedRetry
  <1>12. ASSUME NEW c \in Calls, ClosedFinal(c)
        PROVE  SocketInv'
    BY <1>12, CallsAssumption DEF ClosedFinal, Leave
  <1>13. ASSUME NEW c \in Calls, CancelWaiting(c)
        PROVE  SocketInv'
    BY <1>13, CallsAssumption DEF CancelWaiting
  <1>14. ASSUME NEW c \in Calls, CancelOpening(c)
        PROVE  SocketInv'
    BY <1>14, CallsAssumption DEF CancelOpening, Leave
  <1>15. ASSUME NEW c \in Calls, CancelReading(c)
        PROVE  SocketInv'
    BY <1>15, CallsAssumption DEF CancelReading, CloseWith, Close
  <1>16. ASSUME NEW c \in Calls, CancelClosing(c)
        PROVE  SocketInv'
    BY <1>16, CallsAssumption DEF CancelClosing, Leave
  <1>17. ASSUME NEW k \in Socket, TransportGone(k)
        PROVE  SocketInv'
    BY <1>17, CallsAssumption DEF TransportGone
  <1>18. ASSUME HubAccept
        PROVE  SocketInv'
    BY <1>18, CallsAssumption DEF HubAccept
  <1>19. ASSUME NEW k \in Socket, HubServe(k)
        PROVE  SocketInv'
    BY <1>19, CallsAssumption DEF HubServe
  <1>20. ASSUME NEW k \in Socket, HubSeesClose(k)
        PROVE  SocketInv'
    BY <1>20, CallsAssumption DEF HubSeesClose
  <1>21. ASSUME HubReboot
        PROVE  SocketInv'
    BY <1>21, CallsAssumption DEF HubReboot
  <1>22. CASE UNCHANGED vars
    BY <1>22
  <1> QED
    BY <1>1, <1>2, <1>3, <1>4, <1>5, <1>6, <1>7, <1>8, <1>9, <1>10, <1>11, <1>12, <1>13, <1>14,
       <1>15, <1>16, <1>17, <1>18, <1>19, <1>20, <1>21, <1>22 DEF Next, ClientStep, HubStep

\* Sequences of one element.
LEMMA Singletons ==
    ASSUME NEW e, NEW f
    PROVE  <<e>> # <<>> /\ (<<e>> = <<f>> => e = f)
  OBVIOUS

\* A stream that was empty holds exactly what is appended to it.
LEMMA AppendToEmpty ==
    ASSUME NEW e
    PROVE  Append(<<>>, e) = <<e>>
  OBVIOUS

\* A step that sends nothing, executes nothing, lets nobody start reading and
\* touches only streams of sockets it closes leaves the streams in order.
LEMMA StreamFrame ==
    ASSUME StreamInv,
           UNCHANGED <<toHub, log>>,
           \A c \in Calls : pc'[c] = "reading" =>
                /\ pc[c] = "reading"
                /\ sock'[c] = sock[c]
                /\ attempt'[c] = attempt[c]
                /\ toClient'[sock[c]] = toClient[sock[c]],
           \A k \in Socket : client'[k] = "unused" => client[k] = "unused",
           \A k \in Socket : client'[k] # "open" => toClient'[k] = <<>>
    PROVE  StreamInv'
  <1>1. ASSUME NEW c \in Calls, pc'[c] = "reading"
        PROVE  StreamOf(Frame(c), toHub[sock[c]], toClient[sock[c]], log)'
    <2>1. /\ pc[c] = "reading"
          /\ (sock[c])' = sock[c]
          /\ toHub'[sock[c]] = toHub[sock[c]]
          /\ toClient'[sock[c]] = toClient[sock[c]]
          /\ Frame(c)' = Frame(c)
      BY <1>1 DEF Frame
    <2>2. StreamOf(Frame(c), toHub[sock[c]], toClient[sock[c]], log)
      BY <2>1 DEF StreamInv
    <2> QED  BY <2>1, <2>2 DEF StreamOf
  <1> QED  BY <1>1 DEF StreamInv

\* A fresh socket starts with empty streams, and only its owner's frame and the reply to it ever enter them.
LEMMA StreamInductive == TypeOK /\ CallInv /\ LockDiscipline /\ SocketInv /\ WayInv /\ StreamInv /\ [Next]_vars => StreamInv'
  <1> SUFFICES ASSUME TypeOK, CallInv, LockDiscipline, SocketInv, WayInv, StreamInv, [Next]_vars
               PROVE  StreamInv'
    OBVIOUS
  <1> USE DEF StreamInv, SocketInv, SocketDiscipline, LockDiscipline, CallInv, TypeOK, vars, callVars, connVars, hubVars
  <1>1. ASSUME NEW c \in Calls, Call(c)
        PROVE  StreamInv'
    <2>1. UNCHANGED <<toHub, log>>
      BY <1>1 DEF Call
    <2>2. ASSUME NEW d \in Calls, pc'[d] = "reading"
          PROVE  /\ pc[d] = "reading"
                 /\ sock'[d] = sock[d]
                 /\ attempt'[d] = attempt[d]
                 /\ toClient'[sock[d]] = toClient[sock[d]]
      BY <1>1, <2>2, CallsAssumption DEF Call
    <2>3. \A k \in Socket : client'[k] = "unused" => client[k] = "unused"
      BY <1>1 DEF Call
    <2>4. \A k \in Socket : client'[k] # "open" => toClient'[k] = <<>>
      BY <1>1 DEF Call
    <2> QED  BY <2>1, <2>2, <2>3, <2>4, StreamFrame
  <1>2. ASSUME NEW c \in Calls, Acquire(c)
        PROVE  StreamInv'
    <2>1. UNCHANGED <<toHub, log>>
      BY <1>2 DEF Acquire
    <2>2. ASSUME NEW d \in Calls, pc'[d] = "reading"
          PROVE  /\ pc[d] = "reading"
                 /\ sock'[d] = sock[d]
                 /\ attempt'[d] = attempt[d]
                 /\ toClient'[sock[d]] = toClient[sock[d]]
      BY <1>2, <2>2, CallsAssumption DEF Acquire
    <2>3. \A k \in Socket : client'[k] = "unused" => client[k] = "unused"
      BY <1>2 DEF Acquire
    <2>4. \A k \in Socket : client'[k] # "open" => toClient'[k] = <<>>
      BY <1>2 DEF Acquire
    <2> QED  BY <2>1, <2>2, <2>3, <2>4, StreamFrame
  <1>3. ASSUME NEW c \in Calls, ConnectedRequest(c)
        PROVE  StreamInv'
    <2>1. FreshSocket \in Socket /\ client[FreshSocket] = "unused"
      BY <1>3, FreshSocketIsUnused DEF ConnectedRequest, Opened
    <2>2. toHub[FreshSocket] = <<>> /\ toClient[FreshSocket] = <<>>
      BY <2>1
    <2>3. /\ toHub' = [toHub EXCEPT ![FreshSocket] = <<Frame(c)>>]
          /\ client' = [client EXCEPT ![FreshSocket] = "open"]
          /\ pc' = [pc EXCEPT ![c] = "reading"]
          /\ sock' = [sock EXCEPT ![c] = FreshSocket]
          /\ UNCHANGED <<toClient, attempt, log>>
      BY <1>3, <2>2 DEF ConnectedRequest, Connect, Frame
    <2>4. \A d \in Calls : Frame(d)' = Frame(d)
      BY <2>3 DEF Frame
    <2>5. lock = c /\ \A d \in Calls : d # c => pc[d] # "reading"
      BY <1>3 DEF ConnectedRequest, Opened
    <2>6. ASSUME NEW d \in Calls, pc'[d] = "reading"
          PROVE  StreamOf(Frame(d), toHub[sock[d]], toClient[sock[d]], log)'
      <3>1. d = c
        BY <2>3, <2>5, <2>6
      <3>2. /\ (sock[d])' = FreshSocket
            /\ toHub'[FreshSocket] = <<Frame(d)>>
            /\ toClient'[FreshSocket] = <<>>
        BY <2>1, <2>2, <2>3, <3>1
      <3> QED  BY <2>4, <3>2 DEF StreamOf
    <2>7. \A l \in Socket : client'[l] = "unused" => toHub'[l] = <<>>
      BY <2>1, <2>3
    <2>8. \A l \in Socket : client'[l] # "open" => toClient'[l] = <<>>
      BY <2>1, <2>3
    <2> QED  BY <2>6, <2>7, <2>8
  <1>4. ASSUME NEW c \in Calls, ConnectedOneWay(c)
        PROVE  StreamInv'
    BY <1>4, CallsAssumption, FreshSocketIsUnused DEF ConnectedOneWay, Opened, Connect
  <1>5. ASSUME NEW c \in Calls, ConnectedProbe(c)
        PROVE  StreamInv'
    BY <1>5, CallsAssumption, FreshSocketIsUnused DEF ConnectedProbe, Opened, Connect
  <1>6. ASSUME NEW c \in Calls, OpenFails(c)
        PROVE  StreamInv'
    <2>1. UNCHANGED <<toHub, log>>
      BY <1>6 DEF OpenFails, Leave
    <2>2. ASSUME NEW d \in Calls, pc'[d] = "reading"
          PROVE  /\ pc[d] = "reading"
                 /\ sock'[d] = sock[d]
                 /\ attempt'[d] = attempt[d]
                 /\ toClient'[sock[d]] = toClient[sock[d]]
      BY <1>6, <2>2, CallsAssumption DEF OpenFails, Leave
    <2>3. \A k \in Socket : client'[k] = "unused" => client[k] = "unused"
      BY <1>6 DEF OpenFails, Leave
    <2>4. \A k \in Socket : client'[k] # "open" => toClient'[k] = <<>>
      BY <1>6 DEF OpenFails, Leave
    <2> QED  BY <2>1, <2>2, <2>3, <2>4, StreamFrame
  <1>7. ASSUME NEW c \in Calls, ReadReply(c)
        PROVE  StreamInv'
    <2>1. UNCHANGED <<toHub, log>>
      BY <1>7 DEF ReadReply, CloseWith, Close, ResultOf
    <2>2. ASSUME NEW d \in Calls, pc'[d] = "reading"
          PROVE  /\ pc[d] = "reading"
                 /\ sock'[d] = sock[d]
                 /\ attempt'[d] = attempt[d]
                 /\ toClient'[sock[d]] = toClient[sock[d]]
      BY <1>7, <2>2, CallsAssumption DEF ReadReply, CloseWith, Close, ResultOf
    <2>3. \A k \in Socket : client'[k] = "unused" => client[k] = "unused"
      BY <1>7 DEF ReadReply, CloseWith, Close, ResultOf
    <2>4. \A k \in Socket : client'[k] # "open" => toClient'[k] = <<>>
      BY <1>7 DEF ReadReply, CloseWith, Close, ResultOf
    <2> QED  BY <2>1, <2>2, <2>3, <2>4, StreamFrame
  <1>8. ASSUME NEW c \in Calls, ReadEof(c)
        PROVE  StreamInv'
    <2>1. UNCHANGED <<toHub, log>>
      BY <1>8 DEF ReadEof, CloseWith, Close
    <2>2. ASSUME NEW d \in Calls, pc'[d] = "reading"
          PROVE  /\ pc[d] = "reading"
                 /\ sock'[d] = sock[d]
                 /\ attempt'[d] = attempt[d]
                 /\ toClient'[sock[d]] = toClient[sock[d]]
      BY <1>8, <2>2, CallsAssumption DEF ReadEof, CloseWith, Close
    <2>3. \A k \in Socket : client'[k] = "unused" => client[k] = "unused"
      BY <1>8 DEF ReadEof, CloseWith, Close
    <2>4. \A k \in Socket : client'[k] # "open" => toClient'[k] = <<>>
      BY <1>8 DEF ReadEof, CloseWith, Close
    <2> QED  BY <2>1, <2>2, <2>3, <2>4, StreamFrame
  <1>9. ASSUME NEW c \in Calls, ConnectionLost(c)
        PROVE  StreamInv'
    <2>1. UNCHANGED <<toHub, log>>
      BY <1>9 DEF ConnectionLost, CloseWith, Close
    <2>2. ASSUME NEW d \in Calls, pc'[d] = "reading"
          PROVE  /\ pc[d] = "reading"
                 /\ sock'[d] = sock[d]
                 /\ attempt'[d] = attempt[d]
                 /\ toClient'[sock[d]] = toClient[sock[d]]
      BY <1>9, <2>2, CallsAssumption DEF ConnectionLost, CloseWith, Close
    <2>3. \A k \in Socket : client'[k] = "unused" => client[k] = "unused"
      BY <1>9 DEF ConnectionLost, CloseWith, Close
    <2>4. \A k \in Socket : client'[k] # "open" => toClient'[k] = <<>>
      BY <1>9 DEF ConnectionLost, CloseWith, Close
    <2> QED  BY <2>1, <2>2, <2>3, <2>4, StreamFrame
  <1>10. ASSUME NEW c \in Calls, TimedOut(c)
        PROVE  StreamInv'
    <2>1. UNCHANGED <<toHub, log>>
      BY <1>10 DEF TimedOut, CloseWith, Close
    <2>2. ASSUME NEW d \in Calls, pc'[d] = "reading"
          PROVE  /\ pc[d] = "reading"
                 /\ sock'[d] = sock[d]
                 /\ attempt'[d] = attempt[d]
                 /\ toClient'[sock[d]] = toClient[sock[d]]
      BY <1>10, <2>2, CallsAssumption DEF TimedOut, CloseWith, Close
    <2>3. \A k \in Socket : client'[k] = "unused" => client[k] = "unused"
      BY <1>10 DEF TimedOut, CloseWith, Close
    <2>4. \A k \in Socket : client'[k] # "open" => toClient'[k] = <<>>
      BY <1>10 DEF TimedOut, CloseWith, Close
    <2> QED  BY <2>1, <2>2, <2>3, <2>4, StreamFrame
  <1>11. ASSUME NEW c \in Calls, ClosedRetry(c)
        PROVE  StreamInv'
    <2>1. UNCHANGED <<toHub, log>>
      BY <1>11 DEF ClosedRetry
    <2>2. ASSUME NEW d \in Calls, pc'[d] = "reading"
          PROVE  /\ pc[d] = "reading"
                 /\ sock'[d] = sock[d]
                 /\ attempt'[d] = attempt[d]
                 /\ toClient'[sock[d]] = toClient[sock[d]]
      BY <1>11, <2>2, CallsAssumption DEF ClosedRetry
    <2>3. \A k \in Socket : client'[k] = "unused" => client[k] = "unused"
      BY <1>11 DEF ClosedRetry
    <2>4. \A k \in Socket : client'[k] # "open" => toClient'[k] = <<>>
      <3>1. sock[c] \in Socket /\ lock = c /\ pc[c] # "reading"
        BY <1>11 DEF ClosedRetry
      <3>2. client[sock[c]] # "open"
        BY <3>1
      <3> QED  BY <1>11, <3>1, <3>2 DEF ClosedRetry
    <2> QED  BY <2>1, <2>2, <2>3, <2>4, StreamFrame
  <1>12. ASSUME NEW c \in Calls, ClosedFinal(c)
        PROVE  StreamInv'
    <2>1. UNCHANGED <<toHub, log>>
      BY <1>12 DEF ClosedFinal, Leave
    <2>2. ASSUME NEW d \in Calls, pc'[d] = "reading"
          PROVE  /\ pc[d] = "reading"
                 /\ sock'[d] = sock[d]
                 /\ attempt'[d] = attempt[d]
                 /\ toClient'[sock[d]] = toClient[sock[d]]
      BY <1>12, <2>2, CallsAssumption DEF ClosedFinal, Leave
    <2>3. \A k \in Socket : client'[k] = "unused" => client[k] = "unused"
      BY <1>12 DEF ClosedFinal, Leave
    <2>4. \A k \in Socket : client'[k] # "open" => toClient'[k] = <<>>
      <3>1. sock[c] \in Socket /\ lock = c /\ pc[c] # "reading"
        BY <1>12 DEF ClosedFinal, Leave
      <3>2. client[sock[c]] # "open"
        BY <3>1
      <3> QED  BY <1>12, <3>1, <3>2 DEF ClosedFinal, Leave
    <2> QED  BY <2>1, <2>2, <2>3, <2>4, StreamFrame
  <1>13. ASSUME NEW c \in Calls, CancelWaiting(c)
        PROVE  StreamInv'
    <2>1. UNCHANGED <<toHub, log>>
      BY <1>13 DEF CancelWaiting
    <2>2. ASSUME NEW d \in Calls, pc'[d] = "reading"
          PROVE  /\ pc[d] = "reading"
                 /\ sock'[d] = sock[d]
                 /\ attempt'[d] = attempt[d]
                 /\ toClient'[sock[d]] = toClient[sock[d]]
      BY <1>13, <2>2, CallsAssumption DEF CancelWaiting
    <2>3. \A k \in Socket : client'[k] = "unused" => client[k] = "unused"
      BY <1>13 DEF CancelWaiting
    <2>4. \A k \in Socket : client'[k] # "open" => toClient'[k] = <<>>
      BY <1>13 DEF CancelWaiting
    <2> QED  BY <2>1, <2>2, <2>3, <2>4, StreamFrame
  <1>14. ASSUME NEW c \in Calls, CancelOpening(c)
        PROVE  StreamInv'
    <2>1. UNCHANGED <<toHub, log>>
      BY <1>14 DEF CancelOpening, Leave
    <2>2. ASSUME NEW d \in Calls, pc'[d] = "reading"
          PROVE  /\ pc[d] = "reading"
                 /\ sock'[d] = sock[d]
                 /\ attempt'[d] = attempt[d]
                 /\ toClient'[sock[d]] = toClient[sock[d]]
      BY <1>14, <2>2, CallsAssumption DEF CancelOpening, Leave
    <2>3. \A k \in Socket : client'[k] = "unused" => client[k] = "unused"
      BY <1>14 DEF CancelOpening, Leave
    <2>4. \A k \in Socket : client'[k] # "open" => toClient'[k] = <<>>
      BY <1>14 DEF CancelOpening, Leave
    <2> QED  BY <2>1, <2>2, <2>3, <2>4, StreamFrame
  <1>15. ASSUME NEW c \in Calls, CancelReading(c)
        PROVE  StreamInv'
    <2>1. UNCHANGED <<toHub, log>>
      BY <1>15 DEF CancelReading, CloseWith, Close
    <2>2. ASSUME NEW d \in Calls, pc'[d] = "reading"
          PROVE  /\ pc[d] = "reading"
                 /\ sock'[d] = sock[d]
                 /\ attempt'[d] = attempt[d]
                 /\ toClient'[sock[d]] = toClient[sock[d]]
      BY <1>15, <2>2, CallsAssumption DEF CancelReading, CloseWith, Close
    <2>3. \A k \in Socket : client'[k] = "unused" => client[k] = "unused"
      BY <1>15 DEF CancelReading, CloseWith, Close
    <2>4. \A k \in Socket : client'[k] # "open" => toClient'[k] = <<>>
      BY <1>15 DEF CancelReading, CloseWith, Close
    <2> QED  BY <2>1, <2>2, <2>3, <2>4, StreamFrame
  <1>16. ASSUME NEW c \in Calls, CancelClosing(c)
        PROVE  StreamInv'
    <2>1. UNCHANGED <<toHub, log>>
      BY <1>16 DEF CancelClosing, Leave
    <2>2. ASSUME NEW d \in Calls, pc'[d] = "reading"
          PROVE  /\ pc[d] = "reading"
                 /\ sock'[d] = sock[d]
                 /\ attempt'[d] = attempt[d]
                 /\ toClient'[sock[d]] = toClient[sock[d]]
      BY <1>16, <2>2, CallsAssumption DEF CancelClosing, Leave
    <2>3. \A k \in Socket : client'[k] = "unused" => client[k] = "unused"
      BY <1>16 DEF CancelClosing, Leave
    <2>4. \A k \in Socket : client'[k] # "open" => toClient'[k] = <<>>
      BY <1>16 DEF CancelClosing, Leave
    <2> QED  BY <2>1, <2>2, <2>3, <2>4, StreamFrame
  <1>17. ASSUME NEW k \in Socket, TransportGone(k)
        PROVE  StreamInv'
    <2>1. UNCHANGED <<toHub, log, pc, sock, attempt, toClient>>
      BY <1>17 DEF TransportGone
    <2>2. \A l \in Socket : client'[l] = "unused" => client[l] = "unused"
      BY <1>17 DEF TransportGone
    <2>3. \A l \in Socket : client'[l] # "open" => toClient'[l] = <<>>
      BY <1>17 DEF TransportGone
    <2> QED  BY <2>1, <2>2, <2>3, StreamFrame
  <1>18. ASSUME HubAccept
        PROVE  StreamInv'
    <2>1. UNCHANGED <<toHub, log, pc, sock, attempt, toClient>>
      BY <1>18 DEF HubAccept
    <2>2. \A l \in Socket : client'[l] = "unused" => client[l] = "unused"
      BY <1>18 DEF HubAccept
    <2>3. \A l \in Socket : client'[l] # "open" => toClient'[l] = <<>>
      BY <1>18 DEF HubAccept
    <2> QED  BY <2>1, <2>2, <2>3, StreamFrame
  <1>19. ASSUME NEW k \in Socket, HubServe(k)
        PROVE  StreamInv'
    <2> USE DEF WayInv
    <2>1. PICK cmd \in Command : toHub[k] = <<cmd>>
      BY <1>19 DEF HubServe
    <2>2. Head(toHub[k]) = cmd /\ Tail(toHub[k]) = <<>>
      BY <2>1
    <2>3. /\ toHub' = [toHub EXCEPT ![k] = <<>>]
          /\ log' = Append(log, cmd)
      BY <1>19, <2>2 DEF HubServe
    <2>4. ToSet(log') = ToSet(log) \cup {cmd}
      BY <2>3, ToSetAppend
    <2>5. PICK kind \in ReplyKind \cup {"silence", "drop"} :
             toClient' = IF kind \in ReplyKind /\ client[k] = "open"
                         THEN [toClient EXCEPT ![k] = Append(toClient[k], [cmd |-> cmd, kind |-> kind])]
                         ELSE toClient
      BY <1>19, <2>2 DEF HubServe
    <2>6. UNCHANGED <<callVars, client>>
      BY <1>19 DEF HubServe
    <2> HIDE DEF StreamInv, SocketInv, SocketDiscipline, LockDiscipline, CallInv, WayInv
    <2>7. ASSUME NEW c \in Calls, pc'[c] = "reading"
          PROVE  StreamOf(Frame(c), toHub[sock[c]], toClient[sock[c]], log)'
      <3>0. /\ pc[c] = "reading"
            /\ (sock[c])' = sock[c]
            /\ Frame(c)' = Frame(c)
            /\ sock[c] \in Socket
        BY <2>6, <2>7 DEF Frame, callVars, CallInv
      <3>1. StreamOf(Frame(c), toHub[sock[c]], toClient[sock[c]], log)
        BY <3>0 DEF StreamInv
      <3>2. CASE sock[c] = k
        <4>1. toHub[k] = <<Frame(c)>> /\ toClient[k] = <<>>
          <5>1. StreamOf(Frame(c), toHub[k], toClient[k], log)
            BY <3>1, <3>2
          <5>2. toHub[k] # <<>>
            BY <2>1
          <5> QED  BY <5>1, <5>2 DEF StreamOf
        <4>2. cmd = Frame(c)
          BY <2>1, <4>1
        <4>3. toHub'[k] = <<>> /\ Frame(c) \in ToSet(log')
          BY <2>3, <2>4, <4>2 DEF TypeOK
        <4>4. Append(toClient[k], [cmd |-> cmd, kind |-> kind]) = <<[cmd |-> Frame(c), kind |-> kind]>>
          BY <4>1, <4>2, AppendToEmpty
        <4>5. \/ toClient'[k] = <<>>
              \/ kind \in ReplyKind /\ toClient'[k] = <<[cmd |-> Frame(c), kind |-> kind]>>
          <5>1. CASE kind \in ReplyKind /\ client[k] = "open"
            BY <2>5, <4>4, <5>1 DEF TypeOK
          <5>2. CASE ~(kind \in ReplyKind /\ client[k] = "open")
            BY <2>5, <4>1, <5>2
          <5> QED  BY <5>1, <5>2
        <4> QED  BY <3>0, <3>2, <4>3, <4>5 DEF StreamOf
      <3>3. CASE sock[c] # k
        <4>1. toHub'[sock[c]] = toHub[sock[c]] /\ toClient'[sock[c]] = toClient[sock[c]]
          BY <2>3, <2>5, <3>0, <3>3 DEF TypeOK
        <4> QED  BY <2>4, <3>0, <3>1, <4>1 DEF StreamOf
      <3> QED  BY <3>2, <3>3
    <2>8. \A l \in Socket : client[l] # "open" => toClient'[l] = <<>>
      BY <2>5 DEF StreamInv, TypeOK
    <2>9. \A l \in Socket : client[l] = "unused" => toHub'[l] = <<>>
      BY <2>3 DEF StreamInv, TypeOK
    <2> QED  BY <2>6, <2>7, <2>8, <2>9 DEF StreamInv
  <1>20. ASSUME NEW k \in Socket, HubSeesClose(k)
        PROVE  StreamInv'
    <2>1. UNCHANGED <<toHub, log, pc, sock, attempt, toClient>>
      BY <1>20 DEF HubSeesClose
    <2>2. \A l \in Socket : client'[l] = "unused" => client[l] = "unused"
      BY <1>20 DEF HubSeesClose
    <2>3. \A l \in Socket : client'[l] # "open" => toClient'[l] = <<>>
      BY <1>20 DEF HubSeesClose
    <2> QED  BY <2>1, <2>2, <2>3, StreamFrame
  <1>21. ASSUME HubReboot
        PROVE  StreamInv'
    <2>1. UNCHANGED <<callVars, client, toClient, log>> /\ \A l \in Socket : toHub'[l] = <<>>
      BY <1>21 DEF HubReboot
    <2>2. ASSUME NEW c \in Calls, pc'[c] = "reading"
          PROVE  StreamOf(Frame(c), toHub[sock[c]], toClient[sock[c]], log)'
      <3>1. pc[c] = "reading" /\ (sock[c])' = sock[c] /\ Frame(c)' = Frame(c) /\ sock[c] \in Socket
        BY <2>1, <2>2 DEF Frame
      <3>2. StreamOf(Frame(c), toHub[sock[c]], toClient[sock[c]], log)
        BY <3>1
      <3> QED  BY <2>1, <3>1, <3>2 DEF StreamOf
    <2> QED  BY <2>1, <2>2
  <1>22. CASE UNCHANGED vars
    BY <1>22, StreamFrame
  <1> QED
    BY <1>1, <1>2, <1>3, <1>4, <1>5, <1>6, <1>7, <1>8, <1>9, <1>10, <1>11, <1>12, <1>13, <1>14,
       <1>15, <1>16, <1>17, <1>18, <1>19, <1>20, <1>21, <1>22 DEF Next, ClientStep, HubStep

\* A frame is written for an attempt that has sent nothing yet, and leaves the socket when it is executed.
LEMMA WayInductive == TypeOK /\ CallInv /\ StreamInv /\ SentInv /\ WayInv /\ [Next]_vars => WayInv'
  <1> SUFFICES ASSUME TypeOK, CallInv, StreamInv, SentInv, WayInv, [Next]_vars
               PROVE  WayInv'
    OBVIOUS
  <1> USE DEF WayInv, TypeOK, vars, callVars, connVars, hubVars
  <1>1. ASSUME NEW c \in Calls, Call(c)
        PROVE  WayInv'
    BY <1>1 DEF Call
  <1>2. ASSUME NEW c \in Calls, Acquire(c)
        PROVE  WayInv'
    BY <1>2 DEF Acquire
  <1>3. ASSUME NEW c \in Calls, ConnectedRequest(c)
        PROVE  WayInv'
    <2>1. FreshSocket \in Socket /\ toHub[FreshSocket] = <<>>
      BY <1>3, FreshSocketIsUnused DEF ConnectedRequest, Opened, StreamInv
    <2>2. Frame(c) \in Command /\ Frame(c).call = c /\ Frame(c).attempt = attempt[c] /\ attempt[c] \in Nat
      BY <1>3, AttemptsAssumption DEF ConnectedRequest, Opened, CallInv, Command, Calls, Frame
    <2>3. /\ toHub' = [toHub EXCEPT ![FreshSocket] = <<Frame(c)>>]
          /\ UNCHANGED log
      BY <1>3, <2>1 DEF ConnectedRequest, Connect, Frame
    <2>4. pc[c] = "opening"
      BY <1>3 DEF ConnectedRequest, Opened
    <2>5. Frame(c) \notin ToSet(log) /\ \A k \in Socket : toHub[k] # <<Frame(c)>>
      <3>1. pc[Frame(c).call] = "opening" /\ ~(Frame(c).attempt < attempt[Frame(c).call])
        BY <2>2, <2>4
      <3> QED  BY <2>2, <3>1 DEF SentInv
    <2>6. \A k \in Socket : k # FreshSocket => toHub'[k] = toHub[k]
      BY <2>3
    <2>7. toHub'[FreshSocket] = <<Frame(c)>> /\ toHub'[FreshSocket] # <<>>
      BY <2>1, <2>3
    <2>8. \A k \in Socket : toHub'[k] = <<>> \/ \E cmd \in Command : toHub'[k] = <<cmd>>
      <3>1. ASSUME NEW k \in Socket, k # FreshSocket
            PROVE  toHub'[k] = <<>> \/ \E cmd \in Command : toHub'[k] = <<cmd>>
        BY <2>6, <3>1
      <3>2. \E cmd \in Command : toHub'[FreshSocket] = <<cmd>>
        BY <2>2, <2>7
      <3> QED  BY <3>1, <3>2
    <2>9. ASSUME NEW k \in Socket, NEW l \in Socket, toHub'[k] # <<>>, toHub'[k] = toHub'[l]
          PROVE  k = l
      BY <2>5, <2>6, <2>7, <2>9
    <2>10. ASSUME NEW k \in Socket, NEW cmd \in Command, toHub'[k] = <<cmd>>
           PROVE  cmd \notin ToSet(log)
      <3>1. CASE k = FreshSocket
        <4>1. <<cmd>>[1] = <<Frame(c)>>[1]
          BY <2>7, <2>10, <3>1
        <4> QED  BY <4>1, <2>5
      <3>2. CASE k # FreshSocket
        BY <2>6, <2>10, <3>2
      <3> QED  BY <3>1, <3>2
    <2> QED  BY <2>3, <2>8, <2>9, <2>10
  <1>4. ASSUME NEW c \in Calls, ConnectedOneWay(c)
        PROVE  WayInv'
    <2>1. FreshSocket \in Socket /\ toHub[FreshSocket] = <<>>
      BY <1>4, FreshSocketIsUnused DEF ConnectedOneWay, Opened, StreamInv
    <2>2. Frame(c) \in Command /\ Frame(c).call = c /\ Frame(c).attempt = attempt[c] /\ attempt[c] \in Nat
      BY <1>4, AttemptsAssumption DEF ConnectedOneWay, Opened, CallInv, Command, Calls, Frame
    <2>3. /\ toHub' = [toHub EXCEPT ![FreshSocket] = <<Frame(c)>>]
          /\ UNCHANGED log
      BY <1>4, <2>1 DEF ConnectedOneWay, Connect, Frame
    <2>4. pc[c] = "opening"
      BY <1>4 DEF ConnectedOneWay, Opened
    <2>5. Frame(c) \notin ToSet(log) /\ \A k \in Socket : toHub[k] # <<Frame(c)>>
      <3>1. pc[Frame(c).call] = "opening" /\ ~(Frame(c).attempt < attempt[Frame(c).call])
        BY <2>2, <2>4
      <3> QED  BY <2>2, <3>1 DEF SentInv
    <2>6. \A k \in Socket : k # FreshSocket => toHub'[k] = toHub[k]
      BY <2>3
    <2>7. toHub'[FreshSocket] = <<Frame(c)>> /\ toHub'[FreshSocket] # <<>>
      BY <2>1, <2>3
    <2>8. \A k \in Socket : toHub'[k] = <<>> \/ \E cmd \in Command : toHub'[k] = <<cmd>>
      <3>1. ASSUME NEW k \in Socket, k # FreshSocket
            PROVE  toHub'[k] = <<>> \/ \E cmd \in Command : toHub'[k] = <<cmd>>
        BY <2>6, <3>1
      <3>2. \E cmd \in Command : toHub'[FreshSocket] = <<cmd>>
        BY <2>2, <2>7
      <3> QED  BY <3>1, <3>2
    <2>9. ASSUME NEW k \in Socket, NEW l \in Socket, toHub'[k] # <<>>, toHub'[k] = toHub'[l]
          PROVE  k = l
      BY <2>5, <2>6, <2>7, <2>9
    <2>10. ASSUME NEW k \in Socket, NEW cmd \in Command, toHub'[k] = <<cmd>>
           PROVE  cmd \notin ToSet(log)
      <3>1. CASE k = FreshSocket
        <4>1. <<cmd>>[1] = <<Frame(c)>>[1]
          BY <2>7, <2>10, <3>1
        <4> QED  BY <4>1, <2>5
      <3>2. CASE k # FreshSocket
        BY <2>6, <2>10, <3>2
      <3> QED  BY <3>1, <3>2
    <2> QED  BY <2>3, <2>8, <2>9, <2>10
  <1>5. ASSUME NEW c \in Calls, ConnectedProbe(c)
        PROVE  WayInv'
    <2>1. FreshSocket \in Socket /\ toHub[FreshSocket] = <<>>
      BY <1>5, FreshSocketIsUnused DEF ConnectedProbe, Opened, StreamInv
    <2>2. toHub' = toHub /\ UNCHANGED log
      BY <1>5, <2>1 DEF ConnectedProbe, Connect
    <2> QED  BY <2>2
  <1>6. ASSUME NEW c \in Calls, OpenFails(c)
        PROVE  WayInv'
    BY <1>6 DEF OpenFails, Leave
  <1>7. ASSUME NEW c \in Calls, ReadReply(c)
        PROVE  WayInv'
    BY <1>7 DEF ReadReply, CloseWith, Close, ResultOf
  <1>8. ASSUME NEW c \in Calls, ReadEof(c)
        PROVE  WayInv'
    BY <1>8 DEF ReadEof, CloseWith, Close
  <1>9. ASSUME NEW c \in Calls, ConnectionLost(c)
        PROVE  WayInv'
    BY <1>9 DEF ConnectionLost, CloseWith, Close
  <1>10. ASSUME NEW c \in Calls, TimedOut(c)
        PROVE  WayInv'
    BY <1>10 DEF TimedOut, CloseWith, Close
  <1>11. ASSUME NEW c \in Calls, ClosedRetry(c)
        PROVE  WayInv'
    BY <1>11 DEF ClosedRetry
  <1>12. ASSUME NEW c \in Calls, ClosedFinal(c)
        PROVE  WayInv'
    BY <1>12 DEF ClosedFinal, Leave
  <1>13. ASSUME NEW c \in Calls, CancelWaiting(c)
        PROVE  WayInv'
    BY <1>13 DEF CancelWaiting
  <1>14. ASSUME NEW c \in Calls, CancelOpening(c)
        PROVE  WayInv'
    BY <1>14 DEF CancelOpening, Leave
  <1>15. ASSUME NEW c \in Calls, CancelReading(c)
        PROVE  WayInv'
    BY <1>15 DEF CancelReading, CloseWith, Close
  <1>16. ASSUME NEW c \in Calls, CancelClosing(c)
        PROVE  WayInv'
    BY <1>16 DEF CancelClosing, Leave
  <1>17. ASSUME NEW k \in Socket, TransportGone(k)
        PROVE  WayInv'
    BY <1>17 DEF TransportGone
  <1>18. ASSUME HubAccept
        PROVE  WayInv'
    BY <1>18 DEF HubAccept
  <1>19. ASSUME NEW k \in Socket, HubServe(k)
        PROVE  WayInv'
    <2>1. PICK cmd \in Command : toHub[k] = <<cmd>>
      BY <1>19 DEF HubServe
    <2>2. Head(toHub[k]) = cmd /\ Tail(toHub[k]) = <<>>
      BY <2>1
    <2>3. /\ toHub' = [toHub EXCEPT ![k] = <<>>]
          /\ log' = Append(log, cmd)
      BY <1>19, <2>2 DEF HubServe
    <2>4. ToSet(log') = ToSet(log) \cup {cmd}
      BY <2>3, ToSetAppend
    <2>5. \A l \in Socket : toHub'[l] = IF l = k THEN <<>> ELSE toHub[l]
      BY <2>3
    <2>6. ASSUME NEW l \in Socket, NEW other \in Command, toHub'[l] = <<other>>
          PROVE  other \notin ToSet(log')
      <3>1. l # k /\ toHub[l] = <<other>>
        BY <2>5, <2>6, Singletons
      <3>2. other # cmd
        BY <2>1, <3>1, Singletons
      <3>3. other \notin ToSet(log)
        BY <3>1
      <3> QED  BY <2>4, <3>2, <3>3
    <2> QED  BY <2>5, <2>6
  <1>20. ASSUME NEW k \in Socket, HubSeesClose(k)
        PROVE  WayInv'
    BY <1>20 DEF HubSeesClose
  <1>21. ASSUME HubReboot
        PROVE  WayInv'
    <2>1. \A l \in Socket : toHub'[l] = <<>>
      BY <1>21 DEF HubReboot
    <2> QED  BY <2>1, Singletons
  <1>22. CASE UNCHANGED vars
    BY <1>22
  <1> QED
    BY <1>1, <1>2, <1>3, <1>4, <1>5, <1>6, <1>7, <1>8, <1>9, <1>10, <1>11, <1>12, <1>13, <1>14,
       <1>15, <1>16, <1>17, <1>18, <1>19, <1>20, <1>21, <1>22 DEF Next, ClientStep, HubStep

\* What was ever written belongs to an attempt already made.
LEMMA SentInductive == TypeOK /\ QueueInv /\ CallInv /\ StreamInv /\ WayInv /\ SentInv /\ [Next]_vars => SentInv'
  <1> SUFFICES ASSUME TypeOK, QueueInv, CallInv, StreamInv, WayInv, SentInv, [Next]_vars
               PROVE  SentInv'
    OBVIOUS
  <1> USE DEF SentInv, CallInv, TypeOK, vars, callVars, connVars, hubVars
  <1>1. ASSUME NEW c \in Calls, Call(c)
        PROVE  SentInv'
    BY <1>1, AttemptsAssumption DEF Call, Command
  <1>2. ASSUME NEW c \in Calls, Acquire(c)
        PROVE  SentInv'
    BY <1>2, AttemptsAssumption DEF Acquire, Command, QueueInv
  <1>3. ASSUME NEW c \in Calls, ConnectedRequest(c)
        PROVE  SentInv'
    <2>1. FreshSocket \in Socket /\ toHub[FreshSocket] = <<>>
      BY <1>3, FreshSocketIsUnused DEF ConnectedRequest, Opened, StreamInv
    <2>2. /\ toHub' = [toHub EXCEPT ![FreshSocket] = <<Frame(c)>>]
          /\ pc[c] = "opening" /\ pc'[c] # "opening"
          /\ \A d \in Calls : d # c => pc'[d] = pc[d]
          /\ UNCHANGED <<attempt, log>>
      BY <1>3, <2>1 DEF ConnectedRequest, Opened, Connect, Frame
    <2>3. ASSUME NEW cmd \in Command, cmd \in ToSet(log') \/ \E k \in Socket : toHub'[k] = <<cmd>>
          PROVE  /\ cmd.attempt <= attempt'[cmd.call]
                 /\ pc'[cmd.call] = "opening" => cmd.attempt < attempt'[cmd.call]
      <3>0. cmd.call \in Calls /\ cmd.attempt \in Nat /\ attempt[cmd.call] \in Nat
        BY AttemptsAssumption DEF Command
      <3>1. CASE cmd \in ToSet(log) \/ \E k \in Socket : toHub[k] = <<cmd>>
        BY <2>2, <3>0, <3>1 DEF SentInv
      <3>2. CASE <<cmd>> = <<Frame(c)>>
        <4>1. cmd.call = c /\ cmd.attempt = attempt[c]
          BY <3>2 DEF Frame
        <4> QED  BY <2>2, <3>0, <4>1
      <3>3. (cmd \in ToSet(log) \/ \E k \in Socket : toHub[k] = <<cmd>>) \/ <<cmd>> = <<Frame(c)>>
        BY <2>1, <2>2, <2>3
      <3> QED  BY <3>1, <3>2, <3>3
    <2> QED  BY <2>3
  <1>4. ASSUME NEW c \in Calls, ConnectedOneWay(c)
        PROVE  SentInv'
    <2>1. FreshSocket \in Socket /\ toHub[FreshSocket] = <<>>
      BY <1>4, FreshSocketIsUnused DEF ConnectedOneWay, Opened, StreamInv
    <2>2. /\ toHub' = [toHub EXCEPT ![FreshSocket] = <<Frame(c)>>]
          /\ pc[c] = "opening" /\ pc'[c] # "opening"
          /\ \A d \in Calls : d # c => pc'[d] = pc[d]
          /\ UNCHANGED <<attempt, log>>
      BY <1>4, <2>1 DEF ConnectedOneWay, Opened, Connect, Frame
    <2>3. ASSUME NEW cmd \in Command, cmd \in ToSet(log') \/ \E k \in Socket : toHub'[k] = <<cmd>>
          PROVE  /\ cmd.attempt <= attempt'[cmd.call]
                 /\ pc'[cmd.call] = "opening" => cmd.attempt < attempt'[cmd.call]
      <3>0. cmd.call \in Calls /\ cmd.attempt \in Nat /\ attempt[cmd.call] \in Nat
        BY AttemptsAssumption DEF Command
      <3>1. CASE cmd \in ToSet(log) \/ \E k \in Socket : toHub[k] = <<cmd>>
        BY <2>2, <3>0, <3>1 DEF SentInv
      <3>2. CASE <<cmd>> = <<Frame(c)>>
        <4>1. cmd.call = c /\ cmd.attempt = attempt[c]
          BY <3>2 DEF Frame
        <4> QED  BY <2>2, <3>0, <4>1
      <3>3. (cmd \in ToSet(log) \/ \E k \in Socket : toHub[k] = <<cmd>>) \/ <<cmd>> = <<Frame(c)>>
        BY <2>1, <2>2, <2>3
      <3> QED  BY <3>1, <3>2, <3>3
    <2> QED  BY <2>3
  <1>5. ASSUME NEW c \in Calls, ConnectedProbe(c)
        PROVE  SentInv'
    <2>1. FreshSocket \in Socket /\ toHub[FreshSocket] = <<>>
      BY <1>5, FreshSocketIsUnused DEF ConnectedProbe, Opened, StreamInv
    <2>2. toHub' = toHub /\ UNCHANGED <<log, attempt>> /\ pc' = [pc EXCEPT ![c] = "closing"]
      BY <1>5, <2>1 DEF ConnectedProbe, Connect
    <2> QED  BY <2>2 DEF Command
  <1>6. ASSUME NEW c \in Calls, OpenFails(c)
        PROVE  SentInv'
    BY <1>6, AttemptsAssumption DEF OpenFails, Leave, Command
  <1>7. ASSUME NEW c \in Calls, ReadReply(c)
        PROVE  SentInv'
    BY <1>7, AttemptsAssumption DEF ReadReply, CloseWith, Close, ResultOf, Command
  <1>8. ASSUME NEW c \in Calls, ReadEof(c)
        PROVE  SentInv'
    BY <1>8, AttemptsAssumption DEF ReadEof, CloseWith, Close, Command
  <1>9. ASSUME NEW c \in Calls, ConnectionLost(c)
        PROVE  SentInv'
    BY <1>9, AttemptsAssumption DEF ConnectionLost, CloseWith, Close, Command
  <1>10. ASSUME NEW c \in Calls, TimedOut(c)
        PROVE  SentInv'
    BY <1>10, AttemptsAssumption DEF TimedOut, CloseWith, Close, Command
  <1>11. ASSUME NEW c \in Calls, ClosedRetry(c)
        PROVE  SentInv'
    BY <1>11, AttemptsAssumption DEF ClosedRetry, Command
  <1>12. ASSUME NEW c \in Calls, ClosedFinal(c)
        PROVE  SentInv'
    BY <1>12, AttemptsAssumption DEF ClosedFinal, Leave, Command
  <1>13. ASSUME NEW c \in Calls, CancelWaiting(c)
        PROVE  SentInv'
    BY <1>13, AttemptsAssumption DEF CancelWaiting, Command
  <1>14. ASSUME NEW c \in Calls, CancelOpening(c)
        PROVE  SentInv'
    BY <1>14, AttemptsAssumption DEF CancelOpening, Leave, Command
  <1>15. ASSUME NEW c \in Calls, CancelReading(c)
        PROVE  SentInv'
    BY <1>15, AttemptsAssumption DEF CancelReading, CloseWith, Close, Command
  <1>16. ASSUME NEW c \in Calls, CancelClosing(c)
        PROVE  SentInv'
    BY <1>16, AttemptsAssumption DEF CancelClosing, Leave, Command
  <1>17. ASSUME NEW k \in Socket, TransportGone(k)
        PROVE  SentInv'
    BY <1>17, AttemptsAssumption DEF TransportGone, Command
  <1>18. ASSUME HubAccept
        PROVE  SentInv'
    BY <1>18, AttemptsAssumption DEF HubAccept, Command
  <1>19. ASSUME NEW k \in Socket, HubServe(k)
        PROVE  SentInv'
    <2> USE DEF WayInv
    <2>1. PICK cmd \in Command : toHub[k] = <<cmd>>
      BY <1>19 DEF HubServe
    <2>2. Head(toHub[k]) = cmd /\ Tail(toHub[k]) = <<>>
      BY <2>1
    <2>3. /\ toHub' = [toHub EXCEPT ![k] = <<>>]
          /\ log' = Append(log, cmd)
      BY <1>19, <2>2 DEF HubServe
    <2>4. ToSet(log') = ToSet(log) \cup {cmd}
      BY <2>3, ToSetAppend
    <2>5. UNCHANGED <<attempt, pc>>
      BY <1>19 DEF HubServe
    <2>6. ASSUME NEW other \in Command, other \in ToSet(log') \/ \E l \in Socket : toHub'[l] = <<other>>
          PROVE  other \in ToSet(log) \/ \E l \in Socket : toHub[l] = <<other>>
      BY <2>1, <2>3, <2>4, <2>6
    <2> QED  BY <2>5, <2>6
  <1>20. ASSUME NEW k \in Socket, HubSeesClose(k)
        PROVE  SentInv'
    BY <1>20, AttemptsAssumption DEF HubSeesClose, Command
  <1>21. ASSUME HubReboot
        PROVE  SentInv'
    <2>1. (\A l \in Socket : toHub'[l] = <<>>) /\ UNCHANGED <<log, attempt, pc>>
      BY <1>21 DEF HubReboot
    <2> QED  BY <2>1, Singletons
  <1>22. CASE UNCHANGED vars
    BY <1>22
  <1> QED
    BY <1>1, <1>2, <1>3, <1>4, <1>5, <1>6, <1>7, <1>8, <1>9, <1>10, <1>11, <1>12, <1>13, <1>14,
       <1>15, <1>16, <1>17, <1>18, <1>19, <1>20, <1>21, <1>22 DEF Next, ClientStep, HubStep

\* A result that came from a reply came from the reply to the current attempt, and a call with a result makes no further attempt.
LEMMA AnswerInductive == TypeOK /\ QueueInv /\ CallInv /\ StreamInv /\ WayInv /\ AnswerIsOwn /\ [Next]_vars => AnswerIsOwn'
  <1> SUFFICES ASSUME TypeOK, QueueInv, CallInv, StreamInv, WayInv, AnswerIsOwn, [Next]_vars
               PROVE  AnswerIsOwn'
    OBVIOUS
  <1> USE DEF AnswerIsOwn, CallInv, TypeOK, vars, callVars, connVars, hubVars
  <1>1. ASSUME NEW c \in Calls, Call(c)
        PROVE  AnswerIsOwn'
    BY <1>1 DEF Call
  <1>2. ASSUME NEW c \in Calls, Acquire(c)
        PROVE  AnswerIsOwn'
    BY <1>2 DEF Acquire, QueueInv
  <1>3. ASSUME NEW c \in Calls, ConnectedRequest(c)
        PROVE  AnswerIsOwn'
    BY <1>3 DEF ConnectedRequest, Opened, Connect
  <1>4. ASSUME NEW c \in Calls, ConnectedOneWay(c)
        PROVE  AnswerIsOwn'
    BY <1>4 DEF ConnectedOneWay, Opened, Connect
  <1>5. ASSUME NEW c \in Calls, ConnectedProbe(c)
        PROVE  AnswerIsOwn'
    BY <1>5 DEF ConnectedProbe, Opened, Connect
  <1>6. ASSUME NEW c \in Calls, OpenFails(c)
        PROVE  AnswerIsOwn'
    BY <1>6 DEF OpenFails, Leave
  <1>7. ASSUME NEW c \in Calls, ReadReply(c)
        PROVE  AnswerIsOwn'
    <2>1. sock[c] \in Socket /\ StreamOf(Frame(c), toHub[sock[c]], toClient[sock[c]], log)
      BY <1>7 DEF ReadReply, CallInv, StreamInv
    <2>2. PICK kind \in ReplyKind : toClient[sock[c]] = <<[cmd |-> Frame(c), kind |-> kind]>>
      BY <1>7, <2>1 DEF ReadReply, StreamOf
    <2>3. Head(toClient[sock[c]]).cmd = Frame(c) /\ Frame(c) \in ToSet(log)
      <3>1. Head(toClient[sock[c]]) = [cmd |-> Frame(c), kind |-> kind]
        BY <2>2
      <3>2. toClient[sock[c]] # <<>>
        BY <1>7 DEF ReadReply
      <3> QED  BY <2>1, <3>1, <3>2 DEF StreamOf
    <2>4. /\ got' = [got EXCEPT ![c] = Frame(c)]
          /\ \A d \in Calls : d # c => result'[d] = result[d]
          /\ UNCHANGED <<attempt, log>>
      BY <1>7, <2>3 DEF ReadReply, CloseWith
    <2> QED  BY <2>3, <2>4 DEF Frame
  <1>8. ASSUME NEW c \in Calls, ReadEof(c)
        PROVE  AnswerIsOwn'
    BY <1>8 DEF ReadEof, CloseWith, Close
  <1>9. ASSUME NEW c \in Calls, ConnectionLost(c)
        PROVE  AnswerIsOwn'
    BY <1>9 DEF ConnectionLost, CloseWith, Close
  <1>10. ASSUME NEW c \in Calls, TimedOut(c)
        PROVE  AnswerIsOwn'
    BY <1>10 DEF TimedOut, CloseWith, Close
  <1>11. ASSUME NEW c \in Calls, ClosedRetry(c)
        PROVE  AnswerIsOwn'
    BY <1>11 DEF ClosedRetry
  <1>12. ASSUME NEW c \in Calls, ClosedFinal(c)
        PROVE  AnswerIsOwn'
    BY <1>12 DEF ClosedFinal, Leave
  <1>13. ASSUME NEW c \in Calls, CancelWaiting(c)
        PROVE  AnswerIsOwn'
    BY <1>13 DEF CancelWaiting
  <1>14. ASSUME NEW c \in Calls, CancelOpening(c)
        PROVE  AnswerIsOwn'
    BY <1>14 DEF CancelOpening, Leave
  <1>15. ASSUME NEW c \in Calls, CancelReading(c)
        PROVE  AnswerIsOwn'
    BY <1>15 DEF CancelReading, CloseWith, Close
  <1>16. ASSUME NEW c \in Calls, CancelClosing(c)
        PROVE  AnswerIsOwn'
    BY <1>16 DEF CancelClosing, Leave
  <1>17. ASSUME NEW k \in Socket, TransportGone(k)
        PROVE  AnswerIsOwn'
    BY <1>17 DEF TransportGone
  <1>18. ASSUME HubAccept
        PROVE  AnswerIsOwn'
    BY <1>18 DEF HubAccept
  <1>19. ASSUME NEW k \in Socket, HubServe(k)
        PROVE  AnswerIsOwn'
    <2> USE DEF WayInv
    <2>1. PICK cmd \in Command : toHub[k] = <<cmd>>
      BY <1>19 DEF HubServe
    <2>2. Head(toHub[k]) = cmd /\ Tail(toHub[k]) = <<>>
      BY <2>1
    <2>3. /\ toHub' = [toHub EXCEPT ![k] = <<>>]
          /\ log' = Append(log, cmd)
      BY <1>19, <2>2 DEF HubServe
    <2>4. ToSet(log') = ToSet(log) \cup {cmd}
      BY <2>3, ToSetAppend
    <2>5. UNCHANGED <<result, got, attempt>>
      BY <1>19 DEF HubServe
    <2> QED  BY <2>4, <2>5
  <1>20. ASSUME NEW k \in Socket, HubSeesClose(k)
        PROVE  AnswerIsOwn'
    BY <1>20 DEF HubSeesClose
  <1>21. ASSUME HubReboot
        PROVE  AnswerIsOwn'
    BY <1>21 DEF HubReboot
  <1>22. CASE UNCHANGED vars
    BY <1>22
  <1> QED
    BY <1>1, <1>2, <1>3, <1>4, <1>5, <1>6, <1>7, <1>8, <1>9, <1>10, <1>11, <1>12, <1>13, <1>14,
       <1>15, <1>16, <1>17, <1>18, <1>19, <1>20, <1>21, <1>22 DEF Next, ClientStep, HubStep

\* Only a command that was never executed is executed.
LEMMA OnceInductive == TypeOK /\ WayInv /\ OncePerAttempt /\ [Next]_vars => OncePerAttempt'
  <1> SUFFICES ASSUME TypeOK, WayInv, OncePerAttempt, [Next]_vars
               PROVE  OncePerAttempt'
    OBVIOUS
  <1> USE DEF OncePerAttempt, TypeOK, vars, callVars, connVars, hubVars
  <1>1. ASSUME NEW c \in Calls, Call(c)
        PROVE  OncePerAttempt'
    BY <1>1 DEF Call
  <1>2. ASSUME NEW c \in Calls, Acquire(c)
        PROVE  OncePerAttempt'
    BY <1>2 DEF Acquire
  <1>3. ASSUME NEW c \in Calls, ConnectedRequest(c)
        PROVE  OncePerAttempt'
    BY <1>3 DEF ConnectedRequest, Opened, Connect
  <1>4. ASSUME NEW c \in Calls, ConnectedOneWay(c)
        PROVE  OncePerAttempt'
    BY <1>4 DEF ConnectedOneWay, Opened, Connect
  <1>5. ASSUME NEW c \in Calls, ConnectedProbe(c)
        PROVE  OncePerAttempt'
    BY <1>5 DEF ConnectedProbe, Opened, Connect
  <1>6. ASSUME NEW c \in Calls, OpenFails(c)
        PROVE  OncePerAttempt'
    BY <1>6 DEF OpenFails, Leave
  <1>7. ASSUME NEW c \in Calls, ReadReply(c)
        PROVE  OncePerAttempt'
    BY <1>7 DEF ReadReply, CloseWith, Close, ResultOf
  <1>8. ASSUME NEW c \in Calls, ReadEof(c)
        PROVE  OncePerAttempt'
    BY <1>8 DEF ReadEof, CloseWith, Close
  <1>9. ASSUME NEW c \in Calls, ConnectionLost(c)
        PROVE  OncePerAttempt'
    BY <1>9 DEF ConnectionLost, CloseWith, Close
  <1>10. ASSUME NEW c \in Calls, TimedOut(c)
        PROVE  OncePerAttempt'
    BY <1>10 DEF TimedOut, CloseWith, Close
  <1>11. ASSUME NEW c \in Calls, ClosedRetry(c)
        PROVE  OncePerAttempt'
    BY <1>11 DEF ClosedRetry
  <1>12. ASSUME NEW c \in Calls, ClosedFinal(c)
        PROVE  OncePerAttempt'
    BY <1>12 DEF ClosedFinal, Leave
  <1>13. ASSUME NEW c \in Calls, CancelWaiting(c)
        PROVE  OncePerAttempt'
    BY <1>13 DEF CancelWaiting
  <1>14. ASSUME NEW c \in Calls, CancelOpening(c)
        PROVE  OncePerAttempt'
    BY <1>14 DEF CancelOpening, Leave
  <1>15. ASSUME NEW c \in Calls, CancelReading(c)
        PROVE  OncePerAttempt'
    BY <1>15 DEF CancelReading, CloseWith, Close
  <1>16. ASSUME NEW c \in Calls, CancelClosing(c)
        PROVE  OncePerAttempt'
    BY <1>16 DEF CancelClosing, Leave
  <1>17. ASSUME NEW k \in Socket, TransportGone(k)
        PROVE  OncePerAttempt'
    BY <1>17 DEF TransportGone
  <1>18. ASSUME HubAccept
        PROVE  OncePerAttempt'
    BY <1>18 DEF HubAccept
  <1>19. ASSUME NEW k \in Socket, HubServe(k)
        PROVE  OncePerAttempt'
    <2> USE DEF WayInv
    <2>1. PICK cmd \in Command : toHub[k] = <<cmd>>
      BY <1>19 DEF HubServe
    <2>2. Head(toHub[k]) = cmd /\ Tail(toHub[k]) = <<>>
      BY <2>1
    <2>3. /\ toHub' = [toHub EXCEPT ![k] = <<>>]
          /\ log' = Append(log, cmd)
      BY <1>19, <2>2 DEF HubServe
    <2>4. ToSet(log') = ToSet(log) \cup {cmd}
      BY <2>3, ToSetAppend
    <2>5. cmd \notin ToSet(log)
      BY <2>1
    <2>6. /\ Len(log) \in Nat
          /\ DOMAIN log = 1..Len(log)
          /\ DOMAIN log' = 1..(Len(log) + 1)
          /\ \A i \in 1..Len(log) : log'[i] = log[i] /\ log[i] # cmd
          /\ log'[Len(log) + 1] = cmd
      BY <2>3, <2>5, AppendProperties DEF ToSet
    <2>7. ASSUME NEW i \in DOMAIN log', NEW j \in DOMAIN log', log'[i] = log'[j]
          PROVE  i = j
      <3>1. CASE i \in 1..Len(log) /\ j \in 1..Len(log)
        <4>1. log[i] = log[j]
          BY <2>6, <2>7, <3>1
        <4> QED  BY <2>6, <3>1, <4>1
      <3>2. CASE i = Len(log) + 1 \/ j = Len(log) + 1
        <4>1. log'[i] = cmd /\ log'[j] = cmd
          BY <2>6, <2>7, <3>2
        <4>2. i \notin 1..Len(log) /\ j \notin 1..Len(log)
          BY <2>6, <4>1
        <4> QED  BY <2>6, <4>2
      <3> QED  BY <2>6, <3>1, <3>2
    <2> QED  BY <2>7
  <1>20. ASSUME NEW k \in Socket, HubSeesClose(k)
        PROVE  OncePerAttempt'
    BY <1>20 DEF HubSeesClose
  <1>21. ASSUME HubReboot
        PROVE  OncePerAttempt'
    BY <1>21 DEF HubReboot
  <1>22. CASE UNCHANGED vars
    BY <1>22
  <1> QED
    BY <1>1, <1>2, <1>3, <1>4, <1>5, <1>6, <1>7, <1>8, <1>9, <1>10, <1>11, <1>12, <1>13, <1>14,
       <1>15, <1>16, <1>17, <1>18, <1>19, <1>20, <1>21, <1>22 DEF Next, ClientStep, HubStep

-------------------------------------------------------------------------------
(***************************************************************************)
(* The order of commands, from the lock to the hub's log.                  *)
(***************************************************************************)
\* The hub serves one connection and queues every other one once; a socket
\* nobody has used is unknown to it.
HubInv ==
    /\ \A k, l \in Socket : hub[k] = "serving" /\ hub[l] = "serving" => k = l
    /\ \A p \in DOMAIN backlog : hub[backlog[p]] = "queued"
    /\ \A p, q \in DOMAIN backlog : backlog[p] = backlog[q] => p = q
    /\ \A k \in Socket : client[k] = "unused" => hub[k] = "none"

\* Only requests wait for a reply and try again, and a probe sends nothing.
KindInv ==
    /\ \A c \in Calls : pc[c] = "reading" \/ result[c] = "retry" => c \in Requests
    /\ \A c \in Calls \ Requests : attempt[c] <= 1
    /\ \A cmd \in Command :
         cmd \in ToSet(log) \/ (\E k \in Socket : toHub[k] = <<cmd>>) => cmd.call \notin Probes

\* Place n of the line of all commands sent is held by a command of c: first
\* those the hub executed, then the one it has before it, then those on the
\* connections it has not accepted.
At(n, c) ==
    \/ n \in DOMAIN log /\ log[n].call = c
    \/ /\ n = Len(log) + 1
       /\ \E k \in Socket : hub[k] = "serving" /\ toHub[k] # <<>> /\ Head(toHub[k]).call = c
    \/ \E p \in DOMAIN backlog :
         /\ n = Len(log) + 1 + p
         /\ toHub[backlog[p]] # <<>>
         /\ Head(toHub[backlog[p]]).call = c

\* No command stands between two of another call, and whoever has somebody
\* else's command behind its own has left the bus for good.
OrderInv ==
    /\ \A i, m, j \in Nat, c, d \in Calls :
         i < m /\ m < j /\ At(i, c) /\ At(m, d) /\ At(j, c) => d = c
    /\ \A i, j \in Nat, c, d \in Calls :
         i < j /\ At(i, c) /\ At(j, d) /\ lock = c => d = c

\* A new connection waits behind the ones the hub has yet to accept.
LEMMA ConnectKeepsHub ==
    ASSUME TypeOK, HubInv, FreshSocket \in Socket, client[FreshSocket] = "unused",
           NEW end \in {"open", "closing"}, NEW cmds, Connect(end, cmds)
    PROVE  HubInv'
  <1> USE DEF TypeOK, HubInv
  <1>1. /\ hub' = [hub EXCEPT ![FreshSocket] = "queued"]
        /\ client' = [client EXCEPT ![FreshSocket] = end]
        /\ backlog' = Append(backlog, FreshSocket)
    BY DEF Connect
  <1>2. /\ Len(backlog) \in Nat
        /\ DOMAIN backlog = 1..Len(backlog)
        /\ DOMAIN backlog' = 1..(Len(backlog) + 1)
        /\ \A p \in DOMAIN backlog : backlog'[p] = backlog[p]
        /\ backlog'[Len(backlog) + 1] = FreshSocket
    BY <1>1, AppendProperties
  <1>3. \A p \in DOMAIN backlog : backlog[p] # FreshSocket /\ backlog[p] \in Socket
    <2>1. hub[FreshSocket] # "queued"
      OBVIOUS
    <2>2. \A p \in DOMAIN backlog : hub[backlog[p]] = "queued" /\ backlog[p] \in Socket
      OBVIOUS
    <2> QED  BY <2>1, <2>2
  <1>4. \A p \in DOMAIN backlog' : hub'[backlog'[p]] = "queued"
    BY <1>1, <1>2, <1>3
  <1>5. ASSUME NEW p \in DOMAIN backlog', NEW q \in DOMAIN backlog', backlog'[p] = backlog'[q]
        PROVE  p = q
    <2>1. \A n \in DOMAIN backlog' : n \in DOMAIN backlog \/ n = Len(backlog) + 1
      BY <1>2
    <2>2. CASE p \in DOMAIN backlog /\ q \in DOMAIN backlog
      <3>1. backlog[p] = backlog[q]
        BY <1>2, <1>5, <2>2
      <3> QED  BY <2>2, <3>1
    <2>3. CASE p = Len(backlog) + 1 \/ q = Len(backlog) + 1
      <3>1. backlog'[p] = FreshSocket /\ backlog'[q] = FreshSocket
        BY <1>2, <1>5, <2>3
      <3>2. \A n \in DOMAIN backlog : backlog'[n] # FreshSocket
        BY <1>2, <1>3
      <3>3. p \notin DOMAIN backlog /\ q \notin DOMAIN backlog
        BY <3>1, <3>2
      <3> QED  BY <2>1, <3>3
    <2> QED  BY <2>1, <2>2, <2>3
  <1>6. \A k, l \in Socket : hub'[k] = "serving" /\ hub'[l] = "serving" => k = l
    BY <1>1
  <1>7. \A k \in Socket : client'[k] = "unused" => hub'[k] = "none"
    BY <1>1
  <1> QED  BY <1>4, <1>5, <1>6, <1>7

\* The hub's own bookkeeping stays in order.
LEMMA HubInductive == TypeOK /\ CallInv /\ HubInv /\ [Next]_vars => HubInv'
  <1> SUFFICES ASSUME TypeOK, CallInv, HubInv, [Next]_vars
               PROVE  HubInv'
    OBVIOUS
  <1> USE DEF HubInv, TypeOK, vars, callVars, connVars, hubVars
  <1>1. ASSUME NEW c \in Calls, Call(c)
        PROVE  HubInv'
    BY <1>1 DEF Call
  <1>2. ASSUME NEW c \in Calls, Acquire(c)
        PROVE  HubInv'
    BY <1>2 DEF Acquire
  <1>3. ASSUME NEW c \in Calls, ConnectedRequest(c)
        PROVE  HubInv'
    <2>1. FreshSocket \in Socket /\ client[FreshSocket] = "unused"
      BY <1>3, FreshSocketIsUnused DEF ConnectedRequest, Opened
    <2>2. \E end \in {"open", "closing"} : \E cmds : Connect(end, cmds)
      BY <1>3 DEF ConnectedRequest
    <2> QED  BY <2>1, <2>2, ConnectKeepsHub
  <1>4. ASSUME NEW c \in Calls, ConnectedOneWay(c)
        PROVE  HubInv'
    <2>1. FreshSocket \in Socket /\ client[FreshSocket] = "unused"
      BY <1>4, FreshSocketIsUnused DEF ConnectedOneWay, Opened
    <2>2. \E end \in {"open", "closing"} : \E cmds : Connect(end, cmds)
      BY <1>4 DEF ConnectedOneWay
    <2> QED  BY <2>1, <2>2, ConnectKeepsHub
  <1>5. ASSUME NEW c \in Calls, ConnectedProbe(c)
        PROVE  HubInv'
    <2>1. FreshSocket \in Socket /\ client[FreshSocket] = "unused"
      BY <1>5, FreshSocketIsUnused DEF ConnectedProbe, Opened
    <2>2. \E end \in {"open", "closing"} : \E cmds : Connect(end, cmds)
      BY <1>5 DEF ConnectedProbe
    <2> QED  BY <2>1, <2>2, ConnectKeepsHub
  <1>6. ASSUME NEW c \in Calls, OpenFails(c)
        PROVE  HubInv'
    BY <1>6 DEF OpenFails, Leave
  <1>7. ASSUME NEW c \in Calls, ReadReply(c)
        PROVE  HubInv'
    BY <1>7 DEF CallInv, ReadReply, CloseWith, Close, ResultOf
  <1>8. ASSUME NEW c \in Calls, ReadEof(c)
        PROVE  HubInv'
    BY <1>8 DEF CallInv, ReadEof, CloseWith, Close
  <1>9. ASSUME NEW c \in Calls, ConnectionLost(c)
        PROVE  HubInv'
    BY <1>9 DEF CallInv, ConnectionLost, CloseWith, Close
  <1>10. ASSUME NEW c \in Calls, TimedOut(c)
        PROVE  HubInv'
    BY <1>10 DEF CallInv, TimedOut, CloseWith, Close
  <1>11. ASSUME NEW c \in Calls, ClosedRetry(c)
        PROVE  HubInv'
    BY <1>11 DEF CallInv, ClosedRetry
  <1>12. ASSUME NEW c \in Calls, ClosedFinal(c)
        PROVE  HubInv'
    BY <1>12 DEF CallInv, ClosedFinal, Leave
  <1>13. ASSUME NEW c \in Calls, CancelWaiting(c)
        PROVE  HubInv'
    BY <1>13 DEF CancelWaiting
  <1>14. ASSUME NEW c \in Calls, CancelOpening(c)
        PROVE  HubInv'
    BY <1>14 DEF CancelOpening, Leave
  <1>15. ASSUME NEW c \in Calls, CancelReading(c)
        PROVE  HubInv'
    BY <1>15 DEF CallInv, CancelReading, CloseWith, Close
  <1>16. ASSUME NEW c \in Calls, CancelClosing(c)
        PROVE  HubInv'
    BY <1>16 DEF CancelClosing, Leave
  <1>17. ASSUME NEW k \in Socket, TransportGone(k)
        PROVE  HubInv'
    BY <1>17 DEF TransportGone
  <1>18. ASSUME HubAccept
        PROVE  HubInv'
    <2>1. Head(backlog) \in Socket /\ Head(backlog) = backlog[1] /\ 1 \in DOMAIN backlog
      BY <1>18 DEF HubAccept
    <2>2. /\ DOMAIN backlog = 1..Len(backlog)
          /\ DOMAIN backlog' = 1..(Len(backlog) - 1)
          /\ \A p \in DOMAIN backlog' : backlog'[p] = backlog[p + 1] /\ p + 1 \in DOMAIN backlog
      BY <1>18 DEF HubAccept
    <2>3. hub' = [hub EXCEPT ![backlog[1]] = "serving"] /\ UNCHANGED client
      BY <1>18, <2>1 DEF HubAccept
    <2>4. ASSUME NEW p \in DOMAIN backlog'
          PROVE  backlog'[p] # backlog[1]
      <3>1. p + 1 # 1
        BY <2>2
      <3> QED  BY <2>1, <2>2, <3>1
    <2>5. ASSUME NEW p \in DOMAIN backlog'
          PROVE  hub'[backlog'[p]] = "queued"
      BY <2>2, <2>3, <2>4
    <2>6. ASSUME NEW p \in DOMAIN backlog', NEW q \in DOMAIN backlog', backlog'[p] = backlog'[q]
          PROVE  p = q
      <3>1. p + 1 = q + 1
        BY <2>2, <2>6
      <3> QED  BY <2>2, <3>1
    <2>7. \A k, l \in Socket : hub'[k] = "serving" /\ hub'[l] = "serving" => k = l
      BY <1>18, <2>1, <2>3 DEF HubAccept, Busy
    <2>8. \A k \in Socket : client'[k] = "unused" => hub'[k] = "none"
      BY <2>1, <2>3
    <2> QED  BY <2>5, <2>6, <2>7, <2>8
  <1>19. ASSUME NEW k \in Socket, HubServe(k)
        PROVE  HubInv'
    BY <1>19 DEF HubServe
  <1>20. ASSUME NEW k \in Socket, HubSeesClose(k)
        PROVE  HubInv'
    BY <1>20 DEF HubSeesClose
  <1>21. ASSUME HubReboot
        PROVE  HubInv'
    BY <1>21 DEF HubReboot
  <1>22. CASE UNCHANGED vars
    BY <1>22 DEF vars
  <1> QED
    BY <1>1, <1>2, <1>3, <1>4, <1>5, <1>6, <1>7, <1>8, <1>9, <1>10, <1>11, <1>12, <1>13, <1>14,
       <1>15, <1>16, <1>17, <1>18, <1>19, <1>20, <1>21, <1>22 DEF Next, ClientStep, HubStep

\* What kind of call it is decides what it may do.
LEMMA KindInductive == TypeOK /\ QueueInv /\ CallInv /\ StreamInv /\ WayInv /\ KindInv /\ [Next]_vars => KindInv'
  <1> SUFFICES ASSUME TypeOK, QueueInv, CallInv, StreamInv, WayInv, KindInv, [Next]_vars
               PROVE  KindInv'
    OBVIOUS
  <1> USE DEF KindInv, CallInv, TypeOK, vars, callVars, connVars, hubVars
  <1>1. ASSUME NEW c \in Calls, Call(c)
        PROVE  KindInv'
    BY <1>1 DEF Call
  <1>2. ASSUME NEW c \in Calls, Acquire(c)
        PROVE  KindInv'
    BY <1>2, AttemptsAssumption DEF QueueInv, Acquire
  <1>3. ASSUME NEW c \in Calls, ConnectedRequest(c)
        PROVE  KindInv'
    <2>1. FreshSocket \in Socket /\ toHub[FreshSocket] = <<>>
      BY <1>3, FreshSocketIsUnused DEF ConnectedRequest, Opened, StreamInv
    <2>2. /\ toHub' = [toHub EXCEPT ![FreshSocket] = <<Frame(c)>>]
          /\ UNCHANGED <<attempt, log>>
          /\ Frame(c).call = c /\ c \notin Probes
      BY <1>3, <2>1, CallsAssumption DEF ConnectedRequest, Opened, Connect, Frame
    <2>3. ASSUME NEW cmd \in Command, cmd \in ToSet(log') \/ \E k \in Socket : toHub'[k] = <<cmd>>
          PROVE  cmd.call \notin Probes
      <3>1. CASE cmd \in ToSet(log) \/ \E k \in Socket : toHub[k] = <<cmd>>
        BY <3>1 DEF KindInv
      <3>2. CASE <<cmd>> = <<Frame(c)>>
        <4>1. cmd = Frame(c)
          BY <3>2, Singletons
        <4> QED  BY <2>2, <4>1
      <3> QED  BY <2>1, <2>2, <2>3, <3>1, <3>2
    <2>4. \A d \in Calls : pc'[d] = "reading" \/ result'[d] = "retry" => d \in Requests
      BY <1>3 DEF ConnectedRequest, Opened
    <2> QED  BY <2>2, <2>3, <2>4
  <1>4. ASSUME NEW c \in Calls, ConnectedOneWay(c)
        PROVE  KindInv'
    <2>1. FreshSocket \in Socket /\ toHub[FreshSocket] = <<>>
      BY <1>4, FreshSocketIsUnused DEF ConnectedOneWay, Opened, StreamInv
    <2>2. /\ toHub' = [toHub EXCEPT ![FreshSocket] = <<Frame(c)>>]
          /\ UNCHANGED <<attempt, log>>
          /\ Frame(c).call = c /\ c \notin Probes
      BY <1>4, <2>1, CallsAssumption DEF ConnectedOneWay, Opened, Connect, Frame
    <2>3. ASSUME NEW cmd \in Command, cmd \in ToSet(log') \/ \E k \in Socket : toHub'[k] = <<cmd>>
          PROVE  cmd.call \notin Probes
      <3>1. CASE cmd \in ToSet(log) \/ \E k \in Socket : toHub[k] = <<cmd>>
        BY <3>1 DEF KindInv
      <3>2. CASE <<cmd>> = <<Frame(c)>>
        <4>1. cmd = Frame(c)
          BY <3>2, Singletons
        <4> QED  BY <2>2, <4>1
      <3> QED  BY <2>1, <2>2, <2>3, <3>1, <3>2
    <2>4. \A d \in Calls : pc'[d] = "reading" \/ result'[d] = "retry" => d \in Requests
      BY <1>4 DEF ConnectedOneWay, Opened
    <2> QED  BY <2>2, <2>3, <2>4
  <1>5. ASSUME NEW c \in Calls, ConnectedProbe(c)
        PROVE  KindInv'
    <2>1. FreshSocket \in Socket /\ toHub[FreshSocket] = <<>>
      BY <1>5, FreshSocketIsUnused DEF ConnectedProbe, Opened, StreamInv
    <2>2. toHub' = toHub /\ UNCHANGED <<log, attempt>>
      BY <1>5, <2>1 DEF ConnectedProbe, Connect
    <2>3. \A d \in Calls : pc'[d] = "reading" \/ result'[d] = "retry" => d \in Requests
      BY <1>5 DEF ConnectedProbe, Opened
    <2> QED  BY <2>2, <2>3
  <1>6. ASSUME NEW c \in Calls, OpenFails(c)
        PROVE  KindInv'
    BY <1>6 DEF OpenFails, Leave
  <1>7. ASSUME NEW c \in Calls, ReadReply(c)
        PROVE  KindInv'
    BY <1>7 DEF ReadReply, CloseWith, Close, ResultOf
  <1>8. ASSUME NEW c \in Calls, ReadEof(c)
        PROVE  KindInv'
    BY <1>8 DEF ReadEof, CloseWith, Close
  <1>9. ASSUME NEW c \in Calls, ConnectionLost(c)
        PROVE  KindInv'
    BY <1>9 DEF ConnectionLost, CloseWith, Close
  <1>10. ASSUME NEW c \in Calls, TimedOut(c)
        PROVE  KindInv'
    BY <1>10 DEF TimedOut, CloseWith, Close
  <1>11. ASSUME NEW c \in Calls, ClosedRetry(c)
        PROVE  KindInv'
    BY <1>11 DEF ClosedRetry
  <1>12. ASSUME NEW c \in Calls, ClosedFinal(c)
        PROVE  KindInv'
    BY <1>12 DEF ClosedFinal, Leave
  <1>13. ASSUME NEW c \in Calls, CancelWaiting(c)
        PROVE  KindInv'
    BY <1>13 DEF CancelWaiting
  <1>14. ASSUME NEW c \in Calls, CancelOpening(c)
        PROVE  KindInv'
    BY <1>14 DEF CancelOpening, Leave
  <1>15. ASSUME NEW c \in Calls, CancelReading(c)
        PROVE  KindInv'
    BY <1>15 DEF CancelReading, CloseWith, Close
  <1>16. ASSUME NEW c \in Calls, CancelClosing(c)
        PROVE  KindInv'
    BY <1>16 DEF CancelClosing, Leave
  <1>17. ASSUME NEW k \in Socket, TransportGone(k)
        PROVE  KindInv'
    BY <1>17 DEF TransportGone
  <1>18. ASSUME HubAccept
        PROVE  KindInv'
    BY <1>18 DEF HubAccept
  <1>19. ASSUME NEW k \in Socket, HubServe(k)
        PROVE  KindInv'
    <2> USE DEF WayInv
    <2>1. PICK cmd \in Command : toHub[k] = <<cmd>>
      BY <1>19 DEF HubServe
    <2>2. Head(toHub[k]) = cmd /\ Tail(toHub[k]) = <<>>
      BY <2>1
    <2>3. /\ toHub' = [toHub EXCEPT ![k] = <<>>]
          /\ log' = Append(log, cmd)
          /\ UNCHANGED <<pc, result, attempt>>
      BY <1>19, <2>2 DEF HubServe
    <2>4. ToSet(log') = ToSet(log) \cup {cmd}
      BY <2>3, ToSetAppend
    <2>5. ASSUME NEW other \in Command, other \in ToSet(log') \/ \E l \in Socket : toHub'[l] = <<other>>
          PROVE  other \in ToSet(log) \/ \E l \in Socket : toHub[l] = <<other>>
      BY <2>1, <2>3, <2>4, <2>5
    <2> QED  BY <2>3, <2>5
  <1>20. ASSUME NEW k \in Socket, HubSeesClose(k)
        PROVE  KindInv'
    BY <1>20 DEF HubSeesClose
  <1>21. ASSUME HubReboot
        PROVE  KindInv'
    <2>1. (\A l \in Socket : toHub'[l] = <<>>) /\ UNCHANGED <<log, attempt, pc, result>>
      BY <1>21 DEF HubReboot
    <2> QED  BY <2>1, Singletons
  <1>22. CASE UNCHANGED vars
    BY <1>22 DEF vars
  <1> QED
    BY <1>1, <1>2, <1>3, <1>4, <1>5, <1>6, <1>7, <1>8, <1>9, <1>10, <1>11, <1>12, <1>13, <1>14,
       <1>15, <1>16, <1>17, <1>18, <1>19, <1>20, <1>21, <1>22 DEF Next, ClientStep, HubStep

\* The order survives a step that moves every command to where the order of
\* the line is the same, and gives the lock only to who has sent nothing.
LEMMA OrderShift ==
    ASSUME OrderInv, NEW f,
           \A i \in Nat : f[i] \in Nat,
           \A i \in Nat, c \in Calls : At(i, c)' => At(f[i], c),
           \A i, j \in Nat, c, d \in Calls : i < j /\ At(i, c)' /\ At(j, d)' => f[i] < f[j],
           \A c \in Calls : lock' = c => lock = c \/ \A i \in Nat : ~At(i, c)
    PROVE  OrderInv'
  <1>1. ASSUME NEW i \in Nat, NEW m \in Nat, NEW j \in Nat, NEW c \in Calls, NEW d \in Calls,
               i < m, m < j, At(i, c)', At(m, d)', At(j, c)'
        PROVE  d = c
    <2>1. f[i] \in Nat /\ f[m] \in Nat /\ f[j] \in Nat /\ f[i] < f[m] /\ f[m] < f[j]
      BY <1>1
    <2>2. At(f[i], c) /\ At(f[m], d) /\ At(f[j], c)
      BY <1>1
    <2> QED  BY <2>1, <2>2 DEF OrderInv
  <1>2. ASSUME NEW i \in Nat, NEW j \in Nat, NEW c \in Calls, NEW d \in Calls,
               i < j, At(i, c)', At(j, d)', lock' = c
        PROVE  d = c
    <2>1. f[i] \in Nat /\ f[j] \in Nat /\ f[i] < f[j] /\ At(f[i], c) /\ At(f[j], d)
      BY <1>2
    <2>2. lock = c
      BY <1>2, <2>1
    <2> QED  BY <2>1, <2>2 DEF OrderInv
  <1> QED  BY <1>1, <1>2 DEF OrderInv

\* A step that neither sends nor executes nor loses anything.
LEMMA OrderFrame ==
    ASSUME OrderInv, UNCHANGED <<log, hub, toHub, backlog>>,
           \A c \in Calls : lock' = c => lock = c \/ \A i \in Nat : ~At(i, c)
    PROVE  OrderInv'
  <1> DEFINE f == [i \in Nat |-> i]
  <1>1. \A i \in Nat : f[i] = i
    OBVIOUS
  <1>2. \A i \in Nat, c \in Calls : At(i, c)' => At(i, c)
    BY DEF At
  <1> HIDE DEF f
  <1> QED  BY <1>1, <1>2, OrderShift

\* The lock holder's command goes to the end of the line.
LEMMA OrderConnect ==
    ASSUME TypeOK, HubInv, OrderInv, NEW c \in Calls, lock = c, UNCHANGED <<lock, log>>,
           FreshSocket \in Socket, client[FreshSocket] = "unused",
           NEW end, NEW cmds, Connect(end, cmds), toHub[FreshSocket] \o cmds = cmds,
           cmds # <<>> => Head(cmds).call = c
    PROVE  OrderInv'
  <1> DEFINE last == Len(log) + 1 + (Len(backlog) + 1)
  <1>1. /\ hub' = [hub EXCEPT ![FreshSocket] = "queued"]
        /\ toHub' = [toHub EXCEPT ![FreshSocket] = cmds]
        /\ backlog' = Append(backlog, FreshSocket)
    BY DEF Connect
  <1>2. /\ Len(backlog) \in Nat /\ Len(log) \in Nat
        /\ DOMAIN backlog = 1..Len(backlog)
        /\ DOMAIN log = 1..Len(log)
        /\ DOMAIN backlog' = 1..(Len(backlog) + 1)
        /\ \A p \in DOMAIN backlog : backlog'[p] = backlog[p]
        /\ backlog'[Len(backlog) + 1] = FreshSocket
    <2>1. backlog \in Seq(Socket) /\ log \in Seq(Command)
      BY DEF TypeOK
    <2> QED  BY <1>1, <2>1, AppendProperties
  <1>3. \A p \in DOMAIN backlog : backlog[p] # FreshSocket /\ backlog[p] \in Socket
    <2>1. hub[FreshSocket] # "queued"
      BY DEF HubInv
    <2>2. \A p \in DOMAIN backlog : hub[backlog[p]] = "queued" /\ backlog[p] \in Socket
      BY DEF HubInv, TypeOK
    <2> QED  BY <2>1, <2>2
  <1>4. ASSUME NEW n \in Nat, NEW d \in Calls, At(n, d)'
        PROVE  At(n, d) \/ (n = last /\ d = c)
    <2>1. CASE n \in DOMAIN log' /\ log'[n].call = d
      BY <2>1 DEF At
    <2>2. CASE /\ n = Len(log') + 1
               /\ \E k \in Socket : hub'[k] = "serving" /\ toHub'[k] # <<>> /\ Head(toHub'[k]).call = d
      <3>1. PICK k \in Socket : hub'[k] = "serving" /\ toHub'[k] # <<>> /\ Head(toHub'[k]).call = d
        BY <2>2
      <3>2. hub[k] = "serving" /\ toHub[k] = toHub'[k]
        BY <1>1, <3>1 DEF TypeOK
      <3> QED  BY <2>2, <3>1, <3>2 DEF At
    <2>3. CASE \E p \in DOMAIN backlog' :
                 /\ n = Len(log') + 1 + p
                 /\ toHub'[backlog'[p]] # <<>>
                 /\ Head(toHub'[backlog'[p]]).call = d
      <3>1. PICK p \in DOMAIN backlog' :
                 /\ n = Len(log') + 1 + p
                 /\ toHub'[backlog'[p]] # <<>>
                 /\ Head(toHub'[backlog'[p]]).call = d
        BY <2>3
      <3>2. CASE p \in DOMAIN backlog
        <4>1. toHub'[backlog'[p]] = toHub[backlog[p]]
          BY <1>1, <1>2, <1>3, <3>2 DEF TypeOK
        <4> QED  BY <3>1, <3>2, <4>1 DEF At
      <3>3. CASE p = Len(backlog) + 1
        <4>1. toHub'[backlog'[p]] = cmds
          BY <1>1, <1>2, <3>3 DEF TypeOK
        <4> QED  BY <3>1, <3>3, <4>1
      <3> QED  BY <1>2, <3>1, <3>2, <3>3
    <2> QED  BY <1>4, <2>1, <2>2, <2>3 DEF At
  <1>5. ASSUME NEW n \in Nat, NEW d \in Calls, At(n, d)
        PROVE  n < last
    <2>1. n \in DOMAIN log \/ n = Len(log) + 1 \/ \E p \in DOMAIN backlog : n = Len(log) + 1 + p
      BY <1>5 DEF At
    <2> QED  BY <1>2, <2>1
  <1>6. last \in Nat
    BY <1>2
  <1> HIDE DEF last
  <1>7. ASSUME NEW n \in Nat, NEW d \in Calls, At(n, d)'
        PROVE  n < last \/ n = last
    BY <1>4, <1>5, <1>7
  <1>8. ASSUME NEW i \in Nat, NEW m \in Nat, NEW j \in Nat, NEW a \in Calls, NEW d \in Calls,
               i < m, m < j, At(i, a)', At(m, d)', At(j, a)'
        PROVE  d = a
    <2>1. i # last /\ m # last
      BY <1>6, <1>7, <1>8
    <2>2. At(i, a) /\ At(m, d)
      BY <1>4, <1>8, <2>1
    <2>3. CASE At(j, a)
      BY <1>8, <2>2, <2>3 DEF OrderInv
    <2>4. CASE a = c
      BY <1>8, <2>2, <2>4 DEF OrderInv
    <2> QED  BY <1>4, <1>8, <2>3, <2>4
  <1>9. ASSUME NEW i \in Nat, NEW j \in Nat, NEW a \in Calls, NEW d \in Calls,
               i < j, At(i, a)', At(j, d)', lock' = a
        PROVE  d = a
    <2>1. i # last
      BY <1>6, <1>7, <1>9
    <2>2. At(i, a) /\ lock = a
      BY <1>4, <1>9, <2>1
    <2>3. CASE At(j, d)
      BY <1>9, <2>2, <2>3 DEF OrderInv
    <2> QED  BY <1>4, <1>9, <2>2, <2>3
  <1> QED  BY <1>8, <1>9 DEF OrderInv

\* Who has made no attempt has nothing in the line.
LEMMA NothingSentBefore ==
    ASSUME TypeOK, WayInv, SentInv, NEW c \in Calls, attempt[c] = 0, NEW n \in Nat, At(n, c)
    PROVE  FALSE
  <1>1. \A cmd \in Command :
          cmd \in ToSet(log) \/ (\E k \in Socket : toHub[k] = <<cmd>>) => cmd.call # c
    BY DEF SentInv, Command
  <1>2. ASSUME NEW k \in Socket, toHub[k] # <<>>
        PROVE  Head(toHub[k]).call # c
    <2>1. PICK cmd \in Command : toHub[k] = <<cmd>>
      BY <1>2 DEF WayInv
    <2> QED  BY <1>1, <2>1
  <1>3. \A i \in DOMAIN log : log[i] \in Command /\ log[i] \in ToSet(log)
    BY DEF TypeOK, ToSet
  <1>4. \A p \in DOMAIN backlog : backlog[p] \in Socket
    BY DEF TypeOK
  <1> QED  BY <1>1, <1>2, <1>3, <1>4 DEF At

\* Connections queue in the order of the calls that hold the lock one after
\* the other, and the hub works through them in that order.
LEMMA OrderInductive ==
    /\ TypeOK /\ QueueInv /\ CallInv /\ LockDiscipline /\ StreamInv /\ WayInv /\ SentInv /\ HubInv /\ OrderInv
    /\ [Next]_vars
    => OrderInv'
  <1> SUFFICES ASSUME TypeOK, QueueInv, CallInv, LockDiscipline, StreamInv, WayInv, SentInv, HubInv, OrderInv,
                      [Next]_vars
               PROVE  OrderInv'
    OBVIOUS
  <1> USE DEF vars, callVars, connVars, hubVars
  <1>1. ASSUME NEW c \in Calls, Call(c)
        PROVE  OrderInv'
    <2>1. UNCHANGED <<log, hub, toHub, backlog>> /\ \A d \in Calls : lock' = d => lock = d
      BY <1>1 DEF Call
    <2> QED  BY <2>1, OrderFrame
  <1>2. ASSUME NEW c \in Calls, Acquire(c)
        PROVE  OrderInv'
    <2>1. lock' = c /\ attempt[c] = 0 /\ UNCHANGED <<log, hub, toHub, backlog>>
      BY <1>2 DEF Acquire, QueueInv, CallInv, TypeOK
    <2>2. \A i \in Nat : ~At(i, c)
      BY <2>1, NothingSentBefore
    <2> QED  BY <2>1, <2>2, OrderFrame
  <1>3. ASSUME NEW c \in Calls, ConnectedRequest(c)
        PROVE  OrderInv'
    <2>1. FreshSocket \in Socket /\ client[FreshSocket] = "unused" /\ toHub[FreshSocket] = <<>>
      BY <1>3, FreshSocketIsUnused DEF ConnectedRequest, Opened, StreamInv
    <2>2. lock = c /\ UNCHANGED <<lock, log>>
      BY <1>3 DEF ConnectedRequest, Opened, LockDiscipline
    <2>3. Connect("open", <<Frame(c)>>)
      BY <1>3 DEF ConnectedRequest, Frame
    <2>4. /\ toHub[FreshSocket] \o <<Frame(c)>> = <<Frame(c)>>
          /\ <<Frame(c)>> # <<>> => Head(<<Frame(c)>>).call = c
      BY <2>1 DEF Frame
    <2> QED  BY <2>1, <2>2, <2>3, <2>4, OrderConnect
  <1>4. ASSUME NEW c \in Calls, ConnectedOneWay(c)
        PROVE  OrderInv'
    <2>1. FreshSocket \in Socket /\ client[FreshSocket] = "unused" /\ toHub[FreshSocket] = <<>>
      BY <1>4, FreshSocketIsUnused DEF ConnectedOneWay, Opened, StreamInv
    <2>2. lock = c /\ UNCHANGED <<lock, log>>
      BY <1>4 DEF ConnectedOneWay, Opened, LockDiscipline
    <2>3. Connect("closing", <<Frame(c)>>)
      BY <1>4 DEF ConnectedOneWay, Frame
    <2>4. /\ toHub[FreshSocket] \o <<Frame(c)>> = <<Frame(c)>>
          /\ <<Frame(c)>> # <<>> => Head(<<Frame(c)>>).call = c
      BY <2>1 DEF Frame
    <2> QED  BY <2>1, <2>2, <2>3, <2>4, OrderConnect
  <1>5. ASSUME NEW c \in Calls, ConnectedProbe(c)
        PROVE  OrderInv'
    <2>1. FreshSocket \in Socket /\ client[FreshSocket] = "unused" /\ toHub[FreshSocket] = <<>>
      BY <1>5, FreshSocketIsUnused DEF ConnectedProbe, Opened, StreamInv
    <2>2. lock = c /\ UNCHANGED <<lock, log>>
      BY <1>5 DEF ConnectedProbe, Opened, LockDiscipline
    <2>3. Connect("closing", <<>>)
      BY <1>5 DEF ConnectedProbe, Frame
    <2>4. /\ toHub[FreshSocket] \o <<>> = <<>>
          /\ <<>> # <<>> => Head(<<>>).call = c
      BY <2>1 DEF Frame
    <2> QED  BY <2>1, <2>2, <2>3, <2>4, OrderConnect
  <1>6. ASSUME NEW c \in Calls, OpenFails(c)
        PROVE  OrderInv'
    <2>1. UNCHANGED <<log, hub, toHub, backlog>> /\ \A d \in Calls : lock' = d => lock = d
      BY <1>6, CallsAssumption DEF OpenFails, Leave
    <2> QED  BY <2>1, OrderFrame
  <1>7. ASSUME NEW c \in Calls, ReadReply(c)
        PROVE  OrderInv'
    <2>1. UNCHANGED <<log, hub, toHub, backlog>> /\ \A d \in Calls : lock' = d => lock = d
      BY <1>7 DEF ReadReply, CloseWith, Close, ResultOf
    <2> QED  BY <2>1, OrderFrame
  <1>8. ASSUME NEW c \in Calls, ReadEof(c)
        PROVE  OrderInv'
    <2>1. UNCHANGED <<log, hub, toHub, backlog>> /\ \A d \in Calls : lock' = d => lock = d
      BY <1>8 DEF ReadEof, CloseWith, Close
    <2> QED  BY <2>1, OrderFrame
  <1>9. ASSUME NEW c \in Calls, ConnectionLost(c)
        PROVE  OrderInv'
    <2>1. UNCHANGED <<log, hub, toHub, backlog>> /\ \A d \in Calls : lock' = d => lock = d
      BY <1>9 DEF ConnectionLost, CloseWith, Close
    <2> QED  BY <2>1, OrderFrame
  <1>10. ASSUME NEW c \in Calls, TimedOut(c)
        PROVE  OrderInv'
    <2>1. UNCHANGED <<log, hub, toHub, backlog>> /\ \A d \in Calls : lock' = d => lock = d
      BY <1>10 DEF TimedOut, CloseWith, Close
    <2> QED  BY <2>1, OrderFrame
  <1>11. ASSUME NEW c \in Calls, ClosedRetry(c)
        PROVE  OrderInv'
    <2>1. UNCHANGED <<log, hub, toHub, backlog>> /\ \A d \in Calls : lock' = d => lock = d
      BY <1>11 DEF ClosedRetry
    <2> QED  BY <2>1, OrderFrame
  <1>12. ASSUME NEW c \in Calls, ClosedFinal(c)
        PROVE  OrderInv'
    <2>1. UNCHANGED <<log, hub, toHub, backlog>> /\ \A d \in Calls : lock' = d => lock = d
      BY <1>12, CallsAssumption DEF ClosedFinal, Leave
    <2> QED  BY <2>1, OrderFrame
  <1>13. ASSUME NEW c \in Calls, CancelWaiting(c)
        PROVE  OrderInv'
    <2>1. UNCHANGED <<log, hub, toHub, backlog>> /\ \A d \in Calls : lock' = d => lock = d
      BY <1>13 DEF CancelWaiting
    <2> QED  BY <2>1, OrderFrame
  <1>14. ASSUME NEW c \in Calls, CancelOpening(c)
        PROVE  OrderInv'
    <2>1. UNCHANGED <<log, hub, toHub, backlog>> /\ \A d \in Calls : lock' = d => lock = d
      BY <1>14, CallsAssumption DEF CancelOpening, Leave
    <2> QED  BY <2>1, OrderFrame
  <1>15. ASSUME NEW c \in Calls, CancelReading(c)
        PROVE  OrderInv'
    <2>1. UNCHANGED <<log, hub, toHub, backlog>> /\ \A d \in Calls : lock' = d => lock = d
      BY <1>15 DEF CancelReading, CloseWith, Close
    <2> QED  BY <2>1, OrderFrame
  <1>16. ASSUME NEW c \in Calls, CancelClosing(c)
        PROVE  OrderInv'
    <2>1. UNCHANGED <<log, hub, toHub, backlog>> /\ \A d \in Calls : lock' = d => lock = d
      BY <1>16, CallsAssumption DEF CancelClosing, Leave
    <2> QED  BY <2>1, OrderFrame
  <1>17. ASSUME NEW k \in Socket, TransportGone(k)
        PROVE  OrderInv'
    <2>1. UNCHANGED <<log, hub, toHub, backlog>> /\ \A d \in Calls : lock' = d => lock = d
      BY <1>17 DEF TransportGone
    <2> QED  BY <2>1, OrderFrame
  <1>18. ASSUME HubAccept
        PROVE  OrderInv'
    <2> DEFINE f == [n \in Nat |-> IF n <= Len(log) THEN n ELSE n + 1]
    <2>1. /\ hub' = [hub EXCEPT ![Head(backlog)] = "serving"]
          /\ backlog' = Tail(backlog) /\ backlog # <<>>
          /\ UNCHANGED <<lock, log, toHub>>
          /\ \A k \in Socket : hub[k] # "serving"
      BY <1>18 DEF HubAccept, Busy
    <2>2. /\ DOMAIN backlog = 1..Len(backlog) /\ Len(backlog) \in Nat \ {0}
          /\ DOMAIN backlog' = 1..(Len(backlog) - 1)
          /\ \A p \in DOMAIN backlog' : backlog'[p] = backlog[p + 1] /\ p + 1 \in DOMAIN backlog
          /\ Head(backlog) = backlog[1] /\ backlog[1] \in Socket
      BY <2>1 DEF TypeOK
    <2>3. Len(log) \in Nat /\ DOMAIN log = 1..Len(log)
      BY DEF TypeOK
    <2>4. ASSUME NEW n \in Nat, NEW d \in Calls, At(n, d)'
          PROVE  At(f[n], d)
      <3>1. CASE n \in DOMAIN log' /\ log'[n].call = d
        BY <2>1, <2>3, <3>1 DEF At
      <3>2. CASE /\ n = Len(log') + 1
                 /\ \E k \in Socket : hub'[k] = "serving" /\ toHub'[k] # <<>> /\ Head(toHub'[k]).call = d
        <4>1. toHub[backlog[1]] # <<>> /\ Head(toHub[backlog[1]]).call = d
          BY <2>1, <2>2, <3>2 DEF TypeOK
        <4>2. n = Len(log) + 1
          BY <2>1, <3>2
        <4>3. f[n] = Len(log) + 1 + 1 /\ 1 \in DOMAIN backlog
          BY <2>2, <2>3, <4>2
        <4> QED  BY <4>1, <4>3 DEF At
      <3>3. CASE \E p \in DOMAIN backlog' :
                   /\ n = Len(log') + 1 + p
                   /\ toHub'[backlog'[p]] # <<>>
                   /\ Head(toHub'[backlog'[p]]).call = d
        <4>1. PICK p \in DOMAIN backlog' :
                   /\ n = Len(log') + 1 + p
                   /\ toHub'[backlog'[p]] # <<>>
                   /\ Head(toHub'[backlog'[p]]).call = d
          BY <3>3
        <4>2. n = Len(log) + 1 + p /\ p \in Nat \ {0} /\ p + 1 \in DOMAIN backlog
          <5>1. p \in Nat \ {0} /\ p + 1 \in DOMAIN backlog
            BY <2>2, <4>1
          <5>2. n = Len(log) + 1 + p
            BY <2>1, <4>1
          <5> QED  BY <5>1, <5>2
        <4>4. f[n] = Len(log) + 1 + (p + 1)
          BY <2>3, <4>2
        <4>3. toHub[backlog[p + 1]] # <<>> /\ Head(toHub[backlog[p + 1]]).call = d
          BY <2>1, <2>2, <4>1
        <4> QED  BY <4>2, <4>3, <4>4 DEF At
      <3> QED  BY <2>4, <3>1, <3>2, <3>3 DEF At
    <2>5. \A i \in Nat : f[i] \in Nat
      OBVIOUS
    <2>6. \A i, j \in Nat : i < j => f[i] < f[j]
      BY <2>3
    <2> HIDE DEF f
    <2> QED  BY <2>1, <2>4, <2>5, <2>6, OrderShift
  <1>19. ASSUME NEW k \in Socket, HubServe(k)
        PROVE  OrderInv'
    <2> DEFINE f == [n \in Nat |-> IF n <= Len(log) + 1 THEN n ELSE n - 1]
    <2>1. PICK cmd \in Command : toHub[k] = <<cmd>>
      BY <1>19 DEF HubServe, WayInv
    <2>2. Head(toHub[k]) = cmd /\ Tail(toHub[k]) = <<>> /\ toHub[k] # <<>>
      BY <2>1
    <2>3. /\ toHub' = [toHub EXCEPT ![k] = <<>>]
          /\ log' = Append(log, cmd)
          /\ hub[k] = "serving"
          /\ \A l \in Socket : hub'[l] = "serving" => hub[l] = "serving"
          /\ UNCHANGED <<lock, backlog>>
      BY <1>19, <2>2 DEF HubServe, TypeOK
    <2>4. /\ Len(log) \in Nat /\ Len(log') = Len(log) + 1
          /\ DOMAIN log = 1..Len(log)
          /\ DOMAIN log' = 1..(Len(log) + 1)
          /\ \A i \in 1..Len(log) : log'[i] = log[i]
          /\ log'[Len(log) + 1] = cmd
      BY <2>3, AppendProperties DEF TypeOK
    <2>5. ASSUME NEW n \in Nat, NEW d \in Calls, At(n, d)'
          PROVE  At(f[n], d) /\ n # Len(log) + 2
      <3>1. CASE n \in DOMAIN log' /\ log'[n].call = d
        <4>1. n \in 1..(Len(log) + 1) /\ f[n] = n
          BY <2>4, <3>1
        <4>2. CASE n \in 1..Len(log)
          BY <2>4, <3>1, <4>1, <4>2 DEF At
        <4>3. CASE n = Len(log) + 1
          <5>1. cmd.call = d
            BY <2>4, <3>1, <4>3
          <5> QED  BY <2>2, <2>3, <4>1, <4>3, <5>1 DEF At
        <4> QED  BY <2>4, <4>1, <4>2, <4>3
      <3>2. CASE /\ n = Len(log') + 1
                 /\ \E l \in Socket : hub'[l] = "serving" /\ toHub'[l] # <<>> /\ Head(toHub'[l]).call = d
        <4>1. PICK l \in Socket : hub'[l] = "serving" /\ toHub'[l] # <<>>
          BY <3>2
        <4>2. l = k
          BY <2>3, <4>1 DEF HubInv
        <4> QED  BY <2>3, <4>1, <4>2 DEF TypeOK
      <3>3. CASE \E p \in DOMAIN backlog' :
                   /\ n = Len(log') + 1 + p
                   /\ toHub'[backlog'[p]] # <<>>
                   /\ Head(toHub'[backlog'[p]]).call = d
        <4>0. PICK p \in DOMAIN backlog' :
                   /\ n = Len(log') + 1 + p
                   /\ toHub'[backlog'[p]] # <<>>
                   /\ Head(toHub'[backlog'[p]]).call = d
          BY <3>3
        <4>1. /\ p \in DOMAIN backlog /\ p \in Nat
              /\ n = Len(log) + 2 + p
              /\ toHub'[backlog[p]] # <<>>
              /\ Head(toHub'[backlog[p]]).call = d
          <5>1. p \in DOMAIN backlog /\ p \in Nat
            BY <2>3, <4>0 DEF TypeOK
          <5>2. n = Len(log) + 2 + p
            BY <2>4, <4>0, <5>1
          <5> QED  BY <2>3, <4>0, <5>1, <5>2
        <4>2. backlog[p] # k /\ backlog[p] \in Socket /\ p \in Nat \ {0}
          BY <2>3 DEF HubInv, TypeOK
        <4>3. toHub[backlog[p]] = toHub'[backlog[p]]
          BY <2>3, <4>2 DEF TypeOK
        <4>4. f[n] = Len(log) + 1 + p /\ n # Len(log) + 2
          BY <2>4, <4>1, <4>2
        <4> QED  BY <4>1, <4>3, <4>4 DEF At
      <3> QED  BY <2>5, <3>1, <3>2, <3>3 DEF At
    <2>6. \A i \in Nat : f[i] \in Nat
      BY <2>4
    <2>7. \A i, j \in Nat : i < j /\ i # Len(log) + 2 /\ j # Len(log) + 2 => f[i] < f[j]
      BY <2>4
    <2> HIDE DEF f
    <2>8. \A i, j \in Nat, a, d \in Calls : i < j /\ At(i, a)' /\ At(j, d)' => f[i] < f[j]
      BY <2>5, <2>7
    <2> QED  BY <2>3, <2>5, <2>6, <2>8, OrderShift
  <1>20. ASSUME NEW k \in Socket, HubSeesClose(k)
        PROVE  OrderInv'
    <2> DEFINE f == [n \in Nat |-> n]
    <2>1. /\ \A l \in Socket : hub'[l] = "serving" => hub[l] = "serving"
          /\ UNCHANGED <<lock, log, toHub, backlog>>
      BY <1>20 DEF HubSeesClose, TypeOK
    <2>2. ASSUME NEW n \in Nat, NEW d \in Calls, At(n, d)'
          PROVE  At(n, d)
      BY <2>1, <2>2 DEF At
    <2>3. \A n \in Nat : f[n] = n
      OBVIOUS
    <2> HIDE DEF f
    <2> QED  BY <2>1, <2>2, <2>3, OrderShift
  <1>21. ASSUME HubReboot
        PROVE  OrderInv'
    <2> DEFINE f == [n \in Nat |-> n]
    <2>1. /\ \A k \in Socket : hub'[k] # "serving"
          /\ backlog' = <<>>
          /\ UNCHANGED <<lock, log>>
      BY <1>21 DEF HubReboot
    <2>2. ASSUME NEW n \in Nat, NEW d \in Calls, At(n, d)'
          PROVE  At(n, d)
      BY <2>1, <2>2 DEF At
    <2>3. \A n \in Nat : f[n] = n
      OBVIOUS
    <2> HIDE DEF f
    <2> QED  BY <2>1, <2>2, <2>3, OrderShift
  <1>22. CASE UNCHANGED vars
    <2>1. UNCHANGED <<log, hub, toHub, backlog>> /\ \A d \in Calls : lock' = d => lock = d
      BY <1>22 DEF vars
    <2> QED  BY <2>1, OrderFrame
  <1> QED
    BY <1>1, <1>2, <1>3, <1>4, <1>5, <1>6, <1>7, <1>8, <1>9, <1>10, <1>11, <1>12, <1>13, <1>14,
       <1>15, <1>16, <1>17, <1>18, <1>19, <1>20, <1>21, <1>22 DEF Next, ClientStep, HubStep

-------------------------------------------------------------------------------
(***************************************************************************)
(* The inductive invariant and the theorems.                               *)
(***************************************************************************)
IInv ==
    /\ TypeOK
    /\ QueueInv
    /\ CallInv
    /\ LockDiscipline
    /\ SocketInv
    /\ StreamInv
    /\ WayInv
    /\ SentInv
    /\ AnswerIsOwn
    /\ OncePerAttempt
    /\ HubInv
    /\ KindInv
    /\ OrderInv

\* An idle transport with nothing sent satisfies the inductive invariant.
LEMMA InitInv == Init => IInv
  <1> SUFFICES ASSUME Init
               PROVE  IInv
    OBVIOUS
  <1> USE DEF Init
  <1>1. TypeOK
    BY AttemptsAssumption, EmptySeq DEF TypeOK, Results
  <1>2. QueueInv /\ CallInv /\ LockDiscipline
    BY CallsAssumption DEF QueueInv, CallInv, LockDiscipline
  <1>3. SocketInv /\ StreamInv /\ AnswerIsOwn
    BY DEF SocketInv, SocketDiscipline, StreamInv, AnswerIsOwn
  <1>4. ToSet(log) = {} /\ OncePerAttempt
    BY DEF ToSet, OncePerAttempt
  <1>5. WayInv /\ SentInv
    BY <1>4, Singletons DEF WayInv, SentInv
  <1>6. HubInv /\ KindInv
    BY <1>4, Singletons DEF HubInv, KindInv
  <1>7. OrderInv
    BY DEF OrderInv, At
  <1> QED  BY <1>1, <1>2, <1>3, <1>4, <1>5, <1>6, <1>7 DEF IInv

\* The parts of the invariant carry each other through every step.
LEMMA NextInv == IInv /\ [Next]_vars => IInv'
  BY TypeInductive, QueueInductive, CallInductive, LockInductive, SocketInductive,
     StreamInductive, WayInductive, SentInductive, AnswerInductive, OnceInductive,
     HubInductive, KindInductive, OrderInductive DEF IInv

\* The inductive invariant holds throughout.
LEMMA Invariance == Spec => []IInv
  BY InitInv, NextInv, PTL DEF Spec

\* Type correctness, for any number of calls, attempts and sockets.
THEOREM TypeCorrect == Spec => []TypeOK
  <1>1. IInv => TypeOK
    BY DEF IInv
  <1> QED  BY <1>1, Invariance, PTL

\* The lock is held by exactly the task between acquiring and leaving it.
THEOREM LockIsDisciplined == Spec => []LockDiscipline
  <1>1. IInv => LockDiscipline
    BY DEF IInv
  <1> QED  BY <1>1, Invariance, PTL

\* At most one client socket is open, and no path leaks one.
THEOREM SocketIsDisciplined == Spec => []SocketDiscipline
  <1>1. IInv => SocketDiscipline
    BY DEF IInv, SocketInv
  <1> QED  BY <1>1, Invariance, PTL

\* No call ever returns another command's reply: the stream cannot get out of
\* step, whatever is late, lost, cancelled or retried.
THEOREM AnswersAreOwn == Spec => []AnswerIsOwn
  <1>1. IInv => AnswerIsOwn
    BY DEF IInv
  <1> QED  BY <1>1, Invariance, PTL

\* No frame is executed twice, so max_attempts bounds the executions of a call.
THEOREM ExecutedOncePerAttempt == Spec => []OncePerAttempt
  <1>1. IInv => OncePerAttempt
    BY DEF IInv
  <1> QED  BY <1>1, Invariance, PTL

\* Executions of one call are never separated by another call's: the line of
\* commands is in the order of the calls, and the log is its beginning.
THEOREM ExecutionsDoNotInterleave == Spec => []NoInterleaving
  <1>1. IInv => NoInterleaving
    <2> SUFFICES ASSUME TypeOK, OrderInv,
                        NEW i \in DOMAIN log, NEW j \in DOMAIN log, NEW m \in i..j,
                        i < j, log[i].call = log[j].call
                 PROVE  log[m].call = log[i].call
      BY DEF IInv, NoInterleaving
    <2>1. DOMAIN log = 1..Len(log) /\ Len(log) \in Nat
      BY DEF TypeOK
    <2>2. m \in DOMAIN log /\ i \in Nat /\ m \in Nat /\ j \in Nat
      BY <2>1
    <2>3. log[i].call \in Calls /\ log[m].call \in Calls
      <3>1. log[i] \in Command /\ log[m] \in Command
        BY <2>1, <2>2 DEF TypeOK
      <3> QED  BY <3>1 DEF Command
    <2>4. At(i, log[i].call) /\ At(m, log[m].call) /\ At(j, log[i].call)
      BY <2>2 DEF At
    <2>5. CASE i < m /\ m < j
      BY <2>2, <2>3, <2>4, <2>5 DEF OrderInv
    <2>6. CASE m = i \/ m = j
      BY <2>6
    <2> QED  BY <2>2, <2>5, <2>6
  <1> QED  BY <1>1, Invariance, PTL

-------------------------------------------------------------------------------
(***************************************************************************)
(* The transport implements RpcService.                                    *)
(***************************************************************************)
\* A step of one call is a step of its status alone.
LEMMA StatusOfOne ==
    ASSUME NEW c \in Calls, \A d \in Calls \ {c} : pc'[d] = pc[d] /\ result'[d] = result[d]
    PROVE  statusBar' = [statusBar EXCEPT ![c] = statusBar'[c]]
  <1>1. \A d \in Calls \ {c} : statusBar'[d] = statusBar[d]
    BY DEF statusBar
  <1>2. statusBar = [d \in Calls |-> statusBar[d]] /\ statusBar' = [d \in Calls |-> statusBar'[d]]
    BY DEF statusBar
  <1> QED  BY <1>1, <1>2

\* What a caller sees of a call that is under way.
LEMMA StatusPending ==
    ASSUME NEW c \in Calls, pc[c] \in {"waiting", "opening", "reading", "closing"}
    PROVE  statusBar[c] = "pending"
  BY DEF statusBar

\* A step between two stages of a call under way shows in nothing.
LEMMA StatusHidden ==
    ASSUME NEW c \in Calls, \A d \in Calls \ {c} : pc'[d] = pc[d] /\ result'[d] = result[d],
           pc[c] \in {"waiting", "opening", "reading", "closing"},
           pc'[c] \in {"waiting", "opening", "reading", "closing"},
           log' = log
    PROVE  UNCHANGED <<statusBar, runsBar>>
  <1>1. statusBar[c] = "pending" /\ statusBar'[c] = "pending"
    BY DEF statusBar
  <1>2. statusBar' = [statusBar EXCEPT ![c] = "pending"]
    BY <1>1, StatusOfOne
  <1>3. statusBar = [d \in Calls |-> statusBar[d]]
    BY DEF statusBar
  <1>4. statusBar' = statusBar
    BY <1>1, <1>2, <1>3
  <1>5. runsBar' = runsBar
    BY DEF runsBar
  <1> QED  BY <1>4, <1>5

\* A call that ends without a reply of its own fails.
LEMMA StatusFails ==
    ASSUME NEW c \in Calls, \A d \in Calls \ {c} : pc'[d] = pc[d] /\ result'[d] = result[d],
           pc[c] \in {"waiting", "opening", "reading", "closing"},
           pc'[c] = "done", result'[c] \notin {"answer", "ack"},
           log' = log
    PROVE  Rpc!Fail(c)
  <1>1. statusBar[c] = "pending" /\ statusBar'[c] = "failed"
    BY DEF statusBar
  <1>2. statusBar' = [statusBar EXCEPT ![c] = "failed"]
    BY <1>1, StatusOfOne
  <1>3. runsBar' = runsBar
    BY DEF runsBar
  <1> QED  BY <1>1, <1>2, <1>3 DEF Rpc!Fail

\* The calls in the log, as the abstract executor sees them.
LEMMA RunsOf ==
    ASSUME log \in Seq(Command)
    PROVE  /\ runsBar \in Seq(Calls)
           /\ Len(runsBar) = Len(log) /\ Len(log) \in Nat
           /\ DOMAIN runsBar = 1..Len(log) /\ DOMAIN log = 1..Len(log)
           /\ \A i \in 1..Len(log) : runsBar[i] = log[i].call
  <1>1. Len(log) \in Nat /\ DOMAIN log = 1..Len(log) /\ \A i \in 1..Len(log) : log[i].call \in Calls
    <2>1. \A i \in 1..Len(log) : log[i] \in Command
      OBVIOUS
    <2> QED  BY <2>1 DEF Command
  <1>2. runsBar = [i \in 1..Len(log) |-> log[i].call]
    BY <1>1 DEF runsBar
  <1> QED  BY <1>1, <1>2

\* Different attempts are counted: with one of the allowed numbers still to
\* come, a call has run less often than allowed.
LEMMA AttemptsLeft ==
    ASSUME NEW T, NEW limit \in Nat, NEW now \in 1..limit, NEW f,
           \A i \in T : f[i] \in 1..limit /\ f[i] # now,
           \A i, j \in T : f[i] = f[j] => i = j
    PROVE  Cardinality(T) < limit
  <1> DEFINE others == (1..limit) \ {now}
             g == [i \in T |-> f[i]]
  <1>1. IsFiniteSet(1..limit) /\ Cardinality(1..limit) = limit
    BY FS_Interval
  <1>2. IsFiniteSet(others) /\ Cardinality(others) = limit - 1
    BY <1>1, FS_RemoveElement
  <1>3. g \in Injection(T, others)
    BY DEF Injection, IsInjective
  <1> HIDE DEF others, g
  <1>4. IsFiniteSet(T) /\ Cardinality(T) <= Cardinality(others)
    BY <1>2, <1>3, FS_Injection
  <1>5. Cardinality(T) \in Nat
    BY <1>4, FS_CardinalityType
  <1> QED  BY <1>2, <1>4, <1>5

\* The hub's work is the abstract executor's: a call that was submitted, that
\* has executions left, and that nothing has come after.
LEMMA ServeExecutes ==
    ASSUME IInv, NEW k \in Socket, HubServe(k)
    PROVE  \E c \in Calls : Rpc!Execute(c)
  <1> USE DEF IInv
  <1>1. PICK cmd \in Command : toHub[k] = <<cmd>>
    BY DEF HubServe, WayInv
  <1>2. /\ log' = Append(log, cmd)
        /\ hub[k] = "serving"
        /\ UNCHANGED <<pc, result>>
    BY <1>1 DEF HubServe, callVars
  <1>3. cmd.call \in Calls /\ cmd.attempt \in 1..MaxAttempts
    BY DEF Command
  <1> DEFINE c == cmd.call
             T == {i \in DOMAIN runsBar : runsBar[i] = c}
  <1>4. /\ runsBar \in Seq(Calls)
        /\ Len(runsBar) = Len(log) /\ Len(log) \in Nat
        /\ DOMAIN runsBar = 1..Len(log) /\ DOMAIN log = 1..Len(log)
        /\ \A i \in 1..Len(log) : runsBar[i] = log[i].call
    BY RunsOf DEF TypeOK
  <1>5. runsBar' = Append(runsBar, c)
    <2>1. /\ DOMAIN log' = 1..(Len(log) + 1)
          /\ \A i \in 1..Len(log) : log'[i] = log[i]
          /\ log'[Len(log) + 1] = cmd
      BY <1>2, AppendProperties DEF TypeOK
    <2>2. runsBar' = [i \in 1..(Len(log) + 1) |-> log'[i].call]
      BY <2>1 DEF runsBar
    <2>3. Append(runsBar, c) = [i \in 1..(Len(log) + 1) |-> IF i = Len(log) + 1 THEN c ELSE runsBar[i]]
      BY <1>4
    <2>4. ASSUME NEW i \in 1..(Len(log) + 1)
          PROVE  log'[i].call = IF i = Len(log) + 1 THEN c ELSE runsBar[i]
      BY <1>4, <2>1
    <2> QED  BY <2>2, <2>3, <2>4
  <1>6. statusBar' = statusBar
    BY <1>2 DEF statusBar
  <1>7. statusBar[c] # "idle"
    <2>1. cmd.attempt <= attempt[c]
      BY <1>1, <1>3 DEF SentInv
    <2>2. pc[c] # "idle"
      BY <1>3, <2>1 DEF CallInv
    <2> QED  BY <1>3, <2>2 DEF statusBar
  <1>8. c \in ToSet(runsBar) => c = Last(runsBar)
    <2> SUFFICES ASSUME c \in ToSet(runsBar)
                 PROVE  c = runsBar[Len(log)]
      BY <1>4 DEF Last
    <2>1. PICK i \in 1..Len(log) : runsBar[i] = c
      BY <1>4 DEF ToSet
    <2>2. Len(log) \in DOMAIN log /\ log[Len(log)].call \in Calls
      <3>1. log[Len(log)] \in Command /\ Len(log) \in DOMAIN log
        BY <1>4, <2>1 DEF TypeOK
      <3> QED  BY <3>1 DEF Command
    <2>3. At(i, c) /\ At(Len(log), log[Len(log)].call)
      BY <1>4, <2>1, <2>2 DEF At
    <2>4. At(Len(log) + 1, c)
      <3>1. toHub[k] # <<>> /\ Head(toHub[k]).call = c
        BY <1>1
      <3> QED  BY <1>2, <3>1 DEF At
    <2>5. CASE i < Len(log)
      <3>1. log[Len(log)].call = c
        BY <1>3, <1>4, <2>2, <2>3, <2>4, <2>5 DEF OrderInv
      <3> QED  BY <1>4, <2>2, <3>1
    <2>6. CASE i = Len(log)
      BY <2>1, <2>6
    <2>7. i < Len(log) \/ i = Len(log)
      <3>1. Len(log) \in Nat /\ i \in 1..Len(log)
        BY <1>4
      <3> QED  BY <3>1
    <2> QED  BY <2>5, <2>6, <2>7
  <1>9. limitBar[c] \in Nat /\ cmd.attempt \in 1..limitBar[c]
    <2>1. cmd.attempt <= attempt[c] /\ c \notin Probes
      BY <1>1, <1>3 DEF SentInv, KindInv
    <2>2. CASE c \in Requests
      BY <1>3, <2>2, AttemptsAssumption DEF limitBar
    <2>3. CASE c \in OneWays
      <3>1. c \notin Requests
        BY <2>3, CallsAssumption
      <3>2. limitBar[c] = 1 /\ attempt[c] <= 1
        BY <1>3, <2>3, <3>1 DEF limitBar, KindInv
      <3>3. attempt[c] \in Nat
        BY <1>3, AttemptsAssumption DEF TypeOK
      <3> QED  BY <1>3, <2>1, <3>2, <3>3
    <2> QED  BY <1>3, <2>1, <2>2, <2>3 DEF Calls
  <1>10. ASSUME NEW i \in T
         PROVE  log[i] \in Command /\ log[i].call = c /\ log[i] # cmd /\ log[i].attempt \in 1..limitBar[c]
    <2>1. i \in DOMAIN log /\ log[i] \in Command /\ log[i].call = c /\ log[i] \in ToSet(log)
      BY <1>4 DEF TypeOK, ToSet
    <2>2. log[i] # cmd
      BY <1>1, <2>1 DEF WayInv
    <2>3. log[i].attempt <= attempt[c] /\ log[i].attempt \in 1..MaxAttempts
      <3>1. log[i].attempt <= attempt[log[i].call]
        BY <2>1, Zenon DEF SentInv
      <3> QED  BY <2>1, <3>1 DEF Command
    <2>4. CASE c \in Requests
      <3>1. limitBar[c] = MaxAttempts
        BY <1>3, <2>4 DEF limitBar
      <3> QED  BY <2>1, <2>2, <2>3, <3>1
    <2>5. CASE c \notin Requests
      <3>1. attempt[c] <= 1 /\ attempt[c] \in Nat
        BY <1>3, <2>5, AttemptsAssumption DEF KindInv, TypeOK
      <3>2. 1 <= limitBar[c]
        BY <1>9
      <3> QED  BY <1>9, <2>1, <2>2, <2>3, <3>1, <3>2
    <2> QED  BY <2>1, <2>2, <2>4, <2>5
  <1>11. Rpc!Times(c) < limitBar[c]
    <2> DEFINE f == [i \in T |-> log[i].attempt]
    <2>1. \A i \in T : f[i] \in 1..limitBar[c] /\ f[i] # cmd.attempt
      <3>1. \A a, b \in Command : a.call = b.call /\ a.attempt = b.attempt => a = b
        BY DEF Command
      <3> QED  BY <1>10, <3>1
    <2>2. ASSUME NEW i \in T, NEW j \in T, f[i] = f[j]
          PROVE  i = j
      <3>1. log[i] \in Command /\ log[j] \in Command /\ log[i].call = log[j].call /\ log[i].attempt = log[j].attempt
        BY <1>10, <2>2
      <3>2. log[i] = log[j]
        BY <3>1 DEF Command
      <3> QED  BY <1>4, <3>2 DEF OncePerAttempt
    <2> HIDE DEF f
    <2>3. Cardinality(T) < limitBar[c]
      <3> HIDE DEF T, c
      <3> QED  BY <1>9, <2>1, <2>2, AttemptsLeft
    <2>4. Rpc!Cardinality(T) = Cardinality(T)
      BY DEF Rpc!Cardinality, Cardinality
    <2> QED  BY <2>3, <2>4 DEF Rpc!Times
  <1>12. c \in Rpc!ToSet(runsBar) => c = Rpc!Last(runsBar)
    BY <1>8 DEF Rpc!ToSet, Rpc!Last, ToSet, Last
  <1>13. Rpc!Execute(c)
    BY <1>5, <1>6, <1>7, <1>11, <1>12 DEF Rpc!Execute
  <1> QED  BY <1>3, <1>13

\* An idle transport is an idle executor.
LEMMA RpcInit == Init => Rpc!Init
  <1> SUFFICES ASSUME Init
               PROVE  Rpc!Init
    OBVIOUS
  <1>1. statusBar = [c \in Calls |-> "idle"]
    BY DEF Init, statusBar
  <1>2. runsBar = <<>>
    <2>1. log = <<>> /\ log \in Seq(Command)
      BY EmptySeq DEF Init
    <2> QED  BY <2>1, RunsOf
  <1> QED  BY <1>1, <1>2 DEF Rpc!Init

\* Every step of the transport is a step of the abstract executor, or hidden
\* from it.
LEMMA RpcStep == IInv /\ [Next]_vars => [Rpc!Next]_<<statusBar, runsBar>>
  <1> SUFFICES ASSUME IInv, [Next]_vars
               PROVE  Rpc!Next \/ UNCHANGED <<statusBar, runsBar>>
    OBVIOUS
  <1> USE DEF vars, callVars, connVars, hubVars
  <1>0. TypeOK /\ QueueInv /\ AnswerIsOwn
    BY DEF IInv
  <1> USE <1>0 DEF TypeOK
  <1>1. ASSUME NEW c \in Calls, Call(c)
        PROVE  Rpc!Next \/ UNCHANGED <<statusBar, runsBar>>
    <2>1. (\A e \in Calls \ {c} : pc'[e] = pc[e] /\ result'[e] = result[e]) /\ log' = log
      BY <1>1 DEF Call
    <2>2. statusBar[c] = "idle" /\ statusBar'[c] = "pending"
      BY <1>1 DEF Call, statusBar
    <2>3. statusBar' = [statusBar EXCEPT ![c] = "pending"]
      BY <2>1, <2>2, StatusOfOne
    <2>4. runsBar' = runsBar
      BY <2>1 DEF runsBar
    <2> QED  BY <2>2, <2>3, <2>4 DEF Rpc!Next, Rpc!Submit
  <1>2. ASSUME NEW c \in Calls, Acquire(c)
        PROVE  Rpc!Next \/ UNCHANGED <<statusBar, runsBar>>
    <2>1. (\A e \in Calls \ {c} : pc'[e] = pc[e] /\ result'[e] = result[e]) /\ log' = log
      BY <1>2 DEF Acquire
    <2>2. /\ pc[c] \in {"waiting", "opening", "reading", "closing"}
          /\ pc'[c] \in {"waiting", "opening", "reading", "closing"}
      BY <1>2 DEF Acquire, QueueInv
    <2> QED  BY <2>1, <2>2, StatusHidden
  <1>3. ASSUME NEW c \in Calls, ConnectedRequest(c)
        PROVE  Rpc!Next \/ UNCHANGED <<statusBar, runsBar>>
    <2>1. (\A e \in Calls \ {c} : pc'[e] = pc[e] /\ result'[e] = result[e]) /\ log' = log
      BY <1>3 DEF ConnectedRequest, Opened, Connect
    <2>2. /\ pc[c] \in {"waiting", "opening", "reading", "closing"}
          /\ pc'[c] \in {"waiting", "opening", "reading", "closing"}
      BY <1>3 DEF ConnectedRequest, Opened, Connect
    <2> QED  BY <2>1, <2>2, StatusHidden
  <1>4. ASSUME NEW c \in Calls, ConnectedOneWay(c)
        PROVE  Rpc!Next \/ UNCHANGED <<statusBar, runsBar>>
    <2>1. (\A e \in Calls \ {c} : pc'[e] = pc[e] /\ result'[e] = result[e]) /\ log' = log
      BY <1>4 DEF ConnectedOneWay, Opened, Connect
    <2>2. /\ pc[c] \in {"waiting", "opening", "reading", "closing"}
          /\ pc'[c] \in {"waiting", "opening", "reading", "closing"}
      BY <1>4 DEF ConnectedOneWay, Opened, Connect
    <2> QED  BY <2>1, <2>2, StatusHidden
  <1>5. ASSUME NEW c \in Calls, ConnectedProbe(c)
        PROVE  Rpc!Next \/ UNCHANGED <<statusBar, runsBar>>
    <2>1. (\A e \in Calls \ {c} : pc'[e] = pc[e] /\ result'[e] = result[e]) /\ log' = log
      BY <1>5 DEF ConnectedProbe, Opened, Connect
    <2>2. /\ pc[c] \in {"waiting", "opening", "reading", "closing"}
          /\ pc'[c] \in {"waiting", "opening", "reading", "closing"}
      BY <1>5 DEF ConnectedProbe, Opened, Connect
    <2> QED  BY <2>1, <2>2, StatusHidden
  <1>6. ASSUME NEW c \in Calls, OpenFails(c)
        PROVE  Rpc!Next \/ UNCHANGED <<statusBar, runsBar>>
    <2>1. (\A e \in Calls \ {c} : pc'[e] = pc[e] /\ result'[e] = result[e]) /\ log' = log
      BY <1>6 DEF OpenFails, Leave
    <2>2. /\ pc[c] \in {"waiting", "opening", "reading", "closing"}
          /\ pc'[c] = "done" /\ result'[c] \notin {"answer", "ack"}
      BY <1>6 DEF OpenFails, Leave
    <2> QED  BY <2>1, <2>2, StatusFails DEF Rpc!Next
  <1>7. ASSUME NEW c \in Calls, ReadReply(c)
        PROVE  Rpc!Next \/ UNCHANGED <<statusBar, runsBar>>
    <2>1. (\A e \in Calls \ {c} : pc'[e] = pc[e] /\ result'[e] = result[e]) /\ log' = log
      BY <1>7 DEF ReadReply, CloseWith, Close, ResultOf
    <2>2. /\ pc[c] \in {"waiting", "opening", "reading", "closing"}
          /\ pc'[c] \in {"waiting", "opening", "reading", "closing"}
      BY <1>7 DEF ReadReply, CloseWith, Close, ResultOf
    <2> QED  BY <2>1, <2>2, StatusHidden
  <1>8. ASSUME NEW c \in Calls, ReadEof(c)
        PROVE  Rpc!Next \/ UNCHANGED <<statusBar, runsBar>>
    <2>1. (\A e \in Calls \ {c} : pc'[e] = pc[e] /\ result'[e] = result[e]) /\ log' = log
      BY <1>8 DEF ReadEof, CloseWith, Close
    <2>2. /\ pc[c] \in {"waiting", "opening", "reading", "closing"}
          /\ pc'[c] \in {"waiting", "opening", "reading", "closing"}
      BY <1>8 DEF ReadEof, CloseWith, Close
    <2> QED  BY <2>1, <2>2, StatusHidden
  <1>9. ASSUME NEW c \in Calls, ConnectionLost(c)
        PROVE  Rpc!Next \/ UNCHANGED <<statusBar, runsBar>>
    <2>1. (\A e \in Calls \ {c} : pc'[e] = pc[e] /\ result'[e] = result[e]) /\ log' = log
      BY <1>9 DEF ConnectionLost, CloseWith, Close
    <2>2. /\ pc[c] \in {"waiting", "opening", "reading", "closing"}
          /\ pc'[c] \in {"waiting", "opening", "reading", "closing"}
      BY <1>9 DEF ConnectionLost, CloseWith, Close
    <2> QED  BY <2>1, <2>2, StatusHidden
  <1>10. ASSUME NEW c \in Calls, TimedOut(c)
        PROVE  Rpc!Next \/ UNCHANGED <<statusBar, runsBar>>
    <2>1. (\A e \in Calls \ {c} : pc'[e] = pc[e] /\ result'[e] = result[e]) /\ log' = log
      BY <1>10 DEF TimedOut, CloseWith, Close
    <2>2. /\ pc[c] \in {"waiting", "opening", "reading", "closing"}
          /\ pc'[c] \in {"waiting", "opening", "reading", "closing"}
      BY <1>10 DEF TimedOut, CloseWith, Close
    <2> QED  BY <2>1, <2>2, StatusHidden
  <1>11. ASSUME NEW c \in Calls, ClosedRetry(c)
        PROVE  Rpc!Next \/ UNCHANGED <<statusBar, runsBar>>
    <2>1. (\A e \in Calls \ {c} : pc'[e] = pc[e] /\ result'[e] = result[e]) /\ log' = log
      BY <1>11 DEF ClosedRetry
    <2>2. /\ pc[c] \in {"waiting", "opening", "reading", "closing"}
          /\ pc'[c] \in {"waiting", "opening", "reading", "closing"}
      BY <1>11 DEF ClosedRetry
    <2> QED  BY <2>1, <2>2, StatusHidden
  <1>12. ASSUME NEW c \in Calls, ClosedFinal(c)
        PROVE  Rpc!Next \/ UNCHANGED <<statusBar, runsBar>>
    <2>1. (\A e \in Calls \ {c} : pc'[e] = pc[e] /\ result'[e] = result[e]) /\ log' = log
      BY <1>12 DEF ClosedFinal, Leave
    <2>2. /\ pc[c] = "closing" /\ pc'[c] = "done"
          /\ result'[c] = IF result[c] = "retry" THEN "connection" ELSE result[c]
      BY <1>12 DEF ClosedFinal, Leave
    <2>3. CASE result[c] \notin {"answer", "ack"}
      BY <2>1, <2>2, <2>3, StatusFails DEF Rpc!Next
    <2>4. CASE result[c] \in {"answer", "ack"}
      <3>1. statusBar[c] = "pending" /\ statusBar'[c] = "answered"
        BY <2>2, <2>4 DEF statusBar
      <3>2. statusBar' = [statusBar EXCEPT ![c] = "answered"]
        BY <2>1, <3>1, StatusOfOne
      <3>3. runsBar' = runsBar
        BY <2>1 DEF runsBar
      <3>4. c \in Rpc!ToSet(runsBar)
        <4>1. PICK i \in DOMAIN log : log[i].call = c
          BY <2>4 DEF AnswerIsOwn, ToSet
        <4> QED  BY <4>1, RunsOf DEF Rpc!ToSet
      <3> QED  BY <3>1, <3>2, <3>3, <3>4 DEF Rpc!Next, Rpc!Answer
    <2> QED  BY <2>3, <2>4
  <1>13. ASSUME NEW c \in Calls, CancelWaiting(c)
        PROVE  Rpc!Next \/ UNCHANGED <<statusBar, runsBar>>
    <2>1. (\A e \in Calls \ {c} : pc'[e] = pc[e] /\ result'[e] = result[e]) /\ log' = log
      BY <1>13 DEF CancelWaiting
    <2>2. /\ pc[c] \in {"waiting", "opening", "reading", "closing"}
          /\ pc'[c] = "done" /\ result'[c] \notin {"answer", "ack"}
      BY <1>13 DEF CancelWaiting
    <2> QED  BY <2>1, <2>2, StatusFails DEF Rpc!Next
  <1>14. ASSUME NEW c \in Calls, CancelOpening(c)
        PROVE  Rpc!Next \/ UNCHANGED <<statusBar, runsBar>>
    <2>1. (\A e \in Calls \ {c} : pc'[e] = pc[e] /\ result'[e] = result[e]) /\ log' = log
      BY <1>14 DEF CancelOpening, Leave
    <2>2. /\ pc[c] \in {"waiting", "opening", "reading", "closing"}
          /\ pc'[c] = "done" /\ result'[c] \notin {"answer", "ack"}
      BY <1>14 DEF CancelOpening, Leave
    <2> QED  BY <2>1, <2>2, StatusFails DEF Rpc!Next
  <1>15. ASSUME NEW c \in Calls, CancelReading(c)
        PROVE  Rpc!Next \/ UNCHANGED <<statusBar, runsBar>>
    <2>1. (\A e \in Calls \ {c} : pc'[e] = pc[e] /\ result'[e] = result[e]) /\ log' = log
      BY <1>15 DEF CancelReading, CloseWith, Close
    <2>2. /\ pc[c] \in {"waiting", "opening", "reading", "closing"}
          /\ pc'[c] \in {"waiting", "opening", "reading", "closing"}
      BY <1>15 DEF CancelReading, CloseWith, Close
    <2> QED  BY <2>1, <2>2, StatusHidden
  <1>16. ASSUME NEW c \in Calls, CancelClosing(c)
        PROVE  Rpc!Next \/ UNCHANGED <<statusBar, runsBar>>
    <2>1. (\A e \in Calls \ {c} : pc'[e] = pc[e] /\ result'[e] = result[e]) /\ log' = log
      BY <1>16 DEF CancelClosing, Leave
    <2>2. /\ pc[c] \in {"waiting", "opening", "reading", "closing"}
          /\ pc'[c] = "done" /\ result'[c] \notin {"answer", "ack"}
      BY <1>16 DEF CancelClosing, Leave
    <2> QED  BY <2>1, <2>2, StatusFails DEF Rpc!Next
  <1>17. ASSUME NEW k \in Socket, TransportGone(k)
        PROVE  Rpc!Next \/ UNCHANGED <<statusBar, runsBar>>
    <2>1. UNCHANGED <<pc, result, log>>
      BY <1>17 DEF TransportGone
    <2> QED  BY <2>1 DEF statusBar, runsBar
  <1>18. ASSUME HubAccept
        PROVE  Rpc!Next \/ UNCHANGED <<statusBar, runsBar>>
    <2>1. UNCHANGED <<pc, result, log>>
      BY <1>18 DEF HubAccept
    <2> QED  BY <2>1 DEF statusBar, runsBar
  <1>19. ASSUME NEW k \in Socket, HubServe(k)
        PROVE  Rpc!Next \/ UNCHANGED <<statusBar, runsBar>>
    BY <1>19, ServeExecutes DEF Rpc!Next
  <1>20. ASSUME NEW k \in Socket, HubSeesClose(k)
        PROVE  Rpc!Next \/ UNCHANGED <<statusBar, runsBar>>
    <2>1. UNCHANGED <<pc, result, log>>
      BY <1>20 DEF HubSeesClose
    <2> QED  BY <2>1 DEF statusBar, runsBar
  <1>21. ASSUME HubReboot
        PROVE  Rpc!Next \/ UNCHANGED <<statusBar, runsBar>>
    <2>1. UNCHANGED <<pc, result, log>>
      BY <1>21 DEF HubReboot
    <2> QED  BY <2>1 DEF statusBar, runsBar
  <1>22. CASE UNCHANGED vars
    <2>1. UNCHANGED <<pc, result, log>>
      BY <1>22 DEF vars
    <2> QED  BY <2>1 DEF statusBar, runsBar
  <1> QED
    BY <1>1, <1>2, <1>3, <1>4, <1>5, <1>6, <1>7, <1>8, <1>9, <1>10, <1>11, <1>12, <1>13, <1>14,
       <1>15, <1>16, <1>17, <1>18, <1>19, <1>20, <1>21, <1>22 DEF Next, ClientStep, HubStep

\* The transport implements the serial executor of RpcService, for any number
\* of calls, attempts and sockets.
THEOREM TransportImplementsRpc == Spec => ImplementsRpc
  <1>1. Spec => []IInv
    BY Invariance
  <1>2. Spec => Rpc!Init /\ [][Next]_vars
    BY RpcInit DEF Spec
  <1>3. []IInv /\ [][Next]_vars => [][Rpc!Next]_<<statusBar, runsBar>>
    BY RpcStep, PTL
  <1> QED  BY <1>1, <1>2, <1>3, PTL DEF ImplementsRpc, Rpc!Spec
===============================================================================
