-------------------------- MODULE ClientSessionProofs --------------------------
(***************************************************************************)
(* Proofs about ClientSession for every set of tasks, commands and         *)
(* channels.                                                               *)
(***************************************************************************)
EXTENDS ClientSession, SequenceTheorems, TLAPS

-------------------------------------------------------------------------------
(***************************************************************************)
(* The bus and the calls of the tasks.                                     *)
(***************************************************************************)
Ways == Ops \cup {"none", "pause", "connect", "down", "up"}

\* What each task does; the power commands and the pause between them, and nothing
\* else, name a channel, and only they are steps of a cycle.
Calls == {what \in [op : Ways, chan : {0} \cup Channels, cycle : BOOLEAN] :
              /\ what.op \in {"down", "up", "pause"} <=> what.chan \in Channels
              /\ what.op = "pause" => what.cycle
              /\ what.cycle => what.op \in {"down", "up", "pause"}}

\* A task in the second half of a cycle.
Relights(what, ch) == what.cycle /\ what.op \in {"pause", "up"} /\ what.chan = ch

DoingInv == doing \in [Tasks -> Calls]

\* The queue holds exactly the tasks that wait for a command, once each.
QueueInv ==
    /\ queue \in Seq(Tasks)
    /\ \A t \in Tasks : doing[t].op \notin {"none", "pause"} => IsQueued(t)
    /\ \A i, j \in 1..Len(queue) : queue[i] = queue[j] => i = j
    /\ \A i \in 1..Len(queue) : doing[queue[i]].op \notin {"none", "pause"}

\* No command has the name of a state of a task.
LEMMA NamesDiffer ==
  ASSUME NEW op \in Ops  PROVE op \notin {"none", "pause"}
  BY OpsAssumption DEF HubOps, MemberOps

\* A task that does nothing names no channel, since there is no channel 0.
LEMMA IdleIsCall == Idle \in Calls
  BY ClientAssumption DEF Idle, Calls, Ways

LEMMA IdleIsNoCommand == Idle \in Calls /\ Idle.op \in {"none", "pause"}
  BY IdleIsCall DEF Idle

\* A task that joins the queue stands at its end.
LEMMA AtBusQueue ==
  ASSUME DoingInv, QueueInv, NEW t \in Tasks, NEW what \in Calls,
         doing[t].op \in {"none", "pause"}, what.op \notin {"none", "pause"},
         AtBus(t, what)
  PROVE  /\ DoingInv' /\ QueueInv'
         /\ Len(queue') = Len(queue) + 1
         /\ \A i \in 1..Len(queue') : queue'[i] = IF i <= Len(queue) THEN queue[i] ELSE t
         /\ \A i \in 1..Len(queue) : queue[i] # t
  <1>1. /\ queue' \in Seq(Tasks) /\ Len(queue') = Len(queue) + 1
        /\ \A i \in 1..Len(queue') : queue'[i] = IF i <= Len(queue) THEN queue[i] ELSE t
    BY DEF AtBus, QueueInv
  <1>2. \A i \in 1..Len(queue) : queue[i] # t  BY DEF QueueInv
  <1>3. DoingInv'  BY DEF AtBus, DoingInv
  <1>4. doing'[t] = what /\ \A u \in Tasks \ {t} : doing'[u] = doing[u]
    BY DEF AtBus, DoingInv
  <1>5. ASSUME NEW i \in 1..Len(queue'), NEW j \in 1..Len(queue'), queue'[i] = queue'[j]
        PROVE  i = j
    BY <1>1, <1>2, <1>5 DEF QueueInv
  <1>6. ASSUME NEW i \in 1..Len(queue')  PROVE doing'[queue'[i]].op \notin {"none", "pause"}
    <2>1. CASE i <= Len(queue)
      <3>1. queue'[i] = queue[i] /\ queue[i] \in Tasks \ {t}  BY <1>1, <1>2, <2>1 DEF QueueInv
      <3> QED  BY <1>4, <2>1, <3>1 DEF QueueInv
    <2>2. CASE ~(i <= Len(queue))  BY <1>1, <1>4, <2>2
    <2> QED  BY <2>1, <2>2
  <1>7. ASSUME NEW u \in Tasks, doing'[u].op \notin {"none", "pause"}
        PROVE  \E i \in 1..Len(queue') : queue'[i] = u
    <2>1. CASE u = t  BY <1>1, <2>1 DEF QueueInv
    <2>2. CASE u # t  BY <1>1, <1>4, <1>7, <2>2 DEF QueueInv, IsQueued
    <2> QED  BY <2>1, <2>2
  <1> QED  BY <1>1, <1>2, <1>3, <1>5, <1>6, <1>7 DEF QueueInv, IsQueued

\* Taking one task out leaves the others in their order.
LEMMA RemoveAtOthers ==
  ASSUME NEW s \in Seq(Tasks), NEW i \in DOMAIN s
  PROVE  /\ RemoveAt(s, i) \in Seq(Tasks)
         /\ Len(RemoveAt(s, i)) = Len(s) - 1
         /\ \A j \in 1..(Len(s) - 1) : RemoveAt(s, i)[j] = IF j < i THEN s[j] ELSE s[j + 1]
  <1> DEFINE front == SubSeq(s, 1, i - 1)
             back  == SubSeq(s, i + 1, Len(s))
  <1>1. Len(s) \in Nat /\ i \in 1..Len(s)  OBVIOUS
  <1>2. /\ front \in Seq(Tasks) /\ Len(front) = i - 1
        /\ \A j \in 1..(i - 1) : front[j] = s[j]
    BY <1>1, SubSeqProperties
  <1>3. /\ back \in Seq(Tasks) /\ Len(back) = Len(s) - i
        /\ \A j \in 1..(Len(s) - i) : back[j] = s[i + j]
    BY <1>1, SubSeqProperties
  <1>4. RemoveAt(s, i) = front \o back  BY DEF RemoveAt
  <1>5. /\ front \o back \in Seq(Tasks)
        /\ Len(front \o back) = Len(front) + Len(back)
        /\ \A j \in 1..(Len(front) + Len(back)) :
             (front \o back)[j] = IF j <= Len(front) THEN front[j] ELSE back[j - Len(front)]
    BY <1>2, <1>3, ConcatProperties
  <1> HIDE DEF front, back
  <1>6. Len(front) + Len(back) = Len(s) - 1  BY <1>1, <1>2, <1>3
  <1>7. /\ Len(front \o back) = Len(s) - 1
        /\ \A j \in 1..(Len(s) - 1) :
             (front \o back)[j] = IF j <= i - 1 THEN front[j] ELSE back[j - (i - 1)]
    BY <1>2, <1>5, <1>6
  <1>8. ASSUME NEW j \in 1..(Len(s) - 1)
        PROVE  (front \o back)[j] = IF j < i THEN s[j] ELSE s[j + 1]
    <2>1. CASE j < i  BY <1>1, <1>2, <1>7, <2>1
    <2>2. CASE ~(j < i)
      <3>1. j - (i - 1) \in 1..(Len(s) - i) /\ i + (j - (i - 1)) = j + 1 /\ ~(j <= i - 1)
        BY <1>1, <2>2
      <3> QED  BY <1>3, <1>7, <2>2, <3>1
    <2> QED  BY <2>1, <2>2
  <1> QED  BY <1>4, <1>5, <1>7, <1>8

\* A task that leaves the queue leaves the others where they were.
LEMMA LeaveQueue ==
  ASSUME DoingInv, QueueInv, NEW i \in 1..Len(queue), queue' = RemoveAt(queue, i),
         NEW what \in Calls, what.op \in {"none", "pause"},
         doing' = [doing EXCEPT ![queue[i]] = what]
  PROVE  /\ DoingInv' /\ QueueInv'
         /\ \A k \in 1..Len(queue) :
                queue[k] # queue[i] => \E j \in 1..Len(queue') : queue'[j] = queue[k]
         /\ \A j \in 1..Len(queue') :
                /\ \E k \in 1..Len(queue) : queue'[j] = queue[k]
                /\ queue'[j] # queue[i]
                /\ doing'[queue'[j]] = doing[queue'[j]]
  <1>1. /\ queue \in Seq(Tasks) /\ Len(queue) \in Nat /\ i \in DOMAIN queue /\ queue[i] \in Tasks
        /\ queue' \in Seq(Tasks) /\ Len(queue') = Len(queue) - 1
        /\ \A j \in 1..Len(queue') : queue'[j] = IF j < i THEN queue[j] ELSE queue[j + 1]
    <2>1. queue \in Seq(Tasks) /\ Len(queue) \in Nat /\ i \in DOMAIN queue /\ queue[i] \in Tasks
      BY DEF QueueInv
    <2>2. /\ RemoveAt(queue, i) \in Seq(Tasks) /\ Len(RemoveAt(queue, i)) = Len(queue) - 1
          /\ \A j \in 1..(Len(queue) - 1) :
               RemoveAt(queue, i)[j] = IF j < i THEN queue[j] ELSE queue[j + 1]
      BY <2>1, RemoveAtOthers
    <2> QED  BY <2>1, <2>2
  <1> DEFINE old(j) == IF j < i THEN j ELSE j + 1
  <1>2. \A j \in 1..Len(queue') :
            /\ old(j) \in 1..Len(queue) /\ old(j) # i
            /\ queue'[j] = queue[old(j)]
    BY <1>1
  <1>3. \A j, k \in 1..Len(queue') : old(j) = old(k) => j = k
    BY <1>1
  <1> HIDE DEF old
  <1>4. \A j \in 1..Len(queue') : queue'[j] # queue[i] /\ queue'[j] \in Tasks
    BY <1>1, <1>2 DEF QueueInv
  <1>5. \A j \in 1..Len(queue') : doing'[queue'[j]] = doing[queue'[j]]
    BY <1>4 DEF DoingInv
  <1>6. DoingInv'  BY <1>1 DEF DoingInv
  <1>7. ASSUME NEW k \in 1..Len(queue), queue[k] # queue[i]
        PROVE  \E j \in 1..Len(queue') : queue'[j] = queue[k]
    <2>1. CASE k < i  BY <1>1, <2>1
    <2>2. CASE ~(k < i)
      <3>1. k - 1 \in 1..Len(queue') /\ ~(k - 1 < i) /\ (k - 1) + 1 = k
        BY <1>1, <1>7, <2>2
      <3> QED  BY <1>1, <3>1
    <2> QED  BY <2>1, <2>2
  <1>8. \A u \in Tasks : doing'[u].op \notin {"none", "pause"} =>
            u # queue[i] /\ doing'[u] = doing[u]
    BY <1>1 DEF DoingInv
  <1>9. \A u \in Tasks : doing'[u].op \notin {"none", "pause"} =>
            \E j \in 1..Len(queue') : queue'[j] = u
    BY <1>7, <1>8 DEF QueueInv, IsQueued
  <1>10. QueueInv'  BY <1>1, <1>2, <1>3, <1>5, <1>9 DEF QueueInv, IsQueued
  <1> QED  BY <1>2, <1>4, <1>5, <1>6, <1>7, <1>10

\* Serving takes out the head.
LEMMA ServeLeaves ==
  ASSUME DoingInv, QueueInv, Serve
  PROVE  /\ 1 \in 1..Len(queue) /\ queue' = RemoveAt(queue, 1) /\ Head(queue) = queue[1]
         /\ \E what \in Calls :
              what.op \in {"none", "pause"} /\ doing' = [doing EXCEPT ![queue[1]] = what]
  <1>1. queue \in Seq(Tasks) /\ queue # <<>>  BY DEF QueueInv, Serve
  <1>2. 1 \in 1..Len(queue) /\ Head(queue) = queue[1] /\ queue[1] \in Tasks  BY <1>1
  <1>3. queue' = RemoveAt(queue, 1)
    <2>1. queue' = Tail(queue)  BY DEF Serve
    <2>2. 1 \in DOMAIN queue  BY <1>1, <1>2
    <2>3. /\ RemoveAt(queue, 1) \in Seq(Tasks) /\ Len(RemoveAt(queue, 1)) = Len(queue) - 1
          /\ \A j \in 1..(Len(queue) - 1) : RemoveAt(queue, 1)[j] = queue[j + 1]
      BY <1>1, <2>2, RemoveAtOthers
    <2>4. /\ Tail(queue) \in Seq(Tasks) /\ Len(Tail(queue)) = Len(queue) - 1
          /\ \A j \in 1..(Len(queue) - 1) : Tail(queue)[j] = queue[j + 1]
      BY <1>1
    <2> QED  BY <2>1, <2>3, <2>4, SeqEqual
  <1>4. /\ doing[queue[1]].op = "down" => CycleStep("pause", doing[queue[1]].chan) \in Calls
        /\ CycleStep("pause", doing[queue[1]].chan).op = "pause"
    BY <1>2 DEF DoingInv, Calls, CycleStep, Ways
  <1>6. \/ doing' = [doing EXCEPT ![queue[1]] = Idle]
        \/ /\ doing[queue[1]].op = "down"
           /\ doing' = [doing EXCEPT ![queue[1]] = CycleStep("pause", doing[queue[1]].chan)]
    BY <1>2 DEF Serve
  <1>7. CASE doing' = [doing EXCEPT ![queue[1]] = Idle]
    BY <1>2, <1>3, <1>7, IdleIsCall DEF Idle
  <1>8. CASE /\ doing[queue[1]].op = "down"
             /\ doing' = [doing EXCEPT ![queue[1]] = CycleStep("pause", doing[queue[1]].chan)]
    BY <1>2, <1>3, <1>4, <1>8
  <1> QED  BY <1>6, <1>7, <1>8

-------------------------------------------------------------------------------
(***************************************************************************)
(* The inductive invariant, one lemma per way a step changes the bus.      *)
(***************************************************************************)
DarkInv == /\ dark \subseteq Channels
           /\ cutOff \cup asked \subseteq dark
           /\ DarkOnlyInCycle

LeftoverInv == \A t \in leftover : \E i \in 1..Len(queue) : queue[i] = t

ClientInv == /\ DoingInv
             /\ QueueInv
             /\ LeftoverInv
             /\ ClosedSendsOnlyLeftovers
             /\ DarkInv

\* A step that changes the call of one task leaves no channel dark without a reason, if
\* the channels it darkens or abandons are cut off, asked for, or that task's to relight.
LEMMA DarkStep ==
  ASSUME ClientInv, NEW t \in Tasks, NEW what \in Calls,
         doing' = [doing EXCEPT ![t] = what],
         dark' \subseteq Channels, cutOff' \cup asked' \subseteq dark',
         (cutOff \cup asked) \cap dark' \subseteq cutOff' \cup asked',
         \A ch \in dark' : \/ ch \in dark /\ ~Relights(doing[t], ch)
                           \/ ch \in cutOff' \cup asked'
                           \/ Relights(what, ch)
  PROVE  DarkInv'
  <1>1. doing'[t] = what /\ \A u \in Tasks \ {t} : doing'[u] = doing[u]
    BY DEF ClientInv, DoingInv
  <1>2. ASSUME NEW ch \in dark', ch \notin cutOff' \cup asked'
        PROVE  \E u \in Tasks : Relights(doing'[u], ch)
    <2>1. CASE Relights(what, ch)  BY <1>1, <2>1
    <2>2. CASE ~Relights(what, ch)
      <3>1. ch \in dark /\ ~Relights(doing[t], ch) /\ ch \notin cutOff \cup asked
        BY <1>2, <2>2
      <3>2. PICK u \in Tasks : Relights(doing[u], ch)
        BY <3>1 DEF ClientInv, DarkInv, DarkOnlyInCycle, CyclesOn, Relights
      <3> QED  BY <1>1, <3>1, <3>2
    <2> QED  BY <2>1, <2>2
  <1> QED  BY <1>2 DEF DarkInv, DarkOnlyInCycle, CyclesOn, Relights

\* A command that joins the bus is one of an entered client, or a connect.
LEMMA JoinStep ==
  ASSUME ClientInv, NEW t \in Tasks, NEW what \in Calls,
         doing[t].op \in {"none", "pause"}, what.op \notin {"none", "pause"},
         AtBus(t, what), entered \/ what.op = "connect",
         doing[t].op = "pause" => what = CycleStep("up", doing[t].chan),
         UNCHANGED <<entered, dark, asked, cutOff, leftover>>
  PROVE  ClientInv'
  <1>1. /\ DoingInv' /\ QueueInv'
        /\ Len(queue') = Len(queue) + 1
        /\ \A i \in 1..Len(queue') : queue'[i] = IF i <= Len(queue) THEN queue[i] ELSE t
        /\ \A i \in 1..Len(queue) : queue[i] # t
    BY AtBusQueue DEF ClientInv
  <1>2. doing' = [doing EXCEPT ![t] = what]  BY DEF AtBus
  <1>3. doing'[t] = what /\ \A u \in Tasks \ {t} : doing'[u] = doing[u]
    BY <1>2 DEF ClientInv, DoingInv
  <1>4. ClosedSendsOnlyLeftovers'
    <2> SUFFICES ASSUME ~entered', NEW i \in 1..Len(queue')
                 PROVE  queue'[i] \in leftover' \/ doing'[queue'[i]].op = "connect"
      BY DEF ClosedSendsOnlyLeftovers
    <2>1. CASE i <= Len(queue)
      <3>1. i \in 1..Len(queue) /\ queue'[i] = queue[i] /\ queue[i] \in Tasks \ {t}
        BY <1>1, <2>1 DEF ClientInv, QueueInv
      <3> QED  BY <1>3, <3>1 DEF ClientInv, ClosedSendsOnlyLeftovers
    <2>2. CASE ~(i <= Len(queue))  BY <1>1, <1>3, <2>2
    <2> QED  BY <2>1, <2>2
  <1>6. DarkInv'
    <2>1. \A ch \in dark' : (ch \in dark /\ ~Relights(doing[t], ch)) \/ Relights(what, ch)
      BY DEF Relights, CycleStep
    <2>2. /\ dark' \subseteq Channels /\ cutOff' \cup asked' \subseteq dark'
          /\ (cutOff \cup asked) \cap dark' \subseteq cutOff' \cup asked'
      BY DEF ClientInv, DarkInv
    <2> QED  BY <1>2, <2>1, <2>2, DarkStep
  <1>7. LeftoverInv'
    BY <1>1 DEF ClientInv, LeftoverInv, QueueInv
  <1> QED  BY <1>1, <1>4, <1>6, <1>7 DEF ClientInv

\* A command that leaves the bus, served or cancelled, takes no other one along.
LEMMA LeaveStep ==
  ASSUME ClientInv, NEW i \in 1..Len(queue), queue' = RemoveAt(queue, i),
         NEW what \in Calls, what.op \in {"none", "pause"},
         doing' = [doing EXCEPT ![queue[i]] = what],
         leftover' = leftover \ {queue[i]}, entered => entered'
  PROVE  DoingInv' /\ QueueInv' /\ LeftoverInv' /\ ClosedSendsOnlyLeftovers'
  <1>1. /\ DoingInv' /\ QueueInv'
        /\ \A k \in 1..Len(queue) :
               queue[k] # queue[i] => \E j \in 1..Len(queue') : queue'[j] = queue[k]
        /\ \A j \in 1..Len(queue') :
               /\ \E k \in 1..Len(queue) : queue'[j] = queue[k]
               /\ queue'[j] # queue[i]
               /\ doing'[queue'[j]] = doing[queue'[j]]
    BY LeaveQueue DEF ClientInv
  <1> QED  BY <1>1 DEF ClientInv, LeftoverInv, ClosedSendsOnlyLeftovers

\* A task in the pause, or an idle one, is not at the bus.
LEMMA OffTheBusStep ==
  ASSUME ClientInv, NEW t \in Tasks, NEW what \in Calls,
         what.op \in {"none", "pause"}, ~IsQueued(t), UNCHANGED <<queue, entered>>,
         leftover \ {t} \subseteq leftover', leftover' \subseteq leftover,
         doing' = [doing EXCEPT ![t] = what]
  PROVE  DoingInv' /\ QueueInv' /\ LeftoverInv' /\ ClosedSendsOnlyLeftovers'
  <1>1. doing' \in [Tasks -> Calls] /\ \A u \in Tasks \ {t} : doing'[u] = doing[u]
    BY DEF ClientInv, DoingInv
  <1>2. \A i \in 1..Len(queue) : queue[i] \in Tasks \ {t}
    BY DEF IsQueued, ClientInv, QueueInv
  <1>3. doing'[t].op \in {"none", "pause"}  BY DEF ClientInv, DoingInv
  <1> QED
    BY <1>1, <1>3, <1>2 DEF ClientInv, DoingInv, QueueInv, IsQueued, LeftoverInv,
                            ClosedSendsOnlyLeftovers

\* What a command the hub may have executed does to the channels.
LEMMA ExecutedDark ==
  ASSUME ClientInv, NEW t \in Tasks, UNCHANGED <<dark, asked>> \/ Executed(doing[t])
  PROVE  /\ dark' \subseteq Channels /\ asked' \subseteq dark' /\ asked \cap dark' \subseteq asked'
         /\ \A ch \in dark' : \/ ch \in dark
                              \/ ch \in asked'
                              \/ doing[t].cycle /\ doing[t].op = "down" /\ ch = doing[t].chan
  <1>1. doing[t] \in Calls  BY DEF ClientInv, DoingInv
  <1>2. CASE UNCHANGED <<dark, asked>>  BY <1>2 DEF ClientInv, DarkInv
  <1>3. CASE Executed(doing[t])
    <2>1. asked' \subseteq dark' /\ asked \cap dark' \subseteq asked'  BY <1>3 DEF Executed
    <2>2. CASE doing[t].op = "down"
      <3>1. dark' = dark \cup {doing[t].chan} /\ doing[t].chan \in Channels
        BY <1>1, <1>3, <2>2 DEF Executed, Calls
      <3>2. ~doing[t].cycle => doing[t].chan \in asked'  BY <1>3, <2>2, <3>1 DEF Executed
      <3> QED  BY <2>1, <2>2, <3>1, <3>2 DEF ClientInv, DarkInv
    <2>3. CASE doing[t].op # "down"
      <3>1. dark' \subseteq dark  BY <1>3, <2>3 DEF Executed
      <3> QED  BY <2>1, <3>1 DEF ClientInv, DarkInv
    <2> QED  BY <2>2, <2>3
  <1> QED  BY <1>2, <1>3

\* What a command does to the channels when its task ends with it.
LEMMA EndedDark ==
  ASSUME ClientInv, NEW t \in Tasks, UNCHANGED <<dark, asked>> \/ Executed(doing[t]), Ended(t)
  PROVE  DarkInv' /\ doing' = [doing EXCEPT ![t] = Idle]
  <1>1. /\ dark' \subseteq Channels /\ asked' \subseteq dark' /\ asked \cap dark' \subseteq asked'
        /\ \A ch \in dark' : \/ ch \in dark
                             \/ ch \in asked'
                             \/ doing[t].cycle /\ doing[t].op = "down" /\ ch = doing[t].chan
    BY ExecutedDark
  <1>2. /\ cutOff' \subseteq dark' /\ cutOff \cap dark' \subseteq cutOff'
        /\ doing[t].cycle => \A ch \in dark' : ch = doing[t].chan => ch \in cutOff'
    BY DEF Ended, CutShort
  <1>3. \A ch \in dark' : (ch \in dark /\ ~Relights(doing[t], ch)) \/ ch \in cutOff' \cup asked'
    BY <1>1, <1>2 DEF Relights
  <1> QED  BY <1>1, <1>2, <1>3, IdleIsCall, DarkStep DEF Ended

-------------------------------------------------------------------------------
\* Serving a command: the head leaves, and a darkened channel without an answer is
\* one whose cycle was cut off.
LEMMA ServeStep ==
  ASSUME ClientInv, Serve
  PROVE  ClientInv'
  <1> DEFINE t == queue[1]
  <1>1. /\ 1 \in 1..Len(queue) /\ queue' = RemoveAt(queue, 1) /\ Head(queue) = t
        /\ \E what \in Calls :
             what.op \in {"none", "pause"} /\ doing' = [doing EXCEPT ![t] = what]
    BY ServeLeaves DEF ClientInv
  <1>2. PICK what \in Calls :
            what.op \in {"none", "pause"} /\ doing' = [doing EXCEPT ![t] = what]
    BY <1>1
  <1>3. t \in Tasks /\ doing[t] \in Calls  BY <1>1 DEF ClientInv, QueueInv, DoingInv
  <1>4. leftover' = leftover \ {t} /\ (entered => entered')  BY <1>1 DEF Serve
  <1>5. DoingInv' /\ QueueInv' /\ LeftoverInv' /\ ClosedSendsOnlyLeftovers'
    BY <1>1, <1>2, <1>4, LeaveStep
  <1> HIDE DEF t
  <1>6. PICK executes \in BOOLEAN, answers \in BOOLEAN :
            /\ answers => executes
            /\ IF executes THEN Executed(doing[t]) ELSE UNCHANGED <<dark, asked>>
            /\ doing' = [doing EXCEPT ![t] = IF doing[t].op = "down" /\ doing[t].cycle /\ answers
                                             THEN CycleStep("pause", doing[t].chan) ELSE Idle]
            /\ IF answers THEN cutOff' = cutOff \cap dark' ELSE CutShort(doing[t])
    BY <1>1 DEF Serve
  <1>7. /\ dark' \subseteq Channels /\ asked' \subseteq dark' /\ asked \cap dark' \subseteq asked'
        /\ \A ch \in dark' : \/ ch \in dark
                             \/ ch \in asked'
                             \/ doing[t].cycle /\ doing[t].op = "down" /\ ch = doing[t].chan
    BY <1>3, <1>6, ExecutedDark
  <1>8. doing'[t] = what  BY <1>2, <1>3 DEF ClientInv, DoingInv
  <1>9. doing[t].op = "down" /\ doing[t].cycle /\ answers => Relights(what, doing[t].chan)
    BY <1>3, <1>6, <1>8 DEF ClientInv, DoingInv, CycleStep, Relights
  <1>10. ASSUME NEW ch \in dark'
         PROVE  \/ ch \in dark /\ ~Relights(doing[t], ch)
                \/ ch \in cutOff' \cup asked'
                \/ Relights(what, ch)
    <2>1. CASE ~answers  BY <1>6, <1>7, <1>10, <2>1 DEF CutShort, Relights
    <2>2. CASE answers /\ doing[t].op # "up"
      <3>1. doing[t].op # "pause"  BY <1>1 DEF ClientInv, QueueInv, t
      <3> QED  BY <1>7, <1>9, <1>10, <2>2, <3>1 DEF Relights
    <2>3. CASE answers /\ doing[t].op = "up"
      <3>1. dark' = dark \ MaskUp(doing[t].chan)  BY <1>6, <2>3 DEF Executed
      <3> QED  BY <1>10, <3>1 DEF MaskUp, Relights
    <2> QED  BY <2>1, <2>2, <2>3
  <1>11. cutOff' \subseteq dark' /\ cutOff \cap dark' \subseteq cutOff'
    BY <1>6 DEF CutShort
  <1>12. DarkInv'  BY <1>2, <1>3, <1>7, <1>10, <1>11, DarkStep
  <1> QED  BY <1>5, <1>12 DEF ClientInv

\* A cancelled task leaves the bus or its pause, and its channel if it is dark.
LEMMA CancelStep ==
  ASSUME ClientInv, NEW t \in Tasks, CancelCall(t)
  PROVE  ClientInv'
  <1>1. DarkInv' /\ doing' = [doing EXCEPT ![t] = Idle]
    <2>1. UNCHANGED <<dark, asked>> \/ Executed(doing[t])  BY DEF CancelCall
    <2>2. Ended(t)  BY DEF CancelCall
    <2> QED  BY <2>1, <2>2, EndedDark
  <1>2. leftover' = leftover \ {t} /\ entered' = entered  BY DEF CancelCall
  <1>3. CASE ~IsQueued(t) /\ UNCHANGED queue
    BY <1>1, <1>2, <1>3, IdleIsNoCommand, OffTheBusStep DEF ClientInv
  <1>4. CASE \E i \in DOMAIN queue : queue[i] = t /\ queue' = RemoveAt(queue, i)
    <2>1. PICK i \in DOMAIN queue : queue[i] = t /\ queue' = RemoveAt(queue, i)  BY <1>4
    <2>2. i \in 1..Len(queue)  BY <2>1 DEF ClientInv, QueueInv
    <2> QED  BY <1>1, <1>2, <2>1, <2>2, IdleIsNoCommand, LeaveStep DEF ClientInv
  <1> QED  BY <1>3, <1>4 DEF CancelCall

\* The end of a pause: power up joins the bus, or the cycle ends on a closed client.
LEMMA PauseStep ==
  ASSUME ClientInv, NEW t \in Tasks, PauseOver(t)
  PROVE  ClientInv'
  <1>1. doing[t] \in Calls /\ doing[t].op = "pause"  BY DEF ClientInv, DoingInv, PauseOver
  <1>2. CycleStep("up", doing[t].chan) \in Calls  BY <1>1 DEF Calls, CycleStep, Ways
  <1>3. CASE /\ MayGoOn /\ AtBus(t, CycleStep("up", doing[t].chan))
             /\ UNCHANGED <<dark, asked, cutOff>>
    <2>1. CycleStep("up", doing[t].chan).op = "up"  BY DEF CycleStep
    <2>2. UNCHANGED <<entered, dark, asked, cutOff, leftover>>  BY <1>3 DEF PauseOver
    <2> QED  BY <1>1, <1>2, <1>3, <2>1, <2>2, JoinStep DEF MayGoOn
  <1>4. CASE ~MayGoOn /\ UNCHANGED <<queue, dark, asked>> /\ Ended(t)
    <2>1. DarkInv' /\ doing' = [doing EXCEPT ![t] = Idle]  BY <1>4, EndedDark
    <2>2. ~IsQueued(t)  BY <1>1 DEF IsQueued, ClientInv, QueueInv
    <2>3. UNCHANGED <<entered, leftover>>  BY DEF PauseOver
    <2> QED  BY <1>4, <2>1, <2>2, <2>3, IdleIsNoCommand, OffTheBusStep DEF ClientInv
  <1> QED  BY <1>3, <1>4 DEF PauseOver

\* An idle task sends a command.
LEMMA StartStep ==
  ASSUME ClientInv, NEW t \in Tasks, NEW what \in Calls, Start(t), AtBus(t, what),
         what.op \notin {"none", "pause"}, entered \/ what.op = "connect",
         UNCHANGED <<entered, dark, asked, cutOff, leftover>>
  PROVE  ClientInv'
  <1>1. doing[t].op = "none"  BY DEF Start, Idle
  <1> QED  BY <1>1, JoinStep

LEMMA ClientInductive ==
  ClientInv /\ [ClientNext]_clientVars => ClientInv'
  <1> SUFFICES ASSUME ClientInv, [ClientNext]_clientVars  PROVE ClientInv'
    OBVIOUS
  <1>1. ASSUME NEW t \in Tasks, Connect(t)  PROVE ClientInv'
    <2>1. Command("connect", 0) \in Calls /\ Command("connect", 0).op = "connect"
      BY ClientAssumption DEF Calls, Command, Ways
    <2> QED  BY <1>1, <2>1, StartStep DEF Connect
  <1>2. ASSUME NEW t \in Tasks, Send(t)  PROVE ClientInv'
    <2>1. PICK op \in Ops, ch \in {0} \cup Channels :
              /\ ch \in IF op \in {"down", "up"} THEN Channels ELSE {0}
              /\ AtBus(t, Command(op, ch))
      BY <1>2 DEF Send
    <2>2. Command(op, ch) \in Calls /\ Command(op, ch).op \notin {"none", "pause"}
      BY <2>1, NamesDiffer, ClientAssumption DEF Calls, Command, Ways
    <2> QED  BY <1>2, <2>1, <2>2, StartStep DEF Send
  <1>3. ASSUME NEW t \in Tasks, NEW ch \in Channels, PowerCycle(t, ch)  PROVE ClientInv'
    <2>1. CycleStep("down", ch) \in Calls /\ CycleStep("down", ch).op = "down"
      BY DEF Calls, CycleStep, Ways
    <2> QED  BY <1>3, <2>1, StartStep DEF PowerCycle
  <1>4. ASSUME NEW t \in Tasks, PauseOver(t)  PROVE ClientInv'
    BY <1>4, PauseStep
  <1>5. ASSUME NEW t \in Tasks, CancelCall(t)  PROVE ClientInv'
    BY <1>5, CancelStep
  <1>6. CASE CloseClient
    BY <1>6 DEF CloseClient, ClientInv, DoingInv, QueueInv, IsQueued, LeftoverInv,
                ClosedSendsOnlyLeftovers, DarkInv, DarkOnlyInCycle, CyclesOn
  <1>7. CASE Serve
    BY <1>7, ServeStep
  <1>8. CASE UNCHANGED clientVars
    BY <1>8 DEF clientVars, ClientInv, DoingInv, QueueInv, IsQueued, LeftoverInv,
                ClosedSendsOnlyLeftovers, DarkInv, DarkOnlyInCycle, CyclesOn
  <1> QED
    BY <1>1, <1>2, <1>3, <1>4, <1>5, <1>6, <1>7, <1>8 DEF ClientNext

LEMMA ClientStarts == ClientInit => ClientInv
  <1> SUFFICES ASSUME ClientInit  PROVE ClientInv
    OBVIOUS
  <1>1. DoingInv  BY IdleIsCall DEF ClientInit, DoingInv
  <1>2. QueueInv  BY DEF ClientInit, QueueInv, Idle
  <1> QED  BY <1>1, <1>2 DEF ClientInit, ClientInv, LeftoverInv, ClosedSendsOnlyLeftovers,
                             DarkInv, DarkOnlyInCycle

\* close() lets no new command reach the bus: whatever is sent on a closed client was
\* waiting for the bus before, or opens the connection anew.
THEOREM ClosedClientSendsOnlyLeftovers == ClientSpec => []ClosedSendsOnlyLeftovers
  BY ClientStarts, ClientInductive, PTL DEF ClientSpec, ClientInv

\* power_cycle_channel: no channel is without power but between the two commands of a
\* cycle, after power_cycle_channel_down for itself, or after a cycle that raised to its
\* caller or was cancelled.
THEOREM ChannelsDarkOnlyInCycle == ClientSpec => []DarkOnlyInCycle
  BY ClientStarts, ClientInductive, PTL DEF ClientSpec, ClientInv, DarkInv

\* connect, close and the commands: a task is at the bus exactly while it waits for a
\* command, and the other parts of the client's state stay in their sets.
THEOREM ClientTypeCorrect == ClientSpec => []ClientTypeOK
  <1> DEFINE Bounds == entered \in BOOLEAN /\ calls \in 0..MaxCalls
  <1>1. ClientInit => Bounds
    <2> SUFFICES ASSUME ClientInit  PROVE Bounds
      OBVIOUS
    <2>1. entered = FALSE /\ calls = 0  BY DEF ClientInit
    <2>2. entered \in BOOLEAN  BY <2>1, Zenon
    <2>3. calls \in 0..MaxCalls  BY <2>1, ClientAssumption
    <2> QED  BY <2>2, <2>3
  <1>2. Bounds /\ [ClientNext]_clientVars => Bounds'
    <2> SUFFICES ASSUME Bounds, [ClientNext]_clientVars  PROVE Bounds'
      OBVIOUS
    <2>1. calls' = calls \/ (calls < MaxCalls /\ calls' = calls + 1)
      BY DEF ClientNext, clientVars, Connect, Send, PauseOver, CancelCall, PowerCycle,
             CloseClient, Serve, Start
    <2>2. entered' \in BOOLEAN
      <3>1. CASE Serve  BY <3>1 DEF Serve
      <3>2. CASE ~Serve
        BY <3>2 DEF ClientNext, clientVars, Connect, Send, PauseOver, CancelCall, PowerCycle,
                    CloseClient
      <3> QED  BY <3>1, <3>2
    <2> QED  BY <2>1, <2>2, ClientAssumption
  <1>3. Bounds /\ ClientInv => ClientTypeOK
    BY DEF ClientInv, QueueInv, LeftoverInv, DarkInv, ClientTypeOK, IsQueued
  <1> QED  BY <1>1, <1>2, <1>3, ClientStarts, ClientInductive, PTL DEF ClientSpec
===============================================================================
