----------------------------- MODULE ClientSession -----------------------------
(***************************************************************************)
(* HabitronClient (client.py): tasks connect, close and send commands; the *)
(* bus serves them one at a time in the order they asked (BusTransport     *)
(* shows that); power_cycle_channel is a command, a pause and another, and  *)
(* either of the two commands may also be sent for itself.                 *)
(* close() takes no lock and undoes nothing but _entered.                  *)
(***************************************************************************)
EXTENDS Integers, Sequences, FiniteSets, SequencesExt

CONSTANTS
    Tasks,          \* tasks that use the client
    Ops,            \* the commands of this instance
    Channels,       \* router channels that are power-cycled
    MaxCalls        \* bound on what the tasks start

ASSUME ClientAssumption == MaxCalls \in Nat /\ Channels \subseteq 1..4

VARIABLES
    entered,        \* _entered
    queue,          \* tasks at the bus, the first is served
    doing,          \* [op, chan, cycle] of each task; op "none" is idle, "pause" the pause
    dark,           \* channels without power
    asked,          \* dark channels that were powered down outside a cycle
    cutOff,         \* dark channels whose cycle raised or was cancelled
    leftover,       \* tasks that were at the bus when the client was closed
    calls

clientVars == <<entered, queue, doing, dark, asked, cutOff, leftover, calls>>

-------------------------------------------------------------------------------
(***************************************************************************)
(* How each command goes over the bus: request and request_crc raise when  *)
(* no valid answer comes, send_only only logs.                             *)
(***************************************************************************)
HubOps ==
    [request |->
        {"check_comm_status", "get_smhub_info", "get_smhub_update", "get_smhub_version",
         "send_network_info", "reinit_hub", "hub_restart", "hub_reboot", "module_restart",
         "restart_fwd_tbl", "set_log_level", "get_smr", "get_router_status",
         "get_router_modules", "get_global_descriptions", "get_error_status",
         "get_module_definitions", "get_module_settings", "start_mirror", "stop_mirror"},
     crc |-> {"get_compact_status", "get_module_status", "handle_firmware", "update_firmware",
              "down", "up"},
     fire |-> {"send_devregid"}]

MemberOps ==
    [request |->
        {"set_dimmval", "set_rgb_output", "set_rgbval", "set_shutterpos", "set_blindtilt",
         "set_flag", "inc_dec_counter", "set_setpoint", "set_climate_mode",
         "call_dir_command", "call_vis_command", "call_coll_command", "set_group_mode",
         "set_daytime_mode", "set_alarm_mode", "send_message", "send_sms"},
     fire |-> {"set_output", "send_message_text"}]

\* Calls that raise without a valid answer.
Answered(op) == op = "connect" \/ op \in HubOps.request \cup HubOps.crc \cup MemberOps.request

ASSUME OpsAssumption ==
    Ops \subseteq HubOps.request \cup HubOps.crc \cup HubOps.fire \cup MemberOps.request \cup MemberOps.fire

-------------------------------------------------------------------------------
Idle == [op |-> "none", chan |-> 0, cycle |-> FALSE]
Command(op, ch) == [op |-> op, chan |-> ch, cycle |-> FALSE]
CycleStep(op, ch) == [op |-> op, chan |-> ch, cycle |-> TRUE]
IsQueued(t) == \E i \in 1..Len(queue) : queue[i] = t

ClientInit ==
    /\ entered = FALSE
    /\ queue = <<>>
    /\ doing = [t \in Tasks |-> Idle]
    /\ dark = {} /\ asked = {} /\ cutOff = {} /\ leftover = {}
    /\ calls = 0

Start(t) == doing[t] = Idle /\ calls < MaxCalls /\ calls' = calls + 1

AtBus(t, what) ==
    /\ queue' = Append(queue, t)
    /\ doing' = [doing EXCEPT ![t] = what]

Connect(t) ==
    /\ Start(t)
    /\ AtBus(t, Command("connect", 0))
    /\ UNCHANGED <<entered, dark, asked, cutOff, leftover>>

\* _send, _send_crc and _fire: _ensure_entered looks before the lock is waited for;
\* a client that is not entered refuses and sends nothing.  power_cycle_channel_down
\* and power_cycle_channel_up, the commands with a channel, are sent like the others.
Send(t) ==
    /\ entered
    /\ Start(t)
    /\ \E op \in Ops : \E ch \in IF op \in {"down", "up"} THEN Channels ELSE {0} :
            AtBus(t, Command(op, ch))
    /\ UNCHANGED <<entered, dark, asked, cutOff, leftover>>

\* power_cycle_channel, its first command.
PowerCycle(t, ch) ==
    /\ entered
    /\ Start(t)
    /\ AtBus(t, CycleStep("down", ch))
    /\ UNCHANGED <<entered, dark, asked, cutOff, leftover>>

CloseClient ==      \* close and __aexit__
    /\ entered
    /\ calls < MaxCalls
    /\ calls' = calls + 1
    /\ entered' = FALSE
    /\ leftover' = {queue[i] : i \in 1..Len(queue)}
    /\ UNCHANGED <<queue, doing, dark, asked, cutOff>>

-------------------------------------------------------------------------------
\* Fault: the mask of power up is that of the next channel.
FaultMaskUp(ch) == {c \in Channels : c = ch + 1}

MaskUp(ch) == {ch}      \* 1 << (channel - 1)

\* What the hub does with a command it executes.
Executed(what) ==
    /\ dark' = CASE what.op = "down" -> dark \cup {what.chan}
                 [] what.op = "up"   -> dark \ MaskUp(what.chan)
                 [] OTHER            -> dark
    /\ asked' = (IF what.op = "down" /\ ~what.cycle THEN asked \cup {what.chan}
                 ELSE asked) \cap dark'

\* A cycle that ends before its second command was answered; a channel that is dark
\* then stays so.
CutShort(what) ==
    cutOff' = (IF what.cycle THEN cutOff \cup {what.chan} ELSE cutOff) \cap dark'

Ended(t) == doing' = [doing EXCEPT ![t] = Idle] /\ CutShort(doing[t])

\* The command at the head of the queue is executed or not, and answered or not; a
\* connect is "answered" by a socket.  A call that wants an answer raises without one.
Serve ==
    /\ queue # <<>>
    /\ LET t == Head(queue)
           what == doing[t]
       IN  \E executes, answers \in BOOLEAN :
            /\ answers => executes /\ Answered(what.op)
            /\ IF executes THEN Executed(what) ELSE UNCHANGED <<dark, asked>>
            /\ queue' = Tail(queue)
            /\ leftover' = leftover \ {t}
            /\ entered' = (entered \/ (what.op = "connect" /\ answers))
            /\ doing' = [doing EXCEPT ![t] = IF what.op = "down" /\ what.cycle /\ answers
                                             THEN CycleStep("pause", what.chan) ELSE Idle]
            /\ IF answers THEN cutOff' = cutOff \cap dark' ELSE CutShort(what)
    /\ UNCHANGED calls

\* Fault: the second command of the cycle is sent without a look at _entered.
FaultMayGoOn == TRUE

MayGoOn == entered

\* The pause is over; on a client closed meanwhile power_cycle_channel_up refuses.
PauseOver(t) ==
    /\ doing[t].op = "pause"
    /\ \/ /\ MayGoOn
          /\ AtBus(t, CycleStep("up", doing[t].chan))
          /\ UNCHANGED <<dark, asked, cutOff>>
       \/ /\ ~MayGoOn
          /\ UNCHANGED <<queue, dark, asked>>
          /\ Ended(t)
    /\ UNCHANGED <<entered, leftover, calls>>

\* A task is cancelled at the bus or in the pause; the hub may have its command.
CancelCall(t) ==
    /\ doing[t] # Idle
    /\ \/ ~IsQueued(t) /\ UNCHANGED queue
       \/ \E i \in DOMAIN queue : queue[i] = t /\ queue' = RemoveAt(queue, i)
    /\ leftover' = leftover \ {t}
    /\ \/ UNCHANGED <<dark, asked>>
       \/ queue # <<>> /\ Head(queue) = t /\ Executed(doing[t])
    /\ Ended(t)
    /\ UNCHANGED <<entered, calls>>

ClientNext ==
    \/ \E t \in Tasks : Connect(t) \/ Send(t) \/ PauseOver(t) \/ CancelCall(t)
    \/ \E t \in Tasks, ch \in Channels : PowerCycle(t, ch)
    \/ CloseClient
    \/ Serve

\* Every command is answered or times out, and the pause is a timer.
ClientFairness == WF_clientVars(Serve) /\ \A t \in Tasks : WF_clientVars(PauseOver(t))

ClientSpec == ClientInit /\ [][ClientNext]_clientVars /\ ClientFairness

-------------------------------------------------------------------------------
(***************************************************************************)
(* Properties.                                                             *)
(***************************************************************************)
\* A task is at the bus exactly while it waits for a command, and only once.
ClientTypeOK ==
    /\ entered \in BOOLEAN
    /\ \A t \in Tasks : IsQueued(t) <=> doing[t].op \notin {"none", "pause"}
    /\ \A i, j \in 1..Len(queue) : queue[i] = queue[j] => i = j
    /\ leftover \subseteq {queue[i] : i \in 1..Len(queue)}
    /\ cutOff \cup asked \subseteq dark /\ dark \subseteq Channels
    /\ calls \in 0..MaxCalls

\* On a closed client nothing reaches the bus any more but what was there when it
\* was closed: those commands are sent after close() returned.
ClosedSendsOnlyLeftovers ==
    ~entered => \A i \in 1..Len(queue) : queue[i] \in leftover \/ doing[queue[i]].op = "connect"

\* A channel is dark only between the two commands of a cycle, or because the caller of
\* power_cycle_channel_down wanted it, or after a cycle that told its caller: it raised
\* (no answer, or the client was closed in the pause) or was cancelled.
CyclesOn(ch) ==
    {t \in Tasks : doing[t].cycle /\ doing[t].op \in {"pause", "up"} /\ doing[t].chan = ch}

DarkOnlyInCycle == \A ch \in dark : ch \in cutOff \cup asked \/ CyclesOn(ch) # {}

\* A channel that a cycle darkened gets its power back, unless the cycle raised or was
\* cancelled; one that was powered down for itself stays dark until somebody lights it.
DarkIsTransient ==
    \A ch \in Channels : ch \in dark ~> (ch \notin dark \/ ch \in cutOff \cup asked)
===============================================================================
