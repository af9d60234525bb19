---------------------------- MODULE SystemRefresh ----------------------------
(***************************************************************************)
(* Keeping the device model in step with the bus (_setup.py): the tail of  *)
(* async_build_system, the consumer's loop around async_refresh_system     *)
(* with the CRC it hands back, and the events apply_event writes into the  *)
(* same model between any two awaits of a poll.                            *)
(*                                                                         *)
(* The hub (external) owns the true module states and the router's         *)
(* telemetry, pushes an event per change while its mirror is up, and may   *)
(* reboot, which stops the mirror.  A module's state is one value.  The    *)
(* CRC of a compact status is taken to tell two statuses apart.  Listeners *)
(* of the members may raise: out of the poll, or into apply_event's log.   *)
(***************************************************************************)
EXTENDS Naturals, Sequences

CONSTANTS
    Module, Value,
    Short,              \* a compact status too short to use: b"OK", CRC 0
    NoCrc,              \* last_crc = None
    MaxChanges,         \* bound on changes of a module's state
    MaxTelemetry,       \* bound on changes of the router's telemetry
    MaxReboots,         \* bound on reboots of the hub
    MaxLost,            \* bound on events lost on their way
    MaxFaults,          \* bound on failed, short and partial answers
    MaxRestartFaults,   \* bound on failures of start_mirror
    MaxRaises,          \* bound on listeners that raise
    ShortAtBuild        \* may the router status be short during the build?

ASSUME BoundsAssumption ==
    /\ {MaxChanges, MaxTelemetry, MaxReboots, MaxLost, MaxFaults, MaxRestartFaults,
        MaxRaises} \subseteq Nat
    /\ ShortAtBuild \in BOOLEAN

\* A compact status names some of the modules.
Status == UNION {[S -> Value] : S \in SUBSET Module}

ASSUME NullsAssumption == Short # NoCrc /\ {Short, NoCrc} \cap Status = {}

VARIABLES
    \* the hub
    bus,            \* the modules' true state
    mirror,         \* "coming_up" after power-on, "up", or "down" after a reboot
    telemetry,      \* version of the router's own readings
    events,         \* pushed and not delivered yet
    \* the client
    pc,             \* the await at which the poll (or the build) is suspended
    value,          \* the members' values in the model
    mirrorStarted,  \* router.mirror_started
    shown,          \* the router readings in the model
    sysStatus,      \* sys_status of the running poll, standing for its crc too
    wasStarted,     \* was_started of the running poll
    lastCrc,        \* what the consumer passes as last_crc
    \* history
    touched,        \* modules an event wrote to since the last distribution
    torn,           \* modules written by what a listener cut short, not whole since
    cutFrom,        \* lastCrc when that happened last; NoCrc when torn is empty
    raises,         \* listeners that raised
    atStart,        \* telemetry when the running poll began
    owed,           \* the poll that saw the mirror go down did not restart it, and
                    \* it was not seen up since
    count           \* how often each bounded thing happened

hub     == <<bus, mirror, telemetry, events>>
client  == <<pc, value, mirrorStarted, shown, sysStatus, wasStarted, lastCrc>>
written == <<touched, torn, cutFrom, raises>>
vars    == <<hub, client, written, atStart, owed, count>>

Counted == {"changes", "reboots", "lost", "faults", "restartFaults", "restarts"}

TypeOK ==
    /\ bus \in [Module -> Value]
    /\ mirror \in {"coming_up", "up", "down"}
    /\ telemetry \in 1..(MaxTelemetry + 1)
    /\ events \in Seq(Module \X Value)
    /\ pc \in {"build", "build_router", "idle", "compact", "router", "restart"}
    /\ value \in [Module -> Value]
    /\ mirrorStarted \in BOOLEAN
    /\ shown \in 0..(MaxTelemetry + 1)
    /\ sysStatus \in Status \cup {Short}
    /\ wasStarted \in BOOLEAN
    /\ lastCrc \in Status \cup {Short, NoCrc}
    /\ touched \subseteq Module /\ torn \subseteq Module
    /\ cutFrom \in Status \cup {Short, NoCrc}
    /\ raises \in 0..MaxRaises
    /\ atStart \in 0..(MaxTelemetry + 1)
    /\ owed \in BOOLEAN
    /\ count \in [Counted -> Nat]

Init ==
    /\ bus \in [Module -> Value]
    /\ mirror \in {"coming_up", "up"}
    /\ telemetry = 1
    /\ events = <<>>
    /\ pc = "build"
    /\ value \in {[m \in Module |-> v] : v \in Value}  \* the parsers' defaults
    /\ mirrorStarted = TRUE                            \* Router's default
    /\ shown = 0                                       \* nothing read yet
    /\ sysStatus = Short
    /\ wasStarted = FALSE
    /\ lastCrc = NoCrc
    /\ touched = {} /\ torn = {} /\ cutFrom = NoCrc /\ raises = 0
    /\ atStart = 0
    /\ owed = FALSE
    /\ count = [n \in Counted |-> 0]

Happens(n) == count' = [count EXCEPT ![n] = @ + 1]

-------------------------------------------------------------------------------
(***************************************************************************)
(* The hub (external).                                                     *)
(***************************************************************************)
BusChange(m, v) ==
    /\ bus[m] # v
    /\ count["changes"] < MaxChanges
    /\ bus' = [bus EXCEPT ![m] = v]
    /\ UNCHANGED <<mirror, telemetry, client, written, atStart, owed>>

ChangePushed(m, v) ==
    /\ BusChange(m, v)
    /\ mirror = "up"
    /\ events' = Append(events, <<m, v>>)
    /\ Happens("changes")

\* Nobody is told: the mirror is not up, or the event is lost on its way.
ChangeUnseen(m, v) ==
    /\ BusChange(m, v)
    /\ mirror = "up" => count["lost"] < MaxLost
    /\ count' = [count EXCEPT !["changes"] = @ + 1, !["lost"] = @ + 1]
    /\ UNCHANGED events

TelemetryMoves ==
    /\ telemetry <= MaxTelemetry
    /\ telemetry' = telemetry + 1
    /\ UNCHANGED <<bus, mirror, events, client, written, atStart, owed, count>>

Reboot ==
    /\ mirror = "up"
    /\ count["reboots"] < MaxReboots
    /\ mirror' = "down"
    /\ Happens("reboots")
    /\ UNCHANGED <<bus, telemetry, events, client, written, atStart, owed>>

\* The start-up sequence ends, or the hub brings the mirror back by itself.
MirrorUp ==
    /\ mirror # "up"
    /\ mirror' = "up"
    /\ UNCHANGED <<bus, telemetry, events, client, written, atStart, owed, count>>

-------------------------------------------------------------------------------
(***************************************************************************)
(* apply_event on the consumer's event path: any time between two awaits.  *)
(* Before the build returned there is no model to apply it to.             *)
(***************************************************************************)
Built == pc \notin {"build", "build_router"}

\* Events are applied between polls only, and dropped during one.
FaultDroppedDuringPoll ==
    /\ events # <<>>
    /\ events' = Tail(events)
    /\ IF pc = "idle"
       THEN /\ value' = [value EXCEPT ![Head(events)[1]] = Head(events)[2]]
            /\ touched' = touched \cup {Head(events)[1]}
       ELSE UNCHANGED <<value, touched>>
    /\ UNCHANGED <<bus, mirror, telemetry, pc, mirrorStarted, shown, sysStatus,
                   wasStarted, lastCrc, torn, cutFrom, raises, atStart, owed, count>>

EventApplied ==
    /\ events # <<>>
    /\ events' = Tail(events)
    /\ LET m == Head(events)[1]
           v == Head(events)[2]
       IN  IF Built
           THEN /\ value' = [value EXCEPT ![m] = v]
                /\ touched' = touched \cup {m}
           ELSE UNCHANGED <<value, touched>>
    /\ UNCHANGED <<bus, mirror, telemetry, pc, mirrorStarted, shown, sysStatus,
                   wasStarted, lastCrc, torn, cutFrom, raises, atStart, owed, count>>

\* A listener raises: apply_event logs that and leaves the rest of the event out.
ListenerRaises == raises < MaxRaises /\ raises' = raises + 1

EventCutShort ==
    /\ Built
    /\ events # <<>>
    /\ events' = Tail(events)
    /\ ListenerRaises
    /\ LET m == Head(events)[1]
       IN  /\ \E v \in Value : value' = [value EXCEPT ![m] = v]
           /\ touched' = touched \cup {m}
           /\ torn' = torn \cup {m}
    /\ cutFrom' = lastCrc
    /\ UNCHANGED <<bus, mirror, telemetry, pc, mirrorStarted, shown, sysStatus,
                   wasStarted, lastCrc, atStart, owed, count>>

-------------------------------------------------------------------------------
(***************************************************************************)
(* The end of async_build_system: the compact status was read early, the   *)
(* router status is read last, then both are applied, before anyone can    *)
(* listen.  A status that is too short leaves mirror_started at its        *)
(* default.                                                                *)
(***************************************************************************)
\* What is left of a compact status cut between two blocks.
CutStatus == {[m \in S |-> bus[m]] : S \in (SUBSET Module) \ {{}, Module}}

BuildCompactStatus ==
    /\ pc = "build"
    /\ pc' = "build_router"
    /\ \/ sysStatus' = bus /\ UNCHANGED count
       \/ count["faults"] < MaxFaults /\ sysStatus' \in CutStatus \cup {Short} /\ Happens("faults")
    /\ UNCHANGED <<hub, value, mirrorStarted, shown, wasStarted, lastCrc, written, atStart, owed>>

\* A read raises, or the answer is cut inside a field the parsers index: the
\* half-built router is dropped and the consumer builds again.
BuildRaises ==
    /\ ~Built
    /\ count["faults"] < MaxFaults
    /\ Happens("faults")
    /\ pc' = "build"
    /\ UNCHANGED <<hub, value, mirrorStarted, shown, sysStatus, wasStarted, lastCrc,
                   written, atStart, owed>>

FaultForgetsOthers(status) == value' = IF status = Short THEN value ELSE status

\* distribute_status; a short status holds no block.
Blocks(status) == IF status = Short THEN {} ELSE DOMAIN status

Distribute(status) == value' = [m \in Module |-> IF m \in Blocks(status) THEN status[m] ELSE value[m]]

FaultRouterStatusSkipped ==
    /\ pc = "build_router"
    /\ Distribute(sysStatus)
    /\ pc' = "idle"
    /\ UNCHANGED <<hub, sysStatus, wasStarted, lastCrc, written, atStart, owed, count,
                   mirrorStarted, shown>>

BuildRouterStatus ==
    /\ pc = "build_router"
    /\ \/ /\ mirrorStarted' = (mirror = "up")
          /\ shown' = telemetry
       \/ /\ ShortAtBuild
          /\ UNCHANGED <<mirrorStarted, shown>>
    /\ Distribute(sysStatus)
    /\ pc' = "idle"
    /\ UNCHANGED <<hub, sysStatus, wasStarted, lastCrc, written, atStart, owed, count>>

-------------------------------------------------------------------------------
(***************************************************************************)
(* async_refresh_system.                                                   *)
(***************************************************************************)
PollStarts ==
    /\ pc = "idle"
    /\ pc' = "compact"
    /\ atStart' = telemetry
    /\ UNCHANGED <<hub, value, mirrorStarted, shown, sysStatus, wasStarted, lastCrc,
                   written, owed, count>>

\* was_started is read when the status has arrived, before the next await.
CompactRead(status) ==
    /\ pc = "compact"
    /\ sysStatus' = status
    /\ wasStarted' = mirrorStarted
    /\ pc' = "router"
    /\ UNCHANGED <<hub, value, mirrorStarted, shown, lastCrc, written, atStart, owed>>

CompactStatus == CompactRead(bus) /\ UNCHANGED count

\* Cut between two blocks, or the acknowledgement without a payload.
CompactStatusDegraded ==
    /\ count["faults"] < MaxFaults
    /\ \E status \in CutStatus \cup {Short} : CompactRead(status)
    /\ Happens("faults")

\* The last lines of the function: a status other than the last one is distributed,
\* and the consumer stores the CRC the function returns.
IsDistributed == sysStatus # lastCrc /\ sysStatus # Short

Distributes ==
    /\ lastCrc' = sysStatus
    /\ IF IsDistributed
       THEN Distribute(sysStatus) /\ touched' = {} /\ torn' = torn \ DOMAIN sysStatus
       ELSE UNCHANGED <<value, touched, torn>>
    /\ cutFrom' = IF torn' = {} THEN NoCrc ELSE cutFrom
    /\ UNCHANGED raises

\* A listener of module m raises: some modules were written before, m in part if
\* anything of it changed (a wind reading is announced without), and nothing is
\* returned.
DistributesUpTo(m, before) ==
    /\ \E v \in IF value[m] = sysStatus[m] THEN {value[m]} ELSE Value \ {value[m]} :
        value' = [n \in Module |-> IF n = m THEN v
                                  ELSE IF n \in before THEN sysStatus[n] ELSE value[n]]
    /\ torn' = torn \cup before \cup {m}

\* The CRC is stored all the same.
FaultCrcKeptOnRaise ==
    /\ IsDistributed
    /\ \E m \in DOMAIN sysStatus : \E before \in SUBSET (DOMAIN sysStatus \ {m}) : DistributesUpTo(m, before)
    /\ cutFrom' = lastCrc
    /\ ListenerRaises
    /\ lastCrc' = sysStatus
    /\ UNCHANGED touched

DistributionRaises ==
    /\ IsDistributed
    /\ \E m \in DOMAIN sysStatus : \E before \in SUBSET (DOMAIN sysStatus \ {m}) : DistributesUpTo(m, before)
    /\ cutFrom' = lastCrc
    /\ ListenerRaises
    /\ UNCHANGED <<lastCrc, touched>>

Return == pc' = "idle" /\ (Distributes \/ DistributionRaises)

\* 2.0.2: the mirror is restarted whenever it is reported as not started.
FaultRestartsAlways ==
    /\ pc = "router"
    /\ mirrorStarted' = (mirror = "up")
    /\ shown' = telemetry
    /\ owed' = (owed /\ mirror # "up")
    /\ IF ~mirrorStarted'
       THEN pc' = "restart" /\ UNCHANGED <<value, lastCrc, written>>
       ELSE Return
    /\ UNCHANGED <<hub, sysStatus, wasStarted, atStart, count>>

\* was_started is read after the router status was applied.
FaultEdgeReadLate ==
    /\ pc = "router"
    /\ mirrorStarted' = (mirror = "up")
    /\ shown' = telemetry
    /\ owed' = (owed /\ mirror # "up")
    /\ Return
    /\ UNCHANGED <<hub, sysStatus, wasStarted, atStart, count>>

\* The router status is read only when the modules changed.
FaultRouterBehindGate ==
    /\ pc = "router"
    /\ IF sysStatus # lastCrc
       THEN /\ mirrorStarted' = (mirror = "up")
            /\ shown' = telemetry
            /\ owed' = (owed /\ mirror # "up")
       ELSE UNCHANGED <<mirrorStarted, shown, owed>>
    /\ IF wasStarted /\ ~mirrorStarted'
       THEN pc' = "restart" /\ UNCHANGED <<value, lastCrc, written>>
       ELSE Return
    /\ UNCHANGED <<hub, sysStatus, wasStarted, atStart, count>>

RouterStatus ==
    /\ pc = "router"
    /\ mirrorStarted' = (mirror = "up")
    /\ shown' = telemetry
    /\ owed' = (owed /\ mirror # "up")
    /\ IF wasStarted /\ ~mirrorStarted'
       THEN pc' = "restart" /\ UNCHANGED <<value, lastCrc, written>>
       ELSE Return
    /\ UNCHANGED <<hub, sysStatus, wasStarted, atStart, count>>

\* A listener raises out of the poll: one of the readings, before the flag is stored,
\* or one of router.states, after it.  Listeners are called for what changed, or was
\* left behind by one that raised.
RouterStatusRaises ==
    /\ pc = "router"
    /\ ListenerRaises
    /\ shown' \in {shown, telemetry}
    /\ \/ /\ shown # telemetry
          /\ UNCHANGED <<mirrorStarted, owed>>
       \/ /\ mirrorStarted' = (mirror = "up")
          /\ shown # telemetry \/ mirrorStarted' # mirrorStarted \/ raises > 0
          /\ owed' = (mirror # "up" /\ (owed \/ wasStarted))
    /\ pc' = "idle"
    /\ UNCHANGED <<hub, value, sysStatus, wasStarted, lastCrc, touched, torn, cutFrom,
                   atStart, count>>

\* apply_router_status gives up on a short status and changes nothing.
RouterStatusShort ==
    /\ pc = "router"
    /\ count["faults"] < MaxFaults
    /\ Happens("faults")
    /\ Return
    /\ UNCHANGED <<hub, mirrorStarted, shown, sysStatus, wasStarted, atStart, owed>>

\* One byte short of the mirror flag passes the length check: the readings
\* before it are stored, then indexing it raises out of the poll.
RouterStatusCut ==
    /\ pc = "router"
    /\ count["faults"] < MaxFaults
    /\ Happens("faults")
    /\ shown' = telemetry
    /\ pc' = "idle"
    /\ UNCHANGED <<hub, value, mirrorStarted, sysStatus, wasStarted, lastCrc,
                   written, atStart, owed>>

\* start_mirror was answered.
RestartDone ==
    /\ pc = "restart"
    /\ mirror' = "up"
    /\ owed' = FALSE
    /\ Happens("restarts")
    /\ Return
    /\ UNCHANGED <<bus, telemetry, events, mirrorStarted, shown, sysStatus, wasStarted, atStart>>

\* start_mirror raised a HabitronError, which is swallowed; the hub may have
\* executed it all the same.
RestartFails ==
    /\ pc = "restart"
    /\ count["restartFaults"] < MaxRestartFaults
    /\ mirror' \in {mirror, "up"}
    /\ owed' = TRUE
    /\ count' = [count EXCEPT !["restarts"] = @ + 1, !["restartFaults"] = @ + 1]
    /\ Return
    /\ UNCHANGED <<bus, telemetry, events, mirrorStarted, shown, sysStatus, wasStarted, atStart>>

\* The CRC is stored before the status it belongs to is distributed.
FaultCrcKeptOnError ==
    /\ pc \in {"compact", "router"}
    /\ count["faults"] < MaxFaults
    /\ Happens("faults")
    /\ pc' = "idle"
    /\ lastCrc' = sysStatus
    /\ UNCHANGED <<hub, value, mirrorStarted, shown, sysStatus, wasStarted,
                   written, atStart, owed>>

\* A read raises, or the consumer cancels the poll: nothing is returned.
PollRaises ==
    /\ pc \in {"compact", "router"}
    /\ count["faults"] < MaxFaults
    /\ Happens("faults")
    /\ pc' = "idle"
    /\ UNCHANGED <<hub, value, mirrorStarted, shown, sysStatus, wasStarted, lastCrc,
                   written, atStart, owed>>

\* Cancelled while it waits for start_mirror.
RestartCancelled ==
    /\ pc = "restart"
    /\ count["restartFaults"] < MaxRestartFaults
    /\ mirror' \in {mirror, "up"}
    /\ owed' = TRUE
    /\ count' = [count EXCEPT !["restarts"] = @ + 1, !["restartFaults"] = @ + 1]
    /\ pc' = "idle"
    /\ UNCHANGED <<bus, telemetry, events, value, mirrorStarted, shown, sysStatus,
                   wasStarted, lastCrc, written, atStart>>

-------------------------------------------------------------------------------
Next ==
    \/ \E m \in Module, v \in Value : ChangePushed(m, v) \/ ChangeUnseen(m, v)
    \/ TelemetryMoves \/ Reboot \/ MirrorUp
    \/ EventApplied \/ EventCutShort
    \/ BuildCompactStatus \/ BuildRouterStatus \/ BuildRaises
    \/ PollStarts
    \/ CompactStatus \/ CompactStatusDegraded
    \/ RouterStatus \/ RouterStatusRaises \/ RouterStatusShort \/ RouterStatusCut
    \/ RestartDone \/ RestartFails
    \/ PollRaises \/ RestartCancelled

Spec == Init /\ [][Next]_vars

(***************************************************************************)
(* The consumer polls for ever, an answer that can come does come (faults  *)
(* are bounded, so they end), and what is on its way arrives.  Nothing is  *)
(* assumed of a hub whose mirror went down.                                *)
(***************************************************************************)
Fairness ==
    /\ WF_vars(EventApplied)
    /\ WF_vars(BuildCompactStatus \/ BuildRouterStatus)
    /\ WF_vars(PollStarts)
    /\ WF_vars(CompactStatus \/ RouterStatus \/ RestartDone)

FairSpec == Spec /\ Fairness

-------------------------------------------------------------------------------
(***************************************************************************)
(* Properties.                                                             *)
(***************************************************************************)
\* A status that would be skipped as unchanged is what the model shows, except
\* where an event wrote since, or something that a listener cut short: no failure
\* between reading a status and the end of its distribution may let the CRC through.
GateIsSafe ==
    lastCrc \in Status => \A m \in DOMAIN lastCrc \ (touched \cup torn) : value[m] = lastCrc[m]

\* start_mirror is sent at most once for each time the mirror went down: only
\* the up->down edge restarts it, also across failed and cancelled polls.
RestartsMatchReboots == count["restarts"] <= count["reboots"]

\* The restart never strikes a hub that is still in its own start-up.
NoRestartDuringStartup == pc = "restart" => mirror # "coming_up"

\* Every poll that no fault and no listener ends early leaves router readings at least as new as its
\* start, on a quiet bus too: the read of the router status is not gated by the
\* CRC of the modules.
ReadingsAreFresh ==
    [][Built /\ pc # "idle" /\ pc' = "idle" /\ count'["faults"] = count["faults"] /\ raises' = raises
           => shown' >= atStart]_vars

\* With every event delivered, the model ends up equal to the bus although
\* statuses and events overtake each other, but for modules that a listener which
\* raised left torn.
ConvergesWithEvents ==
    <>[](count["lost"] > 0 \/ \A m \in Module : value[m] = bus[m] \/ m \in torn)

\* What a listener cut short is made good by a later poll, unless the bus goes back
\* to the status whose CRC the consumer held then: that one the gate skips.
TornIsRepaired == torn # {} ~> (torn = {} \/ bus = cutFrom)

\* A mirror known to be running that goes down comes up again, even on a hub
\* that never recovers by itself, unless the poll that saw it go down could not
\* restart it: start_mirror failed, or a listener of router.states raised before it.
MirrorRecovers == (Built /\ mirrorStarted /\ mirror = "down") ~> (mirror = "up" \/ owed)

\* _setup.py:156 "the next poll retries the edge" and the log of line 160
\* "will retry next poll": a poll that finds the mirror still down after a
\* failed restart sends another one.
FailedRestartIsRetried ==
    [][RouterStatus /\ owed /\ mirror # "up" => pc' = "restart"]_vars
===============================================================================
