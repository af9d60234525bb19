------------------------- MODULE SystemRefreshProofs -------------------------
(***************************************************************************)
(* Proofs about SystemRefresh for every set of modules and values and      *)
(* every bound.                                                            *)
(***************************************************************************)
EXTENDS SystemRefresh, TLAPS

-------------------------------------------------------------------------------
(***************************************************************************)
(* Types.                                                                  *)
(***************************************************************************)
\* Counting one more occurrence keeps the counters natural numbers.
LEMMA HappensType ==
  ASSUME count \in [Counted -> Nat], NEW n \in Counted, Happens(n)
  PROVE  count' \in [Counted -> Nat]
  BY DEF Happens

\* Distributing a status replaces values by values of that status; a short one
\* replaces none.
LEMMA DistributeType ==
  ASSUME value \in [Module -> Value], NEW status \in Status \cup {Short}, Distribute(status)
  PROVE  value' \in [Module -> Value]
  <1>1. CASE status = Short  BY <1>1 DEF Distribute, Blocks
  <1>2. CASE status # Short
    <2>1. PICK S \in SUBSET Module : status \in [S -> Value]  BY <1>2 DEF Status
    <2> QED  BY <1>2, <2>1 DEF Distribute, Blocks
  <1> QED  BY <1>1, <1>2

\* Whatever is left of a compact status is a status.
LEMMA StatusType ==
  ASSUME bus \in [Module -> Value]
  PROVE  bus \in Status /\ CutStatus \subseteq Status
  <1>1. bus \in Status  BY DEF Status
  <1>2. ASSUME NEW status \in CutStatus  PROVE status \in Status
    <2>1. PICK S \in SUBSET Module : status = [m \in S |-> bus[m]]  BY DEF CutStatus
    <2>2. status \in [S -> Value]  BY <2>1
    <2> QED  BY <2>2 DEF Status
  <1> QED  BY <1>1, <1>2

\* What the history of raising listeners holds.
WrittenType ==
    /\ touched \subseteq Module /\ torn \subseteq Module
    /\ cutFrom \in Status \cup {Short, NoCrc}
    /\ raises \in 0..MaxRaises

\* One more listener that raises stays within the bound.
LEMMA RaisesType ==
  ASSUME raises \in 0..MaxRaises, ListenerRaises
  PROVE  raises' \in 0..MaxRaises
  <1>1. MaxRaises \in Nat  BY BoundsAssumption
  <1> QED  BY <1>1 DEF ListenerRaises

\* A status distributed as a whole, or the gate closed.
LEMMA DistributesType ==
  ASSUME TypeOK, Distributes
  PROVE  /\ lastCrc' \in Status \cup {Short, NoCrc}
         /\ value' \in [Module -> Value]
         /\ WrittenType'
  <1>1. lastCrc' \in Status \cup {Short, NoCrc}  BY DEF TypeOK, Distributes
  <1>2. cutFrom' \in Status \cup {Short, NoCrc} /\ raises' \in 0..MaxRaises
    BY DEF TypeOK, Distributes
  <1>3. value' \in [Module -> Value] /\ touched' \subseteq Module /\ torn' \subseteq Module
    <2>1. CASE IsDistributed
      <3>1. value' \in [Module -> Value]  BY <2>1, DistributeType DEF TypeOK, Distributes
      <3> QED  BY <2>1, <3>1 DEF TypeOK, Distributes
    <2>2. CASE ~IsDistributed  BY <2>2 DEF TypeOK, Distributes
    <2> QED  BY <2>1, <2>2
  <1> QED  BY <1>1, <1>2, <1>3 DEF WrittenType

\* A distribution that a listener cuts short writes values of the status, and one
\* that may be anything, to modules the status names.
LEMMA DistributionRaisesType ==
  ASSUME TypeOK, DistributionRaises
  PROVE  /\ lastCrc' = lastCrc /\ touched' = touched
         /\ value' \in [Module -> Value]
         /\ WrittenType'
  <1>1. PICK S \in SUBSET Module : sysStatus \in [S -> Value]
    BY DEF TypeOK, DistributionRaises, IsDistributed, Status
  <1>2. PICK m \in S : \E before \in SUBSET (S \ {m}) : DistributesUpTo(m, before)
    BY <1>1 DEF DistributionRaises
  <1>3. PICK before \in SUBSET (S \ {m}) : DistributesUpTo(m, before)  BY <1>2
  <1>4. PICK v \in Value :
          value' = [n \in Module |-> IF n = m THEN v
                                    ELSE IF n \in before THEN sysStatus[n] ELSE value[n]]
    BY <1>1, <1>2, <1>3 DEF DistributesUpTo, TypeOK
  <1>5. value' \in [Module -> Value]  BY <1>1, <1>3, <1>4 DEF TypeOK
  <1>6. torn' \subseteq Module  BY <1>1, <1>2, <1>3 DEF DistributesUpTo, TypeOK
  <1>7. raises' \in 0..MaxRaises  BY RaisesType DEF TypeOK, DistributionRaises
  <1>8. cutFrom' \in Status \cup {Short, NoCrc}  BY DEF TypeOK, DistributionRaises
  <1>9. lastCrc' = lastCrc /\ touched' = touched  BY DEF DistributionRaises
  <1> QED  BY <1>5, <1>6, <1>7, <1>8, <1>9 DEF WrittenType, TypeOK

\* The end of a poll keeps the types of what it writes.
LEMMA ReturnType ==
  ASSUME TypeOK, Return
  PROVE  /\ pc' = "idle"
         /\ lastCrc' \in Status \cup {Short, NoCrc}
         /\ value' \in [Module -> Value]
         /\ WrittenType'
  <1>1. CASE Distributes  BY <1>1, DistributesType DEF Return
  <1>2. CASE DistributionRaises  BY <1>2, DistributionRaisesType DEF Return, TypeOK
  <1> QED  BY <1>1, <1>2 DEF Return

\* Nothing is handed back before the build has returned, so it may overwrite the
\* model.
BuildInv == ~Built => lastCrc = NoCrc

\* Every variable keeps its type in every step.
LEMMA TypeInductive == TypeOK /\ BuildInv /\ [Next]_vars => TypeOK'
  <1> SUFFICES ASSUME TypeOK, BuildInv, [Next]_vars PROVE TypeOK'  OBVIOUS
  <1>1. ASSUME NEW m \in Module, NEW v \in Value, ChangePushed(m, v)  PROVE TypeOK'
    <2>1. bus' \in [Module -> Value]  BY <1>1 DEF TypeOK, ChangePushed, BusChange
    <2>2. events' \in Seq(Module \X Value)  BY <1>1 DEF TypeOK, ChangePushed
    <2>3. count' \in [Counted -> Nat]  BY <1>1, HappensType DEF TypeOK, ChangePushed, Counted
    <2> QED  BY <1>1, <2>1, <2>2, <2>3 DEF TypeOK, ChangePushed, BusChange, client, written
  <1>2. ASSUME NEW m \in Module, NEW v \in Value, ChangeUnseen(m, v)  PROVE TypeOK'
    <2>1. bus' \in [Module -> Value]  BY <1>2 DEF TypeOK, ChangeUnseen, BusChange
    <2>2. count' \in [Counted -> Nat]
      <3>1. count' = [count EXCEPT !["changes"] = @ + 1, !["lost"] = @ + 1]
        BY <1>2 DEF ChangeUnseen
      <3>2. count \in [Counted -> Nat]  BY DEF TypeOK
      <3> QED  BY <3>1, <3>2 DEF Counted
    <2> QED  BY <1>2, <2>1, <2>2 DEF TypeOK, ChangeUnseen, BusChange, client, written
  <1>3. CASE TelemetryMoves
    <2>1. telemetry' \in 1..(MaxTelemetry + 1)
      BY <1>3, BoundsAssumption DEF TypeOK, TelemetryMoves
    <2> QED  BY <1>3, <2>1 DEF TypeOK, TelemetryMoves, client, written
  <1>4. CASE Reboot
    <2>1. count' \in [Counted -> Nat]  BY <1>4, HappensType DEF TypeOK, Reboot, Counted
    <2> QED  BY <1>4, <2>1 DEF TypeOK, Reboot, client, written
  <1>5. CASE MirrorUp  BY <1>5 DEF TypeOK, MirrorUp, client, written
  <1>6. CASE EventApplied
    <2>1. Head(events) \in Module \X Value /\ events' \in Seq(Module \X Value)
      BY <1>6 DEF TypeOK, EventApplied
    <2>2. value' \in [Module -> Value] /\ touched' \subseteq Module
      BY <1>6, <2>1 DEF TypeOK, EventApplied
    <2> QED  BY <1>6, <2>1, <2>2 DEF TypeOK, EventApplied
  <1>7. CASE BuildCompactStatus
    <2>1. sysStatus' \in Status \cup {Short}  BY <1>7, StatusType DEF TypeOK, BuildCompactStatus
    <2>2. count' \in [Counted -> Nat]
      BY <1>7, HappensType DEF TypeOK, BuildCompactStatus, Counted
    <2> QED  BY <1>7, <2>1, <2>2 DEF TypeOK, BuildCompactStatus, hub, written
  <1>8. CASE BuildRouterStatus
    <2>1. value' \in [Module -> Value]  BY <1>8, DistributeType DEF TypeOK, BuildRouterStatus
    <2>2. shown' \in 0..(MaxTelemetry + 1)
      BY <1>8, BoundsAssumption DEF TypeOK, BuildRouterStatus
    <2> QED  BY <1>8, <2>1, <2>2 DEF TypeOK, BuildRouterStatus, hub, written
  <1>9. CASE BuildRaises
    <2>1. count' \in [Counted -> Nat]  BY <1>9, HappensType DEF TypeOK, BuildRaises, Counted
    <2> QED  BY <1>9, <2>1 DEF TypeOK, BuildRaises, hub, written
  <1>10. CASE PollStarts
    <2>1. atStart' \in 0..(MaxTelemetry + 1)  BY <1>10, BoundsAssumption DEF TypeOK, PollStarts
    <2> QED  BY <1>10, <2>1 DEF TypeOK, PollStarts, hub, written
  <1>11. CASE CompactStatus
    <2>1. bus \in Status  BY StatusType DEF TypeOK
    <2> QED  BY <1>11, <2>1 DEF TypeOK, CompactStatus, CompactRead, hub, written
  <1>12. CASE CompactStatusDegraded
    <2>1. PICK status \in CutStatus \cup {Short} : CompactRead(status)
      BY <1>12 DEF CompactStatusDegraded
    <2>2. status \in Status \cup {Short}  BY <2>1, StatusType DEF TypeOK
    <2>3. count' \in [Counted -> Nat]
      BY <1>12, HappensType DEF TypeOK, CompactStatusDegraded, Counted
    <2> QED  BY <2>1, <2>2, <2>3 DEF TypeOK, CompactRead, hub, written
  <1>13. CASE RouterStatus
    <2>1. (pc' = "restart" /\ UNCHANGED <<value, lastCrc, written>>) \/ Return
      BY <1>13 DEF RouterStatus
    <2>2. /\ pc' \in {"restart", "idle"}
          /\ lastCrc' \in Status \cup {Short, NoCrc}
          /\ value' \in [Module -> Value]
          /\ WrittenType'
      BY <2>1, ReturnType DEF TypeOK, WrittenType, written
    <2>3. shown' \in 0..(MaxTelemetry + 1)  BY <1>13, BoundsAssumption DEF TypeOK, RouterStatus
    <2>4. owed' \in BOOLEAN /\ mirrorStarted' \in BOOLEAN  BY <1>13 DEF TypeOK, RouterStatus
    <2> QED  BY <1>13, <2>2, <2>3, <2>4 DEF TypeOK, WrittenType, RouterStatus, hub
  <1>14. CASE RouterStatusShort
    <2>1. count' \in [Counted -> Nat]
      BY <1>14, HappensType DEF TypeOK, RouterStatusShort, Counted
    <2> QED  BY <1>14, <2>1, ReturnType DEF TypeOK, WrittenType, RouterStatusShort, hub
  <1>15. CASE RouterStatusCut
    <2>1. count' \in [Counted -> Nat]
      BY <1>15, HappensType DEF TypeOK, RouterStatusCut, Counted
    <2>2. shown' \in 0..(MaxTelemetry + 1)
      BY <1>15, BoundsAssumption DEF TypeOK, RouterStatusCut
    <2> QED  BY <1>15, <2>1, <2>2 DEF TypeOK, RouterStatusCut, hub, written
  <1>16. CASE RestartDone
    <2>1. count' \in [Counted -> Nat]
      BY <1>16, HappensType DEF TypeOK, RestartDone, Counted
    <2> QED  BY <1>16, <2>1, ReturnType DEF TypeOK, WrittenType, RestartDone
  <1>17. CASE RestartFails
    <2>1. count' \in [Counted -> Nat]  BY <1>17 DEF TypeOK, RestartFails, Counted
    <2> QED  BY <1>17, <2>1, ReturnType DEF TypeOK, WrittenType, RestartFails
  <1>18. CASE PollRaises
    <2>1. count' \in [Counted -> Nat]  BY <1>18, HappensType DEF TypeOK, PollRaises, Counted
    <2> QED  BY <1>18, <2>1 DEF TypeOK, PollRaises, hub, written
  <1>19. CASE RestartCancelled
    <2>1. count' \in [Counted -> Nat]  BY <1>19 DEF TypeOK, RestartCancelled, Counted
    <2> QED  BY <1>19, <2>1 DEF TypeOK, RestartCancelled, written
  <1>20. CASE EventCutShort
    <2>1. Head(events) \in Module \X Value /\ events' \in Seq(Module \X Value)
      BY <1>20 DEF TypeOK, EventCutShort
    <2>2. value' \in [Module -> Value] /\ touched' \subseteq Module /\ torn' \subseteq Module
      BY <1>20, <2>1 DEF TypeOK, EventCutShort
    <2>3. raises' \in 0..MaxRaises  BY <1>20, RaisesType DEF TypeOK, EventCutShort
    <2> QED  BY <1>20, <2>1, <2>2, <2>3 DEF TypeOK, EventCutShort
  <1>21. CASE RouterStatusRaises
    <2>1. raises' \in 0..MaxRaises  BY <1>21, RaisesType DEF TypeOK, RouterStatusRaises
    <2>2. shown' \in 0..(MaxTelemetry + 1)
      BY <1>21, BoundsAssumption DEF TypeOK, RouterStatusRaises
    <2>3. owed' \in BOOLEAN /\ mirrorStarted' \in BOOLEAN
      BY <1>21 DEF TypeOK, RouterStatusRaises
    <2> QED  BY <1>21, <2>1, <2>2, <2>3 DEF TypeOK, RouterStatusRaises, hub
  <1>22. CASE UNCHANGED vars  BY <1>22 DEF TypeOK, vars, hub, client, written
  <1> QED
    BY <1>1, <1>2, <1>3, <1>4, <1>5, <1>6, <1>7, <1>8, <1>9, <1>10, <1>11, <1>12,
       <1>13, <1>14, <1>15, <1>16, <1>17, <1>18, <1>19, <1>20, <1>21, <1>22 DEF Next

-------------------------------------------------------------------------------
(***************************************************************************)
(* The CRC gate.                                                           *)
(***************************************************************************)
\* No poll runs before the build has returned.
LEMMA BuildInductive == TypeOK /\ BuildInv /\ [Next]_vars => BuildInv'
  <1> SUFFICES ASSUME TypeOK, BuildInv, [Next]_vars PROVE BuildInv'  OBVIOUS
  <1>1. CASE BuildCompactStatus \/ BuildRouterStatus \/ BuildRaises
    BY <1>1 DEF BuildInv, Built, BuildCompactStatus, BuildRouterStatus, BuildRaises
  <1>2. CASE PollStarts \/ CompactStatus \/ CompactStatusDegraded
    BY <1>2 DEF BuildInv, Built, PollStarts, CompactStatus, CompactStatusDegraded, CompactRead
  <1>3. CASE RouterStatus \/ RouterStatusRaises \/ RouterStatusShort \/ RouterStatusCut
    BY <1>3 DEF BuildInv, Built, RouterStatus, RouterStatusRaises, RouterStatusShort,
                RouterStatusCut, Return
  <1>4. CASE RestartDone \/ RestartFails \/ RestartCancelled \/ PollRaises
    BY <1>4 DEF BuildInv, Built, RestartDone, RestartFails, RestartCancelled, PollRaises, Return
  <1>5. CASE UNCHANGED <<pc, lastCrc>>  BY <1>5 DEF BuildInv, Built
  <1> QED
    BY <1>1, <1>2, <1>3, <1>4, <1>5
    DEF Next, ChangePushed, ChangeUnseen, BusChange, TelemetryMoves, Reboot, MirrorUp,
        EventApplied, EventCutShort, vars, client

\* Handing back a CRC shows its status, unless it was shown already or is none; a
\* distribution cut short hands none back, and its modules are torn.
LEMMA ReturnKeepsGate ==
  ASSUME TypeOK, GateIsSafe, Return
  PROVE  GateIsSafe'
  <1> SUFFICES ASSUME lastCrc' \in Status, NEW m \in DOMAIN lastCrc' \ (touched' \cup torn')
               PROVE  value'[m] = lastCrc'[m]
    BY DEF GateIsSafe
  <1>1. CASE Distributes
    <2>1. lastCrc' = sysStatus /\ sysStatus \in Status  BY <1>1 DEF Distributes
    <2>2. sysStatus # Short  BY <2>1, NullsAssumption
    <2>3. CASE sysStatus # lastCrc
      <3>1. PICK S \in SUBSET Module : sysStatus \in [S -> Value]  BY <2>1 DEF Status
      <3>2. m \in DOMAIN sysStatus /\ m \in Module  BY <2>1, <3>1
      <3>3. Distribute(sysStatus)  BY <1>1, <2>2, <2>3 DEF Distributes, IsDistributed
      <3> QED  BY <2>1, <2>2, <3>2, <3>3 DEF Distribute, Blocks
    <2>4. CASE sysStatus = lastCrc
      <3>1. UNCHANGED <<value, touched, torn>>  BY <1>1, <2>4 DEF Distributes, IsDistributed
      <3> QED  BY <2>1, <2>4, <3>1 DEF GateIsSafe
    <2> QED  BY <2>3, <2>4
  <1>2. CASE DistributionRaises
    <2>1. PICK S \in SUBSET Module : sysStatus \in [S -> Value]
      BY <1>2 DEF TypeOK, DistributionRaises, IsDistributed, Status
    <2>2. PICK n \in S : \E before \in SUBSET (S \ {n}) : DistributesUpTo(n, before)
      BY <1>2, <2>1 DEF DistributionRaises
    <2>3. PICK before \in SUBSET (S \ {n}) : DistributesUpTo(n, before)  BY <2>2
    <2>4. lastCrc' = lastCrc /\ touched' = touched  BY <1>2 DEF DistributionRaises
    <2>5. PICK T \in SUBSET Module : lastCrc \in [T -> Value]  BY <2>4 DEF Status
    <2>6. m \in Module /\ m # n /\ m \notin before /\ m \notin touched \cup torn
      BY <2>3, <2>4, <2>5 DEF DistributesUpTo
    <2>7. value'[m] = value[m]  BY <2>3, <2>6 DEF DistributesUpTo
    <2> QED  BY <2>4, <2>6, <2>7 DEF GateIsSafe
  <1> QED  BY <1>1, <1>2 DEF Return

\* Events are remembered in touched, the build runs without a CRC, and a poll
\* that ends without returning hands none back.
LEMMA GateInductive == TypeOK /\ BuildInv /\ GateIsSafe /\ [Next]_vars => GateIsSafe'
  <1> SUFFICES ASSUME TypeOK, BuildInv, GateIsSafe, [Next]_vars PROVE GateIsSafe'  OBVIOUS
  <1>1. CASE (EventApplied /\ Built) \/ EventCutShort
    <2>1. PICK v \in Value : value' = [value EXCEPT ![Head(events)[1]] = v]
      BY <1>1 DEF TypeOK, EventApplied, EventCutShort
    <2>2. /\ Head(events)[1] \in Module
          /\ touched' = touched \cup {Head(events)[1]}
          /\ torn \subseteq torn'
          /\ lastCrc' = lastCrc
      BY <1>1 DEF TypeOK, EventApplied, EventCutShort
    <2>3. \A m \in Module : m # Head(events)[1] => value'[m] = value[m]
      BY <2>1 DEF TypeOK
    <2> SUFFICES ASSUME lastCrc \in Status, NEW m \in DOMAIN lastCrc \ (touched' \cup torn')
                 PROVE  value'[m] = lastCrc[m]
      BY <2>2 DEF GateIsSafe
    <2>4. PICK S \in SUBSET Module : lastCrc \in [S -> Value]  BY DEF Status
    <2> QED  BY <2>2, <2>3, <2>4 DEF GateIsSafe
  <1>2. CASE BuildRouterStatus
    <2>1. lastCrc' = NoCrc  BY <1>2 DEF BuildInv, Built, BuildRouterStatus
    <2> QED  BY <2>1, NullsAssumption DEF GateIsSafe
  <1>3. CASE Return  BY <1>3, ReturnKeepsGate
  <1>4. CASE UNCHANGED <<value, lastCrc, touched, torn>>  BY <1>4 DEF GateIsSafe
  <1> QED
    BY <1>1, <1>2, <1>3, <1>4
    DEF Next, ChangePushed, ChangeUnseen, BusChange, TelemetryMoves, Reboot, MirrorUp,
        EventApplied, BuildCompactStatus, BuildRaises, PollStarts, CompactStatus,
        CompactStatusDegraded, CompactRead, RouterStatus, RouterStatusRaises,
        RouterStatusShort, RouterStatusCut, RestartDone, RestartFails, PollRaises,
        RestartCancelled, vars, client, written
-------------------------------------------------------------------------------
(***************************************************************************)
(* The mirror.                                                             *)
(***************************************************************************)
Bit(b) == IF b THEN 1 ELSE 0

\* A restart is paid for by a reboot: those sent, the one about to be sent, and
\* the edge that the next router status will find.
RestartBudget ==
    count["restarts"] + Bit(pc = "restart") + Bit(Built /\ mirrorStarted /\ mirror # "up")
        <= count["reboots"]

\* was_started is still the model's flag when the router status arrives, and
\* nobody takes a mirror for running that never came up.
MirrorInv ==
    /\ pc = "router" => wasStarted = mirrorStarted
    /\ pc = "restart" => mirror # "coming_up"
    /\ Built /\ mirror = "coming_up" => ~mirrorStarted

\* The flag is taken from the model by the poll that overwrites it.
LEMMA MirrorInductive ==
  ASSUME ~ShortAtBuild
  PROVE  TypeOK /\ MirrorInv /\ [Next]_vars => MirrorInv'
  <1> SUFFICES ASSUME TypeOK, MirrorInv, [Next]_vars PROVE MirrorInv'  OBVIOUS
  <1>1. CASE TelemetryMoves \/ Reboot \/ MirrorUp \/ EventApplied \/ EventCutShort
    BY <1>1 DEF MirrorInv, Built, TelemetryMoves, Reboot, MirrorUp, EventApplied,
                EventCutShort, client
  <1>2. CASE BuildCompactStatus \/ BuildRouterStatus \/ BuildRaises
    BY <1>2 DEF MirrorInv, Built, BuildCompactStatus, BuildRouterStatus, BuildRaises, hub
  <1>3. CASE PollStarts \/ CompactStatus \/ CompactStatusDegraded
    BY <1>3 DEF MirrorInv, Built, PollStarts, CompactStatus, CompactStatusDegraded, CompactRead, hub
  <1>4. CASE RouterStatus \/ RouterStatusRaises
    BY <1>4 DEF TypeOK, MirrorInv, Built, RouterStatus, RouterStatusRaises, Return, hub
  <1>5. CASE RouterStatusShort \/ RouterStatusCut \/ PollRaises
    BY <1>5 DEF MirrorInv, Built, RouterStatusShort, RouterStatusCut, PollRaises, Return, hub
  <1>6. CASE RestartDone \/ RestartFails \/ RestartCancelled
    BY <1>6 DEF MirrorInv, Built, RestartDone, RestartFails, RestartCancelled, Return
  <1>7. CASE UNCHANGED <<mirror, pc, mirrorStarted, wasStarted>>  BY <1>7 DEF MirrorInv, Built
  <1> QED
    BY <1>1, <1>2, <1>3, <1>4, <1>5, <1>6, <1>7
    DEF Next, ChangePushed, ChangeUnseen, BusChange, vars, client, hub

\* A reboot pays for one edge, an edge for one restart.
LEMMA BudgetInductive ==
  ASSUME ~ShortAtBuild
  PROVE  TypeOK /\ MirrorInv /\ RestartBudget /\ [Next]_vars => RestartBudget'
  <1> SUFFICES ASSUME TypeOK, MirrorInv, RestartBudget, [Next]_vars PROVE RestartBudget'  OBVIOUS
  <1>0. count["restarts"] \in Nat /\ count["reboots"] \in Nat  BY DEF TypeOK, Counted
  <1>1. CASE Reboot
    <2>1. count'["reboots"] = count["reboots"] + 1 /\ count'["restarts"] = count["restarts"]
      BY <1>1 DEF TypeOK, Counted, Reboot, Happens
    <2> QED  BY <1>0, <1>1, <2>1 DEF RestartBudget, Bit, Built, Reboot, client
  <1>2. CASE TelemetryMoves \/ MirrorUp \/ EventApplied \/ EventCutShort
    BY <1>0, <1>2 DEF RestartBudget, Bit, Built, TelemetryMoves, MirrorUp, EventApplied,
                      EventCutShort, client
  <1>3. CASE RouterStatus \/ RouterStatusRaises
    BY <1>0, <1>3 DEF TypeOK, MirrorInv, RestartBudget, Bit, Built, RouterStatus,
                      RouterStatusRaises, Return, hub
  <1>4. CASE RestartDone
    <2>1. count'["reboots"] = count["reboots"] /\ count'["restarts"] = count["restarts"] + 1
      BY <1>4 DEF TypeOK, Counted, RestartDone, Happens
    <2> QED  BY <1>0, <1>4, <2>1 DEF RestartBudget, Bit, Built, RestartDone, Return
  <1>5. CASE RestartFails \/ RestartCancelled
    <2>1. count'["reboots"] = count["reboots"] /\ count'["restarts"] = count["restarts"] + 1
      BY <1>5 DEF TypeOK, Counted, RestartFails, RestartCancelled
    <2> QED
      BY <1>0, <1>5, <2>1 DEF RestartBudget, Bit, Built, RestartFails, RestartCancelled, Return
  <1>6. CASE BuildRouterStatus
    BY <1>0, <1>6 DEF RestartBudget, Bit, Built, BuildRouterStatus, hub
  <1>7. CASE \/ BuildCompactStatus \/ BuildRaises \/ PollStarts \/ CompactStatus
             \/ CompactStatusDegraded \/ RouterStatusShort \/ RouterStatusCut \/ PollRaises
    <2>1. count'["reboots"] = count["reboots"] /\ count'["restarts"] = count["restarts"]
      BY <1>7 DEF TypeOK, Counted, Happens, BuildCompactStatus, BuildRaises, PollStarts,
                  CompactStatus, CompactStatusDegraded, CompactRead, RouterStatusShort,
                  RouterStatusCut, PollRaises
    <2>2. /\ mirror' = mirror /\ mirrorStarted' = mirrorStarted
          /\ Built' = Built
          /\ pc # "restart" /\ pc' # "restart"
      BY <1>7 DEF Built, BuildCompactStatus, BuildRaises, PollStarts, CompactStatus,
                  CompactStatusDegraded, CompactRead, RouterStatusShort, RouterStatusCut,
                  PollRaises, Return, hub
    <2> QED  BY <1>0, <2>1, <2>2 DEF RestartBudget, Bit
  <1>8. CASE \E m \in Module, v \in Value : ChangePushed(m, v) \/ ChangeUnseen(m, v)
    <2>1. count'["reboots"] = count["reboots"] /\ count'["restarts"] = count["restarts"]
      BY <1>8 DEF TypeOK, Counted, Happens, ChangePushed, ChangeUnseen
    <2> QED
      BY <1>0, <1>8, <2>1
      DEF RestartBudget, Bit, Built, ChangePushed, ChangeUnseen, BusChange, client
  <1>9. CASE UNCHANGED vars  BY <1>9 DEF RestartBudget, Bit, Built, vars, hub, client
  <1> QED
    BY <1>1, <1>2, <1>3, <1>4, <1>5, <1>6, <1>7, <1>8, <1>9 DEF Next

-------------------------------------------------------------------------------
(***************************************************************************)
(* The router's readings.                                                  *)
(***************************************************************************)
\* A poll is not older than the readings on the bus, nor, once it has read
\* them, than the readings in the model.
ReadingsInv ==
    /\ pc \in {"compact", "router"} => atStart <= telemetry
    /\ pc = "restart" => atStart <= shown

\* Telemetry only grows, and the full router status brings it into the model.
LEMMA ReadingsInductive == TypeOK /\ ReadingsInv /\ [Next]_vars => ReadingsInv'
  <1> SUFFICES ASSUME TypeOK, ReadingsInv, [Next]_vars PROVE ReadingsInv'  OBVIOUS
  <1>0. telemetry \in Nat /\ atStart \in Nat /\ shown \in Nat  BY BoundsAssumption DEF TypeOK
  <1>1. CASE TelemetryMoves  BY <1>0, <1>1 DEF ReadingsInv, TelemetryMoves, client
  <1>2. CASE PollStarts  BY <1>0, <1>2 DEF ReadingsInv, PollStarts, hub
  <1>3. CASE CompactStatus \/ CompactStatusDegraded
    BY <1>3 DEF ReadingsInv, CompactStatus, CompactStatusDegraded, CompactRead, hub
  <1>4. CASE RouterStatus  BY <1>4 DEF ReadingsInv, RouterStatus, Return, hub
  <1>5. CASE pc' \in {"build", "build_router", "idle"}  BY <1>5 DEF ReadingsInv
  <1>6. CASE UNCHANGED <<telemetry, pc, shown, atStart>>  BY <1>6 DEF ReadingsInv
  <1> QED
    BY <1>1, <1>2, <1>3, <1>4, <1>5, <1>6
    DEF Next, ChangePushed, ChangeUnseen, BusChange, Reboot, MirrorUp, EventApplied,
        EventCutShort, BuildCompactStatus, BuildRouterStatus, BuildRaises,
        RouterStatusRaises, RouterStatusShort, RouterStatusCut, RestartDone, RestartFails, RestartCancelled, PollRaises, Return, vars, hub, client

\* A poll that neither a fault nor a listener ends early ends with the router status
\* or the restart.
LEMMA ReadingsStep ==
  TypeOK /\ ReadingsInv /\ [Next]_vars
    => (Built /\ pc # "idle" /\ pc' = "idle" /\ count'["faults"] = count["faults"]
             /\ raises' = raises
           => shown' >= atStart)
  <1> SUFFICES ASSUME TypeOK, ReadingsInv, [Next]_vars,
                      Built, pc # "idle", pc' = "idle", count'["faults"] = count["faults"],
                      raises' = raises
               PROVE  shown' >= atStart
    OBVIOUS
  <1>0. /\ telemetry \in Nat /\ atStart \in Nat /\ shown \in Nat
        /\ count["faults"] \in Nat /\ raises \in Nat
    BY BoundsAssumption DEF TypeOK, Counted
  <1>1. CASE RouterStatus  BY <1>0, <1>1 DEF ReadingsInv, RouterStatus
  <1>2. CASE RestartDone \/ RestartFails \/ RestartCancelled
    BY <1>0, <1>2 DEF ReadingsInv, RestartDone, RestartFails, RestartCancelled
  <1>3. CASE RouterStatusRaises
    BY <1>0, <1>3 DEF RouterStatusRaises, ListenerRaises
  <1>4. CASE RouterStatusShort \/ RouterStatusCut \/ PollRaises
    BY <1>0, <1>4 DEF TypeOK, Counted, Happens, RouterStatusShort, RouterStatusCut, PollRaises
  <1> QED
    BY <1>1, <1>2, <1>3, <1>4
    DEF Next, Built, ChangePushed, ChangeUnseen, BusChange, TelemetryMoves, Reboot, MirrorUp,
        EventApplied, EventCutShort, BuildCompactStatus, BuildRouterStatus, BuildRaises,
        PollStarts, CompactStatus, CompactStatusDegraded, CompactRead, vars, client

-------------------------------------------------------------------------------
(***************************************************************************)
(* The theorems.                                                           *)
(***************************************************************************)
IInv == TypeOK /\ BuildInv /\ GateIsSafe /\ ReadingsInv

\* A router that was just created satisfies the invariants.
LEMMA InitInv == Init => IInv /\ MirrorInv /\ RestartBudget
  <1> SUFFICES ASSUME Init PROVE IInv /\ MirrorInv /\ RestartBudget  OBVIOUS
  <1>1. PICK v \in Value : value = [m \in Module |-> v]  BY DEF Init
  <1>2. events \in Seq(Module \X Value)
    <2>1. <<>> \in Seq(Module \X Value)  OBVIOUS
    <2> QED  BY <2>1 DEF Init
  <1>3. TypeOK
    <2>1. MaxTelemetry \in Nat  BY BoundsAssumption
    <2>2. /\ telemetry \in 1..(MaxTelemetry + 1)
          /\ shown \in 0..(MaxTelemetry + 1) /\ atStart \in 0..(MaxTelemetry + 1)
          /\ raises \in 0..MaxRaises
      BY <2>1, BoundsAssumption DEF Init
    <2>3. value \in [Module -> Value]  BY <1>1
    <2>4. count \in [Counted -> Nat]  BY DEF Init
    <2> QED  BY <1>2, <2>2, <2>3, <2>4 DEF Init, TypeOK
  <1>4. BuildInv /\ ReadingsInv /\ MirrorInv  BY DEF Init, BuildInv, ReadingsInv, MirrorInv, Built
  <1>5. GateIsSafe  BY NullsAssumption DEF Init, GateIsSafe
  <1>6. RestartBudget  BY DEF Init, RestartBudget, Bit, Built, Counted
  <1> QED  BY <1>3, <1>4, <1>5, <1>6 DEF IInv

\* The inductive invariant of the poll holds throughout.
LEMMA Invariance == Spec => []IInv
  <1>1. Init => IInv  BY InitInv
  <1>2. IInv /\ [Next]_vars => IInv'
    BY TypeInductive, BuildInductive, GateInductive, ReadingsInductive DEF IInv
  <1> QED  BY <1>1, <1>2, PTL DEF Spec

\* Every variable of the refresh stays in its type.
THEOREM TypeCorrect == Spec => []TypeOK
  <1>1. IInv => TypeOK  BY DEF IInv
  <1> QED  BY <1>1, Invariance, PTL

\* A compact status that the next poll would skip as unchanged is shown by the
\* model, for any modules, values and failures, but for modules an event wrote to
\* since and those a raising listener left torn.
THEOREM GateHolds == Spec => []GateIsSafe
  <1>1. IInv => GateIsSafe  BY DEF IInv
  <1> QED  BY <1>1, Invariance, PTL

\* A poll that neither a fault nor a raising listener ends early leaves readings no older than its start.
THEOREM ReadingsStayFresh == Spec => ReadingsAreFresh
  <1>1. IInv /\ [Next]_vars =>
          [Built /\ pc # "idle" /\ pc' = "idle" /\ count'["faults"] = count["faults"]
             /\ raises' = raises
               => shown' >= atStart]_vars
    BY ReadingsStep DEF IInv
  <1> QED  BY <1>1, Invariance, PTL DEF Spec, ReadingsAreFresh

\* When the router status of the build is never short, the mirror is restarted
\* at most once per reboot and never while it comes up for the first time.
THEOREM RestartsAreSound ==
  ASSUME ~ShortAtBuild
  PROVE  Spec => [](RestartsMatchReboots /\ NoRestartDuringStartup)
  <1>1. Init => MirrorInv /\ RestartBudget  BY InitInv
  <1>2. TypeOK /\ MirrorInv /\ RestartBudget /\ [Next]_vars => MirrorInv' /\ RestartBudget'
    BY MirrorInductive, BudgetInductive
  <1>3. TypeOK /\ MirrorInv /\ RestartBudget => RestartsMatchReboots /\ NoRestartDuringStartup
    BY DEF TypeOK, Counted, MirrorInv, RestartBudget, Bit, RestartsMatchReboots, NoRestartDuringStartup
  <1> QED  BY <1>1, <1>2, <1>3, TypeCorrect, PTL DEF Spec

\* The same statement for the start-up alone: a poll never restarts a mirror that
\* the hub has not brought up yet.
THEOREM StartupIsNotDisturbed ==
  ASSUME ~ShortAtBuild
  PROVE  Spec => []NoRestartDuringStartup
  BY RestartsAreSound, PTL
===============================================================================
