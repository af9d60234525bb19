--------------------------------- MODULE Setup ---------------------------------
(***************************************************************************)
(* _setup.py as a consumer uses it: async_build_hub, and with the hub at   *)
(* hand async_build_system and async_refresh_hub.                          *)
(***************************************************************************)
EXTENDS SystemBuild, HostReadings

vars == <<buildVars, hostVars>>

Init == BuildInit /\ HostInit

\* The build takes the hub's uid, or the consumer's stand-in for an empty one.
\* It shares no state with the host polls: a behaviour here follows one of the two.
BuildStep == hub.built /\ ~hostValid /\ BuildNext /\ UNCHANGED hostVars

HostStep == step = "idle" /\ HostNext /\ UNCHANGED buildVars

Next == BuildStep \/ HostStep

Spec == Init /\ [][Next]_vars
===============================================================================
