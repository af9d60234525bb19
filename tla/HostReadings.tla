----------------------------- MODULE HostReadings -----------------------------
(***************************************************************************)
(* The hub itself (_models.py, async_build_hub and async_refresh_hub in    *)
(* _setup.py): its identity, and the host readings a consumer polls.       *)
(***************************************************************************)
EXTENDS Integers, Sequences, FiniteSets

CONSTANTS
    HubInfos,       \* what a hub reports of itself: [lan, wlan, mac, platform, slug]
    HostTable,      \* _HOST_READINGS, the readings in their order
    LogLevels,      \* those of them that pass through int()
    Readings,       \* the numbers a reading may have, 0 the members' default
    MaxHostRaises   \* bound on listeners that raise

ASSUME HostAssumption ==
    /\ HostTable \in Seq(STRING)
    /\ LogLevels \subseteq {HostTable[i] : i \in 1..Len(HostTable)}
    /\ 0 \in Readings
    /\ MaxHostRaises \in Nat

VARIABLES
    hub,            \* what parse_smhub_info made of the hub
    hostValid,      \* a host poll has succeeded
    hostValue,      \* the members' values, by reading
    hostFired,      \* members whose listeners the last step called
    hostHeard,      \* members whose listeners were ever called
    hostDeaf,       \* members one of whose listeners raised in the last step
    hostError,      \* what the last call raised: "none", "habitron" or "other"
    hostRaises

hostVars == <<hub, hostValid, hostValue, hostFired, hostHeard, hostDeaf, hostError, hostRaises>>

HostNames == {HostTable[i] : i \in 1..Len(HostTable)}

HostInit ==
    /\ hub = [built |-> FALSE, uid |-> "", macs |-> {}, slug |-> "", members |-> {}]
    /\ hostValid = FALSE
    /\ hostValue = [n \in HostNames |-> 0]
    /\ hostFired = {} /\ hostHeard = {} /\ hostDeaf = {}
    /\ hostError = "none" /\ hostRaises = 0

Fails(kind) ==
    /\ hostError' = kind
    /\ hostFired' = {} /\ hostDeaf' = {}
    /\ UNCHANGED <<hub, hostValid, hostValue, hostHeard, hostRaises>>

-------------------------------------------------------------------------------
IsIdentity(mac) == mac \in {"lan", "wlan", "mac"}     \* normalise_mac accepts it

\* An address is one of three real ones, a placeholder, or "null"; the identity is that
\* of the LAN alone.
\* async_build_hub: an answer without the paths of _INFO_PATHS raises.
BuildHub ==
    /\ ~hub.built
    /\ \/ Fails("habitron")
       \/ \E info \in HubInfos :
            /\ hub' = [built |-> TRUE,
                       uid |-> IF IsIdentity(info.lan) THEN info.lan ELSE "",
                       macs |-> {m \in {info.lan, info.wlan, info.mac} : IsIdentity(m)},
                       slug |-> IF info.slug = "addon" THEN "addon" ELSE "",
                       members |-> IF info.platform = "pi" THEN HostNames ELSE {}]
            /\ hostError' = "none"
            /\ UNCHANGED <<hostValid, hostValue, hostFired, hostHeard, hostDeaf, hostRaises>>

\* A reading of an update: a number, infinite, nan, or no number at all.
Nan == -1
NoNumber == -2
Infinite == -3
Updates == [HostNames -> Readings \cup {Infinite, Nan, NoNumber}]

\* Fault: only the first poll is announced.
FaultAnnounced(n, v) == ~hostValid

\* Fault: a reading that equals the member's default is never announced.
FaultFirstPoll(n, v) == hostValue[n] # v

\* A member is notified when its value changed (nan always did), or by the first poll.
Announced(n, v) == hostValue[n] # v \/ v = Nan \/ ~hostValid

\* apply_host_diagnostics: in the table's order, up to a listener that raises.
ApplyHostDiagnostics(update) ==
    LET Upto(k) == {HostTable[i] : i \in 1..k}
        Write(k) == [n \in HostNames |-> IF n \in Upto(k) \cap hub.members THEN update[n] ELSE hostValue[n]]
        Fired(k) == {n \in Upto(k) \cap hub.members : Announced(n, update[n])}
    IN  /\ hostValid' = TRUE
        /\ \/ /\ hostValue' = Write(Len(HostTable))
              /\ hostFired' = Fired(Len(HostTable))
              /\ hostDeaf' = {}
              /\ hostError' = "none"
              /\ UNCHANGED hostRaises
           \/ /\ hostRaises < MaxHostRaises
              /\ hostRaises' = hostRaises + 1
              /\ \E k \in 1..Len(HostTable) :
                    /\ HostTable[k] \in Fired(k)
                    /\ hostValue' = Write(k)
                    /\ hostFired' = Fired(k) \ {HostTable[k]}
                    /\ hostDeaf' = {HostTable[k]}
              /\ hostError' = "other"
        /\ hostHeard' = hostHeard \cup hostFired'
        /\ UNCHANGED hub

\* Fault: a log level is taken as it came.
FaultVerdict(update) == "none"

\* parse_host_diagnostics converts the readings in order, before any member is touched;
\* the first that fails decides: no number is a HabitronError, a log level that is nan
\* or infinite fails in int() with a ValueError or an OverflowError.
Verdict(update) ==
    LET Bad(n)   == update[n] = NoNumber \/ (n \in LogLevels /\ update[n] \in {Nan, Infinite})
        failures == {k \in 1..Len(HostTable) : Bad(HostTable[k])}
        first    == CHOOSE k \in failures : \A j \in failures : k <= j
    IN  IF failures = {} THEN "none"
        ELSE IF update[HostTable[first]] = NoNumber THEN "habitron" ELSE "other"

\* async_refresh_hub: no read at all for a hub without members.
RefreshHub ==
    /\ hub.built
    /\ hub.members # {}
    /\ \/ Fails("habitron")                     \* no answer, or a path is missing
       \/ \E update \in Updates :
            \/ Verdict(update) # "none" /\ Fails(Verdict(update))
            \/ Verdict(update) = "none" /\ ApplyHostDiagnostics(update)

HostNext == BuildHub \/ RefreshHub
HostSpec == HostInit /\ [][HostNext]_hostVars

-------------------------------------------------------------------------------
(***************************************************************************)
(* Properties.                                                             *)
(***************************************************************************)
\* Whatever a hub answers, a member holds its default or a number, a log level an
\* integer; only a hub that reports an address of its own has an identity.
HostTypeOK ==
    /\ hostValid \in BOOLEAN
    /\ hostValue \in [HostNames -> Readings \cup {Infinite, Nan}]
    /\ \A n \in LogLevels : hostValue[n] \notin {Infinite, Nan}
    /\ hub.members \subseteq HostNames
    /\ hub.uid \in {""} \cup hub.macs
    /\ hostFired \cup hostHeard \cup hostDeaf \subseteq HostNames
    /\ hostError \in {"none", "habitron", "other"}
    /\ hostRaises \in 0..MaxHostRaises

\* host_valid means that every reading was announced once, also the one that equals
\* its default, unless a listener raised: apply_host_diagnostics sets it first.
FirstPollNotifiesAll == hostValid /\ hostRaises = 0 => hub.members \subseteq hostHeard

\* A reading that changes calls its listeners, also when another one's raises.
HostChangesHeard ==
    [][\A n \in HostNames : hostValue'[n] # hostValue[n] => n \in hostFired' \cup hostDeaf']_hostVars
===============================================================================
