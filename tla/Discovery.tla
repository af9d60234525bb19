------------------------------- MODULE Discovery -------------------------------
(***************************************************************************)
(* discovery.py: the broadcast discover_smarthubs, test_connection with a  *)
(* client of its own, and query_smarthub.  Time is counted in ticks; the   *)
(* datagrams (external) come in any order, any number of times, and some   *)
(* are no identification.                                                  *)
(***************************************************************************)
EXTENDS Integers, Sequences, FiniteSets

CONSTANTS
    Hosts,          \* addresses that may send datagrams
    Window,         \* _DISCOVERY_TIMEOUT and _QUERY_TIMEOUT in ticks
    MaxInbox        \* bound on datagrams not yet taken from the queue

ASSUME DiscoveryAssumption == Window \in Nat \ {0} /\ MaxInbox \in Nat \ {0}

VARIABLES
    task,           \* the running call: "idle", "discovering", "connecting", "checking", "querying"
    socket,         \* the datagram endpoint is open
    inbox,          \* _DiscoveryProtocol.queue
    left,           \* ticks to the deadline
    found,          \* what discover_smarthubs returns, by address
    seenHosts,      \* seen
    identified,     \* hosts that sent an identification since the call began
    target,         \* the host under test
    testClient,     \* the test's client: "none", "created" or "closed"
    verdict         \* of the last test: "none", "ok" or "failed"

discoveryVars == <<task, socket, inbox, left, found, seenHosts, identified, target, testClient, verdict>>

Datagrams == [from : Hosts, isHub : BOOLEAN]    \* isHub: _parse_descriptor returns one

DiscoveryInit ==
    /\ task = "idle" /\ socket = FALSE
    /\ inbox = <<>> /\ left = 0
    /\ found = <<>> /\ seenHosts = {} /\ identified = {}
    /\ target = "none" /\ testClient = "none" /\ verdict = "none"

\* An endpoint is opened for a call.
Open(call) ==
    /\ task' = call
    /\ socket' = TRUE
    /\ inbox' = <<>> /\ identified' = {}
    /\ left' = Window

\* finally: transport.close()
Close == socket' = FALSE /\ inbox' = <<>> /\ left' = 0 /\ identified' = {}

-------------------------------------------------------------------------------
Discover ==         \* an endpoint that cannot be opened raises
    /\ task = "idle"
    /\ Open("discovering")
    /\ found' = <<>> /\ seenHosts' = {}
    /\ UNCHANGED <<target, testClient, verdict>>

\* datagram_received; a connected endpoint hears only its target.
Arrive ==
    /\ socket
    /\ Len(inbox) < MaxInbox
    /\ \E d \in Datagrams :
        /\ task = "querying" => d.from = target
        /\ inbox' = Append(inbox, d)
        /\ identified' = IF d.isHub THEN identified \cup {d.from} ELSE identified
    /\ UNCHANGED <<task, socket, left, found, seenHosts, target, testClient, verdict>>

\* Fault: the timeout is counted from the last datagram.
FaultRemaining == Window

Remaining == left

\* Fault: a host is listed again for every answer.
FaultIsNew(d) == d.isHub

IsNew(d) == d.isHub /\ d.from \notin seenHosts

TakeDatagram ==
    /\ task = "discovering"
    /\ left > 0
    /\ inbox # <<>>
    /\ inbox' = Tail(inbox)
    /\ left' = Remaining
    /\ IF IsNew(Head(inbox))
       THEN /\ found' = Append(found, Head(inbox).from)
            /\ seenHosts' = seenHosts \cup {Head(inbox).from}
       ELSE UNCHANGED <<found, seenHosts>>
    /\ UNCHANGED <<task, socket, identified, target, testClient, verdict>>

Tick ==
    /\ socket
    /\ left > 0
    /\ left' = left - 1
    /\ UNCHANGED <<task, socket, inbox, found, seenHosts, identified, target, testClient, verdict>>

\* The deadline: what is still queued is not looked at any more.
DiscoveryDone ==
    /\ task = "discovering"
    /\ left = 0
    /\ task' = "idle"
    /\ Close
    /\ UNCHANGED <<found, seenHosts, target, testClient, verdict>>

\* Fault: a cancelled call leaves its endpoint open.
FaultEndpoint == socket' = socket /\ inbox' = <<>> /\ left' = 0 /\ identified' = {}

Endpoint == Close

\* The call is cancelled at its await; finally closes what it opened.
CancelTask ==
    /\ task # "idle"
    /\ task' = "idle"
    /\ Endpoint
    /\ testClient' = IF testClient = "created" THEN "closed" ELSE testClient
    /\ UNCHANGED <<found, seenHosts, target, verdict>>

-------------------------------------------------------------------------------
\* test_connection, once the name is resolved: connect, ask, close, and query its name.
TestConnection(h) ==
    /\ task = "idle"
    /\ task' = "connecting"
    /\ target' = h
    /\ testClient' = "created"
    /\ verdict' = "none"
    /\ UNCHANGED <<socket, inbox, left, found, seenHosts, identified>>

TestConnected ==
    /\ task = "connecting"
    /\ task' = "checking"
    /\ UNCHANGED <<socket, inbox, left, found, seenHosts, identified, target, testClient, verdict>>

\* A HabitronError, or an answer other than "OK".
TestFails ==
    /\ task \in {"connecting", "checking"}
    /\ task' = "idle"
    /\ testClient' = "closed"
    /\ verdict' = "failed"
    /\ UNCHANGED <<socket, inbox, left, found, seenHosts, identified, target>>

TestAnswers ==
    /\ task = "checking"
    /\ testClient' = "closed"
    /\ \/ Open("querying")
       \/ task' = "idle" /\ UNCHANGED <<socket, inbox, identified, left>>     \* no endpoint: raises
    /\ UNCHANGED <<found, seenHosts, target, verdict>>

\* query_smarthub looks at the first datagram only; without one, or with one that
\* is no identification, the name stays empty and the test succeeds all the same.
QueryDone ==
    /\ task = "querying"
    /\ inbox # <<>> \/ left = 0
    /\ task' = "idle"
    /\ verdict' = "ok"
    /\ Close
    /\ UNCHANGED <<found, seenHosts, target, testClient>>

DiscoveryNext ==
    \/ Discover \/ Arrive \/ TakeDatagram \/ Tick \/ DiscoveryDone
    \/ CancelTask
    \/ \E h \in Hosts : TestConnection(h)
    \/ TestConnected \/ TestFails \/ TestAnswers \/ QueryDone

\* The event loop runs what is due, the clock runs; nothing makes a datagram arrive.
DiscoveryFairness == WF_discoveryVars(Tick) /\ WF_discoveryVars(TakeDatagram)
                     /\ WF_discoveryVars(DiscoveryDone) /\ WF_discoveryVars(QueryDone)

DiscoverySpec == DiscoveryInit /\ [][DiscoveryNext]_discoveryVars /\ DiscoveryFairness

-------------------------------------------------------------------------------
(***************************************************************************)
(* Properties.                                                             *)
(***************************************************************************)
\* A discovery lists no host twice, however often it answers, and only hosts that
\* identified themselves while it ran.
FoundOnce ==
    /\ \A i, j \in 1..Len(found) : found[i] = found[j] => i = j
    /\ \A i \in 1..Len(found) : found[i] \in seenHosts
    /\ task = "discovering" => seenHosts \subseteq identified

\* No call leaves its endpoint or its client open, whether it returns, raises or is
\* cancelled.
NothingLeftOpen ==
    /\ socket <=> task \in {"discovering", "querying"}
    /\ testClient = "created" <=> task \in {"connecting", "checking"}

\* Discovery and query end, whatever keeps arriving: the deadline is one for the
\* whole call and not for every datagram.
ListeningEnds == socket ~> ~socket
===============================================================================
