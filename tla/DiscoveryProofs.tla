---------------------------- MODULE DiscoveryProofs ----------------------------
(***************************************************************************)
(* Proofs about Discovery for every set of hosts and every window.         *)
(***************************************************************************)
EXTENDS Discovery, TLAPS

\* What FoundOnce needs besides: the queue holds datagrams, and whoever identified
\* itself in one that is still queued did so while the call runs.
InboxInv ==
    /\ inbox \in Seq(Datagrams)
    /\ found \in Seq(Hosts)
    /\ \A i \in 1..Len(inbox) : inbox[i].isHub => inbox[i].from \in identified

\* A datagram keeps the queue and its identifications together.
LEMMA ArriveKeepsInbox ==
  ASSUME InboxInv, Arrive
  PROVE  InboxInv' /\ identified \subseteq identified'
  <1>1. PICK d \in Datagrams :
            /\ inbox' = Append(inbox, d)
            /\ identified' = IF d.isHub THEN identified \cup {d.from} ELSE identified
    BY DEF Arrive
  <1>2. inbox' \in Seq(Datagrams) /\ Len(inbox') = Len(inbox) + 1  BY <1>1 DEF InboxInv
  <1>3. \A i \in 1..Len(inbox') : inbox'[i] = IF i <= Len(inbox) THEN inbox[i] ELSE d
    BY <1>1, <1>2 DEF InboxInv
  <1>4. \A i \in 1..Len(inbox') : inbox'[i].isHub => inbox'[i].from \in identified'
    <2> SUFFICES ASSUME NEW i \in 1..Len(inbox'), inbox'[i].isHub
                 PROVE  inbox'[i].from \in identified'
      OBVIOUS
    <2>1. CASE i <= Len(inbox)  BY <1>1, <1>2, <1>3, <2>1 DEF InboxInv
    <2>2. CASE ~(i <= Len(inbox))  BY <1>1, <1>3, <2>2
    <2> QED  BY <2>1, <2>2
  <1> QED  BY <1>1, <1>2, <1>4 DEF InboxInv, Arrive

\* A datagram taken from the queue lists a host that is not listed yet, if any.
LEMMA TakeKeepsFound ==
  ASSUME InboxInv, FoundOnce, TakeDatagram
  PROVE  InboxInv' /\ FoundOnce'
  <1> DEFINE d == Head(inbox)
  <1>1. /\ d \in Datagrams /\ d = inbox[1]
        /\ inbox' \in Seq(Datagrams) /\ Len(inbox') = Len(inbox) - 1
        /\ \A i \in 1..Len(inbox') : inbox'[i] = inbox[i + 1]
    BY DEF InboxInv, TakeDatagram
  <1>2. \A i \in 1..Len(inbox') : inbox'[i].isHub => inbox'[i].from \in identified'
    BY <1>1 DEF InboxInv, TakeDatagram
  <1>3. CASE IsNew(d)
    <2>1. /\ found' = Append(found, d.from)
          /\ seenHosts' = seenHosts \cup {d.from}
      BY <1>3 DEF TakeDatagram
    <2>2. d.from \in Hosts /\ d.from \notin seenHosts /\ d.from \in identified
      BY <1>1, <1>3 DEF IsNew, InboxInv, Datagrams, TakeDatagram
    <2>3. /\ found' \in Seq(Hosts) /\ Len(found') = Len(found) + 1
          /\ \A i \in 1..Len(found') : found'[i] = IF i <= Len(found) THEN found[i] ELSE d.from
      BY <2>1, <2>2 DEF InboxInv
    <2>4. \A i \in 1..Len(found') : found'[i] \in seenHosts'
      BY <2>1, <2>3 DEF FoundOnce, InboxInv
    <2>5. ASSUME NEW i \in 1..Len(found'), NEW j \in 1..Len(found'), found'[i] = found'[j]
          PROVE  i = j
      <3>1. CASE i <= Len(found) /\ j <= Len(found)  BY <2>3, <2>5, <3>1 DEF FoundOnce, InboxInv
      <3>2. CASE i > Len(found) /\ j > Len(found)  BY <2>3, <3>2 DEF InboxInv
      <3>3. CASE i <= Len(found) /\ j > Len(found)
        <4>1. found[i] \in seenHosts /\ found[i] = d.from  BY <2>3, <2>5, <3>3 DEF FoundOnce, InboxInv
        <4> QED  BY <2>2, <4>1
      <3>4. CASE i > Len(found) /\ j <= Len(found)
        <4>1. found[j] \in seenHosts /\ found[j] = d.from  BY <2>3, <2>5, <3>4 DEF FoundOnce, InboxInv
        <4> QED  BY <2>2, <4>1
      <3> QED  BY <3>1, <3>2, <3>3, <3>4, <2>3 DEF InboxInv
    <2>6. seenHosts' \subseteq identified'  BY <2>1, <2>2 DEF FoundOnce, TakeDatagram
    <2> QED  BY <1>1, <1>2, <2>3, <2>4, <2>5, <2>6 DEF InboxInv, FoundOnce
  <1>4. CASE ~IsNew(d)
    <2>1. UNCHANGED <<found, seenHosts, identified, task>>  BY <1>4 DEF TakeDatagram
    <2> QED  BY <1>1, <1>2, <2>1 DEF InboxInv, FoundOnce
  <1> QED  BY <1>3, <1>4

\* Every step keeps the list of hubs in order.
LEMMA FoundInductive ==
  InboxInv /\ FoundOnce /\ [DiscoveryNext]_discoveryVars => InboxInv' /\ FoundOnce'
  <1> SUFFICES ASSUME InboxInv, FoundOnce, [DiscoveryNext]_discoveryVars
               PROVE  InboxInv' /\ FoundOnce'
    OBVIOUS
  <1>1. CASE Discover  BY <1>1 DEF Discover, Open, InboxInv, FoundOnce
  <1>2. CASE Arrive
    <2>1. UNCHANGED <<task, found, seenHosts>>  BY <1>2 DEF Arrive
    <2> QED  BY <1>2, <2>1, ArriveKeepsInbox DEF FoundOnce
  <1>3. CASE TakeDatagram  BY <1>3, TakeKeepsFound
  <1>4. CASE Tick  BY <1>4 DEF Tick, InboxInv, FoundOnce
  <1>5. CASE DiscoveryDone  BY <1>5 DEF DiscoveryDone, Close, InboxInv, FoundOnce
  <1>6. CASE CancelTask  BY <1>6 DEF CancelTask, Endpoint, Close, InboxInv, FoundOnce
  <1>7. ASSUME NEW h \in Hosts, TestConnection(h)  PROVE InboxInv' /\ FoundOnce'
    BY <1>7 DEF TestConnection, InboxInv, FoundOnce
  <1>8. CASE TestConnected  BY <1>8 DEF TestConnected, InboxInv, FoundOnce
  <1>9. CASE TestFails  BY <1>9 DEF TestFails, InboxInv, FoundOnce
  <1>10. CASE TestAnswers
    <2>1. CASE Open("querying")  BY <1>10, <2>1 DEF TestAnswers, Open, InboxInv, FoundOnce
    <2>2. CASE task' = "idle" /\ UNCHANGED <<socket, inbox, identified, left>>
      BY <1>10, <2>2 DEF TestAnswers, InboxInv, FoundOnce
    <2> QED  BY <1>10, <2>1, <2>2 DEF TestAnswers
  <1>11. CASE QueryDone  BY <1>11 DEF QueryDone, Close, InboxInv, FoundOnce
  <1>12. CASE UNCHANGED discoveryVars  BY <1>12 DEF discoveryVars, InboxInv, FoundOnce
  <1> QED
    BY <1>1, <1>2, <1>3, <1>4, <1>5, <1>6, <1>7, <1>8, <1>9, <1>10, <1>11, <1>12 DEF DiscoveryNext

\* discover_smarthubs: however many answers arrive in whatever order, no host is
\* listed twice and none that did not identify itself.
THEOREM HostsFoundOnce == DiscoverySpec => []FoundOnce
  <1>1. DiscoveryInit => InboxInv /\ FoundOnce  BY DEF DiscoveryInit, InboxInv, FoundOnce
  <1> QED  BY <1>1, FoundInductive, PTL DEF DiscoverySpec

-------------------------------------------------------------------------------
\* discover_smarthubs, query_smarthub and test_connection close what they open on
\* every path: return, error and cancellation.
THEOREM NothingStaysOpen == DiscoverySpec => []NothingLeftOpen
  <1>1. DiscoveryInit => NothingLeftOpen  BY DEF DiscoveryInit, NothingLeftOpen
  <1>2. NothingLeftOpen /\ [DiscoveryNext]_discoveryVars => NothingLeftOpen'
    <2> SUFFICES ASSUME NothingLeftOpen, [DiscoveryNext]_discoveryVars
                 PROVE  NothingLeftOpen'
      OBVIOUS
    <2>1. CASE Discover  BY <2>1 DEF Discover, Open, NothingLeftOpen
    <2>2. CASE Arrive  BY <2>2 DEF Arrive, NothingLeftOpen
    <2>3. CASE TakeDatagram  BY <2>3 DEF TakeDatagram, NothingLeftOpen
    <2>4. CASE Tick  BY <2>4 DEF Tick, NothingLeftOpen
    <2>5. CASE DiscoveryDone  BY <2>5 DEF DiscoveryDone, Close, NothingLeftOpen
    <2>6. CASE CancelTask  BY <2>6 DEF CancelTask, Endpoint, Close, NothingLeftOpen
    <2>7. ASSUME NEW h \in Hosts, TestConnection(h)  PROVE NothingLeftOpen'
      BY <2>7 DEF TestConnection, NothingLeftOpen
    <2>8. CASE TestConnected  BY <2>8 DEF TestConnected, NothingLeftOpen
    <2>9. CASE TestFails  BY <2>9 DEF TestFails, NothingLeftOpen
    <2>10. CASE TestAnswers  BY <2>10 DEF TestAnswers, Open, NothingLeftOpen
    <2>11. CASE QueryDone  BY <2>11 DEF QueryDone, Close, NothingLeftOpen
    <2>12. CASE UNCHANGED discoveryVars  BY <2>12 DEF discoveryVars, NothingLeftOpen
    <2> QED
      BY <2>1, <2>2, <2>3, <2>4, <2>5, <2>6, <2>7, <2>8, <2>9, <2>10, <2>11, <2>12 DEF DiscoveryNext
  <1> QED  BY <1>1, <1>2, PTL DEF DiscoverySpec
===============================================================================
