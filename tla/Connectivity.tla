----------------------------- MODULE Connectivity -----------------------------
(***************************************************************************)
(* A config flow (external): find the hubs, test one, and use a client for *)
(* it once the test was passed.  The two parts share no state, so the      *)
(* results of the discovery are forgotten when the client is taken over.   *)
(***************************************************************************)
EXTENDS ClientSession, Discovery

VARIABLE using      \* the consumer has its client

vars == <<using, clientVars, discoveryVars>>

Init == DiscoveryInit /\ ClientInit /\ using = FALSE

Looking == ~using /\ DiscoveryNext /\ UNCHANGED <<using, clientVars>>

TakeHub ==
    /\ task = "idle" /\ verdict = "ok"
    /\ using' = TRUE
    /\ found' = <<>> /\ seenHosts' = {} /\ target' = "none"
    /\ testClient' = "none" /\ verdict' = "none"
    /\ UNCHANGED <<clientVars, task, socket, inbox, left, identified>>

Using == using /\ ClientNext /\ UNCHANGED <<using, discoveryVars>>

Next == Looking \/ TakeHub \/ Using

Spec == Init /\ [][Next]_vars /\ DiscoveryFairness /\ ClientFairness
===============================================================================
