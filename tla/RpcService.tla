------------------------------ MODULE RpcService ------------------------------
(***************************************************************************)
(* What the transport promises its callers, with sockets, lock, attempts   *)
(* and timing left out: a serial command executor that runs each call a    *)
(* bounded number of times, never goes back to a call once it has moved on *)
(* to another, and answers a call only with something it did for it.       *)
(*                                                                         *)
(* A failure tells the caller nothing: the command may have been executed, *)
(* and may even be executed after the caller was told.                     *)
(***************************************************************************)
EXTENDS Naturals, Sequences, FiniteSets, SequencesExt

CONSTANTS Calls, Limit  \* Limit[c]: how often call c may be executed

VARIABLES status, runs  \* runs: the calls in the order of their executions

Init ==
    /\ status = [c \in Calls |-> "idle"]
    /\ runs = <<>>

Times(c) == Cardinality({i \in DOMAIN runs : runs[i] = c})

Submit(c) ==
    /\ status[c] = "idle"
    /\ status' = [status EXCEPT ![c] = "pending"]
    /\ UNCHANGED runs

Execute(c) ==
    /\ status[c] # "idle"
    /\ Times(c) < Limit[c]
    /\ c \in ToSet(runs) => c = Last(runs)
    /\ runs' = Append(runs, c)
    /\ UNCHANGED status

Answer(c) ==
    /\ status[c] = "pending"
    /\ c \in ToSet(runs)
    /\ status' = [status EXCEPT ![c] = "answered"]
    /\ UNCHANGED runs

Fail(c) ==
    /\ status[c] = "pending"
    /\ status' = [status EXCEPT ![c] = "failed"]
    /\ UNCHANGED runs

Next == \E c \in Calls : Submit(c) \/ Execute(c) \/ Answer(c) \/ Fail(c)

Spec == Init /\ [][Next]_<<status, runs>>
===============================================================================
