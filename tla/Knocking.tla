------------------------------ MODULE Knocking ------------------------------
(***************************************************************************)
(* What the control protocol promises, without messages: a client asks for *)
(* something; the firewall does what an authorised client asked for, and   *)
(* does it once; a client that is told of success was granted its request. *)
(* A client may be told of a failure, or give up, though its request is or *)
(* will be carried out.                                                    *)
(***************************************************************************)
EXTENDS Sequences

CONSTANTS
    Peers,       \* clients, by source address and port
    Requests,    \* what a client can ask for
    Authorised,  \* the requests that the configuration permits
    None         \* no request

VARIABLES
    request,     \* peer -> what it asked for
    outcome,     \* peer -> what the user of the client sees
    granted      \* peer -> what the firewall did for it, in order

vars == <<request, outcome, granted>>

Init ==
    /\ request = [p \in Peers |-> None]
    /\ outcome = [p \in Peers |-> "none"]
    /\ granted = [p \in Peers |-> <<>>]

Ask(p, r) ==
    /\ request[p] = None
    /\ request' = [request EXCEPT ![p] = r]
    /\ UNCHANGED <<outcome, granted>>

Grant(p) ==
    /\ request[p] \in Authorised
    /\ granted[p] = <<>>
    /\ granted' = [granted EXCEPT ![p] = << [op |-> request[p].op, res |-> request[p].res] >>]
    /\ UNCHANGED <<request, outcome>>

Succeed(p) ==
    /\ outcome[p] = "none"
    /\ granted[p] # <<>>
    /\ outcome' = [outcome EXCEPT ![p] = "ok"]
    /\ UNCHANGED <<request, granted>>

Fail(p) ==
    /\ request[p] # None
    /\ outcome[p] = "none"
    /\ outcome' = [outcome EXCEPT ![p] = "err"]
    /\ UNCHANGED <<request, granted>>

Next == \E p \in Peers :
    \/ \E r \in Requests : Ask(p, r)
    \/ Grant(p)
    \/ Succeed(p)
    \/ Fail(p)

Spec == Init /\ [][Next]_vars
=============================================================================
