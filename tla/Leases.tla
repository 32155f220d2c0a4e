------------------------------- MODULE Leases -------------------------------
(***************************************************************************)
(* What letmeinfwd promises, without nft, mutex and processes.  A lease    *)
(* opens its doors for a limited time.  Its doors are open from the grant  *)
(* until it is closed by request or has run out; the doors of a lease that *)
(* is owed nothing any more may be shut at any later time, others may not; *)
(* no door opens but by a grant.  An outage cancels all leases at once.    *)
(***************************************************************************)
EXTENDS Naturals

CONSTANTS
    Ids,      \* the leases that may be granted
    Doors,    \* lease -> what it opens
    Timeout   \* the longest time a lease runs without being renewed

VARIABLES
    owed,     \* granted leases -> time left
    open      \* the doors that are open

vars == <<owed, open>>

DoorsOf(ids) == UNION {Doors[id] : id \in ids}

Init ==
    /\ owed = [id \in {} |-> 0]
    /\ open = {}

\* A new lease, or one more full term for an old one. Opening takes time, of
\* which the lease has spent some when it is granted.
Grant(id) ==
    /\ \E t \in 0..Timeout :
          /\ id \in DOMAIN owed => t = Timeout
          /\ owed' = [i \in DOMAIN owed \cup {id} |-> IF i = id THEN t ELSE owed[i]]
    /\ open' = open \cup Doors[id]

\* Closed by request.
Cancel(id) ==
    /\ owed' = [i \in DOMAIN owed \ {id} |-> owed[i]]
    /\ UNCHANGED open

\* All that have run out, and only those.
Expire ==
    /\ owed' = [i \in {j \in DOMAIN owed : owed[j] > 0} |-> owed[i]]
    /\ UNCHANGED open

Shut ==
    /\ open' \subseteq open
    /\ DoorsOf(DOMAIN owed) \subseteq open'
    /\ UNCHANGED owed

Tick ==
    /\ owed' = [i \in DOMAIN owed |-> IF owed[i] > 0 THEN owed[i] - 1 ELSE 0]
    /\ UNCHANGED open

\* At the worst in the middle of a grant.
Outage ==
    /\ owed' = [id \in {} |-> 0]
    /\ \E ids \in {{}} \cup {{id} : id \in Ids} : open' \subseteq open \cup DoorsOf(ids)

Next ==
    \/ \E id \in Ids : Grant(id) \/ Cancel(id)
    \/ Expire
    \/ Shut
    \/ Tick
    \/ Outage

Spec == Init /\ [][Next]_vars
=============================================================================
