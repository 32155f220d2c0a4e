---------------------------- MODULE UdpDispatcher ----------------------------
(***************************************************************************)
(* The UDP "connections" of letmein-proto: one socket, shared by an accept *)
(* task and by the sessions of the accepted peers (UdpDispatcher and       *)
(* NetSocketUdp). Whoever is awake reads the next datagram off the socket  *)
(* and files it under its sender, so a task often reads another's message  *)
(* and has to make sure that the other one wakes up.                       *)
(*                                                                         *)
(* The runtime is single-threaded: a task runs undisturbed between two     *)
(* awaits, and each action is such a stretch of one task.                  *)
(***************************************************************************)
EXTENDS Naturals, Sequences, FiniteSets

CONSTANTS
    Peers,        \* source address and port of the senders
    Sessions,     \* identities for NetSocketUdp objects
    MAX_NR_CONN,  \* max_nr_conn
    Q_SIZE,       \* UDP_RX_QUEUE_SIZE
    Sizes,        \* datagrams that arrive: TRUE of the size of a message, FALSE not
    MaxBurst,     \* bound: datagrams of a peer on the socket or in its queue
    MaxSent,      \* bound: datagrams a peer sends
    MaxTotal      \* bound: datagrams all peers send

ASSUME ConstAssumption ==
    /\ Peers # {}
    /\ MAX_NR_CONN \in Nat \ {0}
    /\ Q_SIZE \in Nat \ {0}
    /\ Sizes \subseteq BOOLEAN
    /\ MaxBurst \in Nat
    /\ MaxSent \in Nat
    /\ MaxTotal \in Nat

VARIABLES
    \* The socket as the tokio runtime shows it.
    sock,        \* datagrams in the socket's receive buffer
    edge,        \* an epoll event that the runtime has not processed yet
    ready,       \* tokio's cached readiness of the socket
    \* UdpDispatcherRx and the watch channels.
    conn,        \* peer -> its receive queue and whether it was accepted
    nr,          \* nr_queued_dgrams
    acceptSig,   \* accept_watch has an unseen value
    recvSig,     \* recv_watch has an unseen value
    \* The tasks.
    acceptor,    \* where UdpDispatcher::accept stands
    sess,        \* session -> its peer and where it stands
    \* History.
    sent,        \* peer -> number of datagrams sent so far
    last,        \* peer -> number of the last datagram a session got
    panicked     \* an assertion failed (the release profile then aborts)

vars == <<sock, edge, ready, conn, nr, acceptSig, recvSig, acceptor, sess,
          sent, last, panicked>>

Datagram == [peer : Peers, no : 1..MaxSent, sized : Sizes]
Conn     == [rx_queue : Seq(Datagram), accepted : BOOLEAN]

\* "wait" and "select" are the select! in accept and recv_from, "lock" is waiting
\* for the mutex around the receiver of recv_watch, "try" the turn after it. The
\* 10 ms sleep before the next round is part of "wait" and of "lock": a task may
\* always be late to wake up.
TypeOK ==
    /\ sock \in Seq(Datagram)
    /\ edge \in BOOLEAN
    /\ ready \in BOOLEAN
    /\ DOMAIN conn \subseteq Peers
    /\ \A p \in DOMAIN conn : conn[p] \in Conn
    /\ nr \in Nat
    /\ acceptSig \in BOOLEAN
    /\ recvSig \in BOOLEAN
    /\ acceptor \in {"wait", "try"}
    /\ \A s \in Sessions :
          /\ sess[s].peer \in Peers
          /\ sess[s].pc \in {"closed", "idle", "lock", "select", "try", "closing"}
    /\ sent \in [Peers -> 0..MaxSent]
    /\ last \in [Peers -> 0..MaxSent]
    /\ panicked \in BOOLEAN

Init ==
    /\ sock = <<>> /\ edge = FALSE /\ ready = FALSE
    /\ conn = [p \in {} |-> <<>>]
    /\ nr = 0
    /\ acceptSig = FALSE /\ recvSig = FALSE
    /\ acceptor = "wait"
    /\ sess = [s \in Sessions |-> [peer |-> CHOOSE p \in Peers : TRUE, pc |-> "closed"]]
    /\ sent = [p \in Peers |-> 0]
    /\ last = [p \in Peers |-> 0]
    /\ panicked = FALSE

-----------------------------------------------------------------------------
(***************************************************************************)
(* The network and the runtime's view of the socket.                       *)
(***************************************************************************)

QueueOf(p) == IF p \in DOMAIN conn THEN conn[p].rx_queue ELSE <<>>

\* Datagrams of p that no session has got yet.
Outstanding(p) ==
    Len(QueueOf(p)) + Cardinality({i \in DOMAIN sock : sock[i].peer = p})

\* The datagrams sent so far.
Arrived == UNION {{p} \X (1..sent[p]) : p \in Peers}

\* A datagram arrives; sized says whether it has the size of a message. Lost and
\* reordered datagrams are ones that do not arrive, or arrive in another order.
Arrive(p, sized) ==
    /\ ~panicked
    /\ sent[p] < MaxSent
    /\ Cardinality(Arrived) < MaxTotal
    /\ Outstanding(p) < MaxBurst
    /\ sent' = [sent EXCEPT ![p] = @ + 1]
    /\ sock' = Append(sock, [peer |-> p, no |-> sent[p] + 1, sized |-> sized])
    /\ edge' = TRUE
    /\ UNCHANGED <<ready, conn, nr, acceptSig, recvSig, acceptor, sess, last, panicked>>

\* The runtime's I/O driver turns the event into readiness.
DriverPoll ==
    /\ ~panicked
    /\ edge
    /\ edge' = FALSE
    /\ ready' = TRUE
    /\ UNCHANGED <<sock, conn, nr, acceptSig, recvSig, acceptor, sess, sent, last, panicked>>

-----------------------------------------------------------------------------
(***************************************************************************)
(* UdpDispatcherRx::try_recv, as the state it leaves behind.               *)
(***************************************************************************)

Without(p) == [q \in DOMAIN conn \ {p} |-> conn[q]]

Pushed(d, accepted) ==
    [q \in DOMAIN conn \cup {d.peer} |->
        IF q = d.peer
        THEN [rx_queue |-> Append(QueueOf(q), d), accepted |-> accepted]
        ELSE conn[q]]

\* Mutant of try_recv: a datagram is queued without being counted.
try_recv_uncounted ==
    LET d        == Head(sock)
        accepted == d.peer \in DOMAIN conn /\ conn[d.peer].accepted
        same     == [ok |-> TRUE, sock |-> sock, ready |-> ready, conn |-> conn, nr |-> nr,
                     notify |-> FALSE, panic |-> FALSE]
        read     == [same EXCEPT !.sock = Tail(sock)]
    IN  CASE ~ready \/ sock = <<>> -> [same EXCEPT !.ready = FALSE]
          [] ready /\ sock # <<>> /\ ~d.sized -> [read EXCEPT !.ok = FALSE]
          [] OTHER -> [read EXCEPT !.conn = Pushed(d, accepted), !.notify = ~accepted]

\* Mutant of try_recv: an overflow resets the counter of all queues.
try_recv_resets ==
    LET d        == Head(sock)
        accepted == d.peer \in DOMAIN conn /\ conn[d.peer].accepted
        same     == [ok |-> TRUE, sock |-> sock, ready |-> ready, conn |-> conn, nr |-> nr,
                     notify |-> FALSE, panic |-> FALSE]
        read     == [same EXCEPT !.sock = Tail(sock)]
    IN  CASE ~ready \/ sock = <<>> -> [same EXCEPT !.ready = FALSE]
          [] ready /\ sock # <<>> /\ ~d.sized -> [read EXCEPT !.ok = FALSE]
          [] ready /\ sock # <<>> /\ d.sized /\ Len(QueueOf(d.peer)) = Q_SIZE ->
                [read EXCEPT !.ok = FALSE, !.conn = Without(d.peer), !.nr = 0]
          [] OTHER -> [read EXCEPT !.conn   = Pushed(d, accepted),
                                   !.nr     = nr + 1,
                                   !.notify = ~accepted]

\* Mutant of try_recv: the limits are checked for > instead of >=.
try_recv_off_by_one ==
    LET d        == Head(sock)
        accepted == d.peer \in DOMAIN conn /\ conn[d.peer].accepted
        same     == [ok |-> TRUE, sock |-> sock, ready |-> ready, conn |-> conn, nr |-> nr,
                     notify |-> FALSE, panic |-> FALSE]
        read     == [same EXCEPT !.sock = Tail(sock)]
    IN  CASE ~ready \/ sock = <<>> -> [same EXCEPT !.ready = FALSE]
          [] ready /\ sock # <<>> /\ ~d.sized -> [read EXCEPT !.ok = FALSE]
          [] ready /\ sock # <<>> /\ d.sized /\ Len(QueueOf(d.peer)) > Q_SIZE ->
                [read EXCEPT !.ok = FALSE, !.conn = Without(d.peer)]
          [] OTHER -> [read EXCEPT !.conn   = Pushed(d, accepted),
                                   !.nr     = nr + 1,
                                   !.notify = ~accepted]

try_recv ==
    LET d        == Head(sock)
        accepted == d.peer \in DOMAIN conn /\ conn[d.peer].accepted
        same     == [ok |-> TRUE, sock |-> sock, ready |-> ready, conn |-> conn, nr |-> nr,
                     notify |-> FALSE, panic |-> FALSE]
        read     == [same EXCEPT !.sock = Tail(sock)]
    IN  CASE ~ready \/ sock = <<>> ->                          \* WouldBlock
                [same EXCEPT !.ready = FALSE]
          [] ready /\ sock # <<>> /\ ~d.sized ->
                [read EXCEPT !.ok = FALSE]
          [] ready /\ sock # <<>> /\ d.sized /\ Len(QueueOf(d.peer)) = Q_SIZE ->
                [read EXCEPT !.ok = FALSE, !.conn = Without(d.peer)]
          [] /\ ready /\ sock # <<>> /\ d.sized
             /\ d.peer \notin DOMAIN conn
             /\ Cardinality(DOMAIN conn) = MAX_NR_CONN ->
                [read EXCEPT !.ok = FALSE]
          [] OTHER ->
                [read EXCEPT !.conn   = Pushed(d, accepted),
                             !.nr     = nr + 1,
                             !.notify = ~accepted,
                             !.panic  = nr + 1 > MAX_NR_CONN * Q_SIZE]

\* Mutant of Socket: the accept task is not notified.
SocketSilent(r) ==
    /\ sock' = r.sock
    /\ ready' = r.ready
    /\ panicked' = r.panic
    /\ UNCHANGED <<edge, sent, acceptSig>>

\* What every caller takes over from try_recv.
Socket(r) ==
    /\ sock' = r.sock
    /\ ready' = r.ready
    /\ acceptSig' = (acceptSig \/ r.notify)
    /\ panicked' = r.panic
    /\ UNCHANGED <<edge, sent>>

-----------------------------------------------------------------------------
(***************************************************************************)
(* UdpDispatcher::accept, run again and again by letmeind's server.        *)
(***************************************************************************)

\* select! takes either branch that is ready; only changed() marks the value seen.
AcceptWake ==
    /\ ~panicked
    /\ acceptor = "wait"
    /\ \/ ready /\ UNCHANGED acceptSig
       \/ acceptSig /\ acceptSig' = FALSE
    /\ acceptor' = "try"
    /\ UNCHANGED <<sock, edge, ready, conn, nr, recvSig, sess, sent, last, panicked>>

Unaccepted(c) == {p \in DOMAIN c : ~c[p].accepted}

\* Mutant of TryAccept: the sessions are not notified of what is queued.
TryAcceptSilent ==
    /\ ~panicked
    /\ acceptor = "try"
    /\ LET r == try_recv
       IN  /\ Socket(r)
           /\ \/ /\ r.ok
                 /\ \E p \in Unaccepted(r.conn), s \in Sessions :
                       /\ sess[s].pc = "closed"
                       /\ conn' = [r.conn EXCEPT ![p].accepted = TRUE]
                       /\ sess' = [sess EXCEPT ![s] = [peer |-> p, pc |-> "idle"]]
              \/ /\ ~r.ok \/ Unaccepted(r.conn) = {}
                 /\ conn' = r.conn
                 /\ UNCHANGED sess
           /\ nr' = r.nr
    /\ acceptor' = "wait"
    /\ UNCHANGED <<recvSig, last>>

\* Mutant of TryAccept: the connection is not marked as accepted.
TryAcceptUnmarked ==
    /\ ~panicked
    /\ acceptor = "try"
    /\ LET r == try_recv
       IN  /\ Socket(r)
           /\ \/ /\ r.ok
                 /\ \E p \in Unaccepted(r.conn), s \in Sessions :
                       /\ sess[s].pc = "closed"
                       /\ sess' = [sess EXCEPT ![s] = [peer |-> p, pc |-> "idle"]]
              \/ (~r.ok \/ Unaccepted(r.conn) = {}) /\ UNCHANGED sess
           /\ conn' = r.conn
           /\ recvSig' = (recvSig \/ r.notify \/ r.nr > 0)
           /\ nr' = r.nr
    /\ acceptor' = "wait"
    /\ UNCHANGED last

\* try_accept, and letmeind's spawning of the session for the accepted peer.
TryAccept ==
    /\ ~panicked
    /\ acceptor = "try"
    /\ LET r == try_recv
       IN  /\ Socket(r)
           /\ \/ /\ ~r.ok
                 /\ conn' = r.conn
                 /\ UNCHANGED <<recvSig, sess>>
              \/ /\ r.ok
                 /\ \E p \in Unaccepted(r.conn), s \in Sessions :
                       /\ sess[s].pc = "closed"
                       /\ conn' = [r.conn EXCEPT ![p].accepted = TRUE]
                       /\ sess' = [sess EXCEPT ![s] = [peer |-> p, pc |-> "idle"]]
                 /\ recvSig' = (recvSig \/ r.notify)
              \/ /\ r.ok
                 /\ Unaccepted(r.conn) = {}
                 /\ conn' = r.conn
                 /\ recvSig' = (recvSig \/ r.notify \/ r.nr > 0)
                 /\ UNCHANGED sess
           /\ nr' = r.nr
    /\ acceptor' = "wait"
    /\ UNCHANGED last

-----------------------------------------------------------------------------
(***************************************************************************)
(* A session: recv_from, disconnect.                                       *)
(***************************************************************************)

Goto(s, pc) == sess' = [sess EXCEPT ![s].pc = pc]

\* The protocol awaits the next message of its peer.
CallRecv(s) ==
    /\ ~panicked
    /\ sess[s].pc = "idle"
    /\ Goto(s, "lock")
    /\ UNCHANGED <<sock, edge, ready, conn, nr, acceptSig, recvSig, acceptor, sent, last, panicked>>

\* One task at a time holds the receiver of recv_watch, while it is in select!.
LockWatch(s) ==
    /\ ~panicked
    /\ sess[s].pc = "lock"
    /\ \A t \in Sessions : sess[t].pc # "select"
    /\ Goto(s, "select")
    /\ UNCHANGED <<sock, edge, ready, conn, nr, acceptSig, recvSig, acceptor, sent, last, panicked>>

RecvWake(s) ==
    /\ ~panicked
    /\ sess[s].pc = "select"
    /\ \/ ready /\ UNCHANGED recvSig
       \/ recvSig /\ recvSig' = FALSE
    /\ Goto(s, "try")
    /\ UNCHANGED <<sock, edge, ready, conn, nr, acceptSig, acceptor, sent, last, panicked>>

\* Mutant of TryRecvFrom: the newest datagram is taken off the queue (pop_back).
TryRecvFromBack(s) ==
    /\ ~panicked
    /\ sess[s].pc = "try"
    /\ LET r == try_recv
           p == sess[s].peer
           q == IF p \in DOMAIN r.conn THEN r.conn[p].rx_queue ELSE <<>>
           n == Len(q)
       IN  /\ Socket(r)
           /\ \/ /\ ~r.ok
                 /\ Goto(s, "closing")
                 /\ conn' = r.conn /\ nr' = r.nr
                 /\ UNCHANGED <<recvSig, last>>
              \/ /\ r.ok /\ n > 0
                 /\ Goto(s, "idle")
                 /\ conn' = [r.conn EXCEPT ![p].rx_queue = SubSeq(q, 1, n - 1)]
                 /\ nr' = r.nr - 1
                 /\ recvSig' = (recvSig \/ r.notify \/ nr' > 0)
                 /\ last' = [last EXCEPT ![p] = q[n].no]
              \/ /\ r.ok /\ n = 0
                 /\ Goto(s, "lock")
                 /\ conn' = r.conn /\ nr' = r.nr
                 /\ recvSig' = (recvSig \/ r.notify \/ nr' > 0)
                 /\ UNCHANGED last
    /\ UNCHANGED acceptor

\* try_recv_from: an error on reading, whoever sent the datagram, is returned to
\* this session's protocol, which then closes.
TryRecvFrom(s) ==
    /\ ~panicked
    /\ sess[s].pc = "try"
    /\ LET r == try_recv
           p == sess[s].peer
           q == IF p \in DOMAIN r.conn THEN r.conn[p].rx_queue ELSE <<>>
       IN  /\ Socket(r)
           /\ \/ /\ ~r.ok
                 /\ Goto(s, "closing")
                 /\ conn' = r.conn
                 /\ nr' = r.nr
                 /\ UNCHANGED <<recvSig, last>>
              \/ /\ r.ok
                 /\ q # <<>>
                 /\ Goto(s, "idle")
                 /\ conn' = [r.conn EXCEPT ![p].rx_queue = Tail(q)]
                 /\ nr' = r.nr - 1
                 /\ recvSig' = (recvSig \/ r.notify \/ nr' > 0)
                 /\ last' = [last EXCEPT ![p] = Head(q).no]
              \/ /\ r.ok
                 /\ q = <<>>
                 /\ Goto(s, "lock")
                 /\ conn' = r.conn
                 /\ nr' = r.nr
                 /\ recvSig' = (recvSig \/ r.notify \/ nr' > 0)
                 /\ UNCHANGED last
    /\ UNCHANGED acceptor

\* The protocol is done with its peer, or its receive timeout drops recv_from.
GiveUp(s) ==
    /\ ~panicked
    /\ sess[s].pc \in {"idle", "lock", "select"}
    /\ Goto(s, "closing")
    /\ UNCHANGED <<sock, edge, ready, conn, nr, acceptSig, recvSig, acceptor, sent, last, panicked>>

\* Mutant of Disconnect: what is left in the queue is not subtracted.
DisconnectUncounted(s) ==
    /\ ~panicked
    /\ sess[s].pc = "closing"
    /\ conn' = Without(sess[s].peer)
    /\ panicked' = (DOMAIN conn' = {} /\ nr # 0)
    /\ Goto(s, "closed")
    /\ UNCHANGED <<sock, edge, ready, nr, acceptSig, recvSig, acceptor, sent, last>>

\* NetSocket::close, once per session, and UdpDispatcherRx::disconnect.
Disconnect(s) ==
    /\ ~panicked
    /\ sess[s].pc = "closing"
    /\ LET n == Len(QueueOf(sess[s].peer))
       IN  /\ nr' = IF n <= nr THEN nr - n ELSE nr
           /\ conn' = Without(sess[s].peer)
           /\ panicked' = (n > nr \/ (DOMAIN conn' = {} /\ nr' # 0))
    /\ Goto(s, "closed")
    /\ UNCHANGED <<sock, edge, ready, acceptSig, recvSig, acceptor, sent, last>>

-----------------------------------------------------------------------------
AcceptTask == AcceptWake \/ TryAccept

Session(s) ==
    \/ CallRecv(s)
    \/ LockWatch(s)
    \/ RecvWake(s)
    \/ TryRecvFrom(s)
    \/ GiveUp(s)
    \/ Disconnect(s)

Next ==
    \/ \E p \in Peers, sized \in Sizes : Arrive(p, sized)
    \/ DriverPoll
    \/ AcceptTask
    \/ \E s \in Sessions : Session(s)

Spec == Init /\ [][Next]_vars

\* The runtime polls every task that is ready, and its mutex is a FIFO lock. No
\* fairness is assumed of the network, of what a protocol decides, or of timeouts.
Fairness ==
    /\ WF_vars(DriverPoll)
    /\ WF_vars(AcceptTask)
    /\ \A s \in Sessions :
          /\ SF_vars(LockWatch(s))
          /\ WF_vars(RecvWake(s))
          /\ WF_vars(TryRecvFrom(s))
          /\ WF_vars(Disconnect(s))

FairSpec == Spec /\ Fairness

-----------------------------------------------------------------------------
(***************************************************************************)
(* Properties.                                                             *)
(***************************************************************************)

\* The places in the receive queues that hold a datagram.
Slots(c) == UNION {{p} \X DOMAIN c[p].rx_queue : p \in DOMAIN c}

TotalQueued == Cardinality(Slots(conn))

\* As long as nothing overflows, no assertion of the dispatcher fails and
\* nr_queued_dgrams does not underflow: the counter is the number of queued datagrams
\* however the reads and disconnects of the tasks are interleaved.
NoPanic == ~panicked

\* The counter never falls below what is queued, also when the queue of one peer
\* overflows while others hold datagrams: a queue that is not empty is therefore
\* always announced by recv_notify.
CounterCoversQueues == ~panicked => nr >= TotalQueued

\* The limits of the connection table and of each queue hold.
WithinLimits ==
    /\ Cardinality(DOMAIN conn) <= MAX_NR_CONN
    /\ \A p \in DOMAIN conn : Len(conn[p].rx_queue) <= Q_SIZE

\* Each accepted connection belongs to one session, and each session that has
\* not closed has its connection: no close or overflow takes away the queue
\* that another session reads from.
SessionOwnsConn ==
    /\ \A s \in Sessions : sess[s].pc # "closed" =>
          sess[s].peer \in DOMAIN conn /\ conn[sess[s].peer].accepted
    /\ \A s, t \in Sessions :
          (s # t /\ sess[s].pc # "closed" /\ sess[t].pc # "closed")
          => sess[s].peer # sess[t].peer

\* Sessions get the datagrams of a peer in the order in which they arrived, and
\* none of them twice, though different tasks read them off the socket.
DeliveredInOrder ==
    [][\A s \in Sessions : sess[s].pc = "try" /\ sess'[s].pc = "idle" =>
          last'[sess[s].peer] > last[sess[s].peer]]_vars

\* A peer whose first datagram was queued is accepted, or its connection is gone:
\* no wake-up of the accept task is lost to a session that read the datagram.
EventuallyAccepted ==
    \A p \in Peers :
        (p \in DOMAIN conn /\ ~conn[p].accepted)
        ~> (p \notin DOMAIN conn \/ conn[p].accepted \/ panicked)

\* A session that awaits a message gets it once it is queued, or ends: no wake-up
\* of a session is lost to the task that read its datagram.
EventuallyReceived ==
    \A s \in Sessions :
        (sess[s].pc \in {"lock", "select"} /\ QueueOf(sess[s].peer) # <<>>)
        ~> (sess[s].pc \in {"idle", "closing"} \/ QueueOf(sess[s].peer) = <<>> \/ panicked)
=============================================================================
