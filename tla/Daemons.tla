------------------------------ MODULE Daemons -------------------------------
(***************************************************************************)
(* The two daemons as processes, and the streams between a client,         *)
(* letmeind and letmeinfwd: how they start, accept, serve, reject, stop,   *)
(* die and are started again, with messages crossing both hops piece by    *)
(* piece.  A session of letmeind reads one message from its client (what   *)
(* follows until the client is authenticated is the subject of Protocol),  *)
(* connects to letmeinfwd, sends one request and waits for the answer.     *)
(* What letmeinfwd does with the request is the subject of Firewall.       *)
(*                                                                         *)
(* Both runtimes are single-threaded: an action is what a task does        *)
(* between two awaits, or a step of the kernel, a client or systemd.       *)
(***************************************************************************)
EXTENDS Wire, FiniteSets

CONSTANTS
    Clients,          \* TCP connections, one client run each
    Speeches,         \* what clients can send first
    Msg,              \* speech -> the Message it is the serialisation of
    Speaks,           \* client -> the speeches it may choose
    AddrOf,           \* client -> its peer address
    PortOf,           \* configured resource -> port type and port
    num_connections,  \* the option of both daemons
    Cuts,             \* bound: where the kernel may split a message
    MaxFaults         \* bound: signals, crashes and accept errors

ASSUME DaemonsAssumption ==
    /\ Speeches # {} /\ Msg \in [Speeches -> Message]
    /\ Speaks \in [Clients -> SUBSET Speeches]
    /\ AddrOf \in [Clients -> IpAddr]
    /\ \A r \in DOMAIN PortOf : PortOf[r].type \in Variants(PortType) /\ PortOf[r].port \in U16
    /\ num_connections \in Nat \ {0}
    /\ Cuts \subseteq Nat
    /\ MaxFaults \in Nat

Requests == {FirewallMessage(o, AddrOf[c], PortOf[r].type, PortOf[r].port) :
                o \in {"Open", "Close"}, c \in Clients, r \in DOMAIN PortOf}

\* What a receive buffer says that holds the first n bytes of a message.
Heard   == [s \in Speeches |-> [n \in 0..MSG_SIZE |->
                msg_deserialize(Received(msg_serialize(Msg[s]), n))]]
FwHeard == [m \in Requests \cup {Answer("Ack"), Answer("Nack")} |-> [n \in 0..FWMSG_SIZE |->
                fw_deserialize(Received(fw_serialize(m), n))]]

-----------------------------------------------------------------------------
VARIABLES
    systemd,    \* the listening sockets were handed over by systemd
    lmd,        \* letmeind: phase, process id, accept task alive, free permits,
                \* and whether an assertion ended it
    pidfile,    \* contents of letmeind.pid, 0 if there is none
    client,     \* state of each client, its speech, bytes written
    sess,       \* the session of each client in letmeind
    link,       \* its unix stream, and its handler in letmeinfwd
    fwd,        \* letmeinfwd: phase, accept task alive, free permits
    rejected,   \* process ids letmeinfwd has rejected
    performed,  \* client -> requests letmeinfwd has carried out for it
    faults      \* number of faults so far

vars == <<systemd, lmd, pidfile, client, sess, link, fwd, rejected, performed, faults>>

NoRequest == Answer("Nack")

NoClient == [st |-> "idle", says |-> CHOOSE s \in Speeches : TRUE, n |-> 0]
\* n: bytes received from the client, then bytes of the answer received.
NoSess   == [st |-> "none", n |-> 0, want |-> NoRequest, ok |-> FALSE, closed |-> FALSE]
\* req, ans: bytes written by either side; rx: bytes read by the handler.
NoLink   == [st |-> "none", pid |-> 0, req |-> 0, rx |-> 0, got |-> NoRequest,
             ans |-> 0, op |-> "Nack"]

\* Types, and within them the assertions of the send and recv loops: no count
\* ever exceeds the size of its message (nor what the other side has written).
TypeOK ==
    /\ systemd \in BOOLEAN
    /\ lmd \in [phase : {"down", "starting", "truncated", "ready"}, pid : 0..(MaxFaults + 1),
                accepting : BOOLEAN, permits : 0..num_connections, aborted : BOOLEAN]
    /\ pidfile \in 0..(MaxFaults + 1)
    /\ client \in [Clients -> [st : {"idle", "open"}, says : Speeches, n : 0..MSG_SIZE]]
    /\ \A c \in Clients :
        /\ sess[c].st \in {"none", "queued", "recv", "connect", "send", "wait",
                           "close", "drop", "ended", "lost"}
        /\ sess[c].n <= IF sess[c].st = "wait" THEN link[c].ans ELSE client[c].n
        /\ sess[c].want \in Requests \cup {NoRequest}
        /\ link[c].st \in {"none", "queued", "recv", "do", "reply", "shut"}
        /\ link[c].rx <= link[c].req /\ link[c].req <= FWMSG_SIZE
        /\ link[c].got \in Requests \cup {NoRequest}
        /\ link[c].ans <= FWMSG_SIZE
        /\ link[c].pid <= lmd.pid
    /\ fwd \in [phase : {"down", "running", "ending"}, accepting : BOOLEAN,
                permits : 0..num_connections]
    /\ rejected \subseteq 1..(MaxFaults + 1)
    /\ faults \in 0..MaxFaults

Init ==
    /\ systemd \in BOOLEAN
    /\ lmd = [phase |-> "down", pid |-> 0, accepting |-> FALSE, permits |-> 0, aborted |-> FALSE]
    /\ pidfile = 0
    /\ client = [c \in Clients |-> NoClient]
    /\ sess = [c \in Clients |-> NoSess]
    /\ link = [c \in Clients |-> NoLink]
    /\ fwd = [phase |-> "down", accepting |-> FALSE, permits |-> 0]
    /\ rejected = {}
    /\ performed = [c \in Clients |-> {}]
    /\ faults = 0

Fault == faults < MaxFaults /\ faults' = faults + 1

-----------------------------------------------------------------------------
(***************************************************************************)
(* Clients.                                                                *)
(***************************************************************************)

\* The listening socket is systemd's, which keeps it open whether or not letmeind
\* runs, or Server::new binds one.
LmdListens == systemd \/ lmd.phase # "down"

\* The connection waits in the backlog of the listening socket.
Connect(c) ==
    /\ client[c].st = "idle"
    /\ LmdListens
    /\ \E s \in Speaks[c] : client' = [client EXCEPT ![c] = [st |-> "open", says |-> s, n |-> 0]]
    /\ sess' = [sess EXCEPT ![c].st = "queued"]
    /\ UNCHANGED <<systemd, lmd, pidfile, link, fwd, rejected, performed, faults>>

\* NetSocket::send on TCP, one turn of its loop. A client that dies, or that goes
\* away, is one that writes no more.
ClientWrites(c) ==
    /\ sess[c].st \in {"queued", "recv"}
    /\ \E n \in Advance(client[c].n, MSG_SIZE, Cuts) : client' = [client EXCEPT ![c].n = n]
    /\ UNCHANGED <<systemd, lmd, pidfile, sess, link, fwd, rejected, performed, faults>>

-----------------------------------------------------------------------------
(***************************************************************************)
(* letmeind: the process.                                                  *)
(***************************************************************************)

\* async_main up to and including Server::new.
LmdStart ==
    /\ lmd.phase = "down"
    /\ lmd' = [phase |-> "starting", pid |-> lmd.pid + 1, accepting |-> FALSE, permits |-> 0,
               aborted |-> FALSE]
    /\ UNCHANGED <<systemd, pidfile, client, sess, link, fwd, rejected, performed, faults>>

\* make_pidfile opens the file with truncate(true), then writes it.
TruncatePidfile ==
    /\ lmd.phase = "starting"
    /\ lmd' = [lmd EXCEPT !.phase = "truncated"]
    /\ pidfile' = 0
    /\ UNCHANGED <<systemd, client, sess, link, fwd, rejected, performed, faults>>

\* The rest of make_pidfile; the seccomp filter and the accept task follow.
WritePidfile ==
    /\ lmd.phase = "truncated"
    /\ lmd' = [lmd EXCEPT !.phase = "ready", !.accepting = TRUE, !.permits = num_connections]
    /\ pidfile' = lmd.pid
    /\ UNCHANGED <<systemd, client, sess, link, fwd, rejected, performed, faults>>

\* All tasks and their streams go with the process; the backlog of a listening
\* socket of its own goes too. systemd removes the run directory of a service
\* that has stopped, PID file included; without it the file stays.
LmdDown(aborts) ==
    /\ lmd' = [lmd EXCEPT !.phase = "down", !.accepting = FALSE, !.permits = 0, !.aborted = aborts]
    /\ pidfile' = IF systemd THEN 0 ELSE pidfile
    /\ sess' = [c \in Clients |->
                   IF \/ sess[c].st \in {"recv", "connect", "send", "wait", "close", "drop"}
                      \/ sess[c].st = "queued" /\ ~systemd
                   THEN [sess[c] EXCEPT !.st = "lost", !.n = 0, !.ok = FALSE] ELSE sess[c]]
    /\ UNCHANGED <<systemd, client, link, fwd, rejected, performed>>

\* SIGKILL, a failed startup, an abort for another reason (see UdpDispatcher).
LmdDies ==
    /\ lmd.phase # "down"
    /\ Fault
    /\ LmdDown(FALSE)

\* srv.accept() fails: the accept task sends the error to the main loop and ends.
LmdAcceptFails ==
    /\ lmd.accepting
    /\ Fault
    /\ lmd' = [lmd EXCEPT !.accepting = FALSE]
    /\ UNCHANGED <<systemd, pidfile, client, sess, link, fwd, rejected, performed>>

\* A session is in progress whose connection was not closed yet.
Unclosed == \E c \in Clients :
    sess[c].st \in {"recv", "connect", "send", "wait", "close", "drop"} /\ ~sess[c].closed

\* SIGTERM, SIGINT or exit_sock_rx.recv() ends the main loop. Nothing is awaited after
\* it: block_on returns and the runtime is dropped, with it the tasks of the sessions
\* and their connections. Connection::drop asserts that they were closed, and the
\* release profile aborts on a failed assertion.
LmdMainLoopEnds ==
    /\ lmd.phase = "ready"
    /\ \/ Fault
       \/ ~lmd.accepting /\ UNCHANGED faults
    /\ LmdDown(Unclosed)

\* Mutant of LmdAccept: the accept task is started before the PID file is written.
LmdAcceptEarly(c) ==
    /\ lmd.phase \in {"starting", "truncated", "ready"}
    /\ sess[c].st = "queued"
    /\ sess' = [sess EXCEPT ![c].st = "recv"]
    /\ UNCHANGED <<systemd, lmd, pidfile, client, link, fwd, rejected, performed, faults>>

\* One turn of the accept task. The permit lives until the end of the `if let`,
\* that is until the session is spawned: it is back before the next turn.
LmdAccept(c) ==
    /\ lmd.accepting
    /\ sess[c].st = "queued"
    /\ lmd.permits > 0
    /\ sess' = [sess EXCEPT ![c].st = "recv"]
    /\ UNCHANGED <<systemd, lmd, pidfile, client, link, fwd, rejected, performed, faults>>

-----------------------------------------------------------------------------
(***************************************************************************)
(* letmeind: one session, Protocol::run as far as its streams go.          *)
(***************************************************************************)
Session(c, s) ==
    /\ sess' = [sess EXCEPT ![c] = s]
    /\ UNCHANGED <<systemd, lmd, pidfile, client, fwd, rejected, performed, faults>>

Failing(c) == [sess[c] EXCEPT !.st = "close", !.ok = FALSE]

\* What the session asks letmeinfwd for, given its client's first message.
Want(c, m) ==
    FirewallMessage(IF m.operation = "Close" THEN "Close" ELSE "Open", AddrOf[c],
                    PortOf[m.resource].type, PortOf[m.resource].port)

\* The initial message is complete. It must parse, be a Knock or a Close, and
\* name a configured resource.
Understood(c, m) ==
    IF m.operation \in {"Knock", "Close"} /\ m.resource \in DOMAIN PortOf
    THEN [sess[c] EXCEPT !.st = "connect", !.n = MSG_SIZE, !.want = Want(c, m)]
    ELSE [Failing(c) EXCEPT !.n = MSG_SIZE]

\* NetSocket::recv on TCP, one turn of its loop.
SessReads(c) ==
    /\ sess[c].st = "recv"
    /\ \E n \in Advance(sess[c].n, client[c].n, Cuts) :
          IF n < MSG_SIZE THEN Session(c, [sess[c] EXCEPT !.n = n])
          ELSE Session(c, Understood(c, Heard[client[c].says][n]))
    /\ UNCHANGED link

\* Mutant of SessReadEnds: recv_msg is awaited without the timeout, so that a client
\* that stops in the middle of its message is waited for.
SessReadEndsUntimed(c) ==
    /\ sess[c].st = "recv"
    /\ client[c].n = MSG_SIZE
    /\ Session(c, Failing(c))
    /\ UNCHANGED link

\* The stream is at its end (Ok(0)), or control_timeout is over.
SessReadEnds(c) ==
    /\ sess[c].st = "recv"
    /\ Session(c, Failing(c))
    /\ UNCHANGED link

\* Challenge and response with the client fail.
SessRefuses(c) ==
    /\ sess[c].st = "connect"
    /\ Session(c, Failing(c))
    /\ UNCHANGED link

FwdListens == systemd \/ (fwd.phase # "down" /\ fwd.accepting)

\* FirewallClient::new, after the client is authenticated.
SessConnects(c) ==
    /\ sess[c].st = "connect"
    /\ IF FwdListens
       THEN /\ Session(c, [sess[c] EXCEPT !.st = "send", !.n = 0])
            /\ link' = [link EXCEPT ![c] = [NoLink EXCEPT !.st = "queued", !.pid = lmd.pid]]
       ELSE Session(c, Failing(c)) /\ UNCHANGED link

\* FirewallMessage::send, one turn of its loop; a write to a closed stream fails.
SessSends(c) ==
    /\ sess[c].st = "send"
    /\ \/ /\ link[c].st # "shut"
          /\ \E n \in Advance(link[c].req, FWMSG_SIZE, Cuts) :
                /\ link' = [link EXCEPT ![c].req = n]
                /\ Session(c, IF n = FWMSG_SIZE THEN [sess[c] EXCEPT !.st = "wait"] ELSE sess[c])
       \/ /\ link[c].st = "shut"
          /\ Session(c, Failing(c))
          /\ UNCHANGED link

\* FirewallMessage::recv of the answer, one turn of its loop. There is no timeout;
\* a stream that ended, and an answer other than Ack, are errors.
SessReadsAnswer(c) ==
    /\ sess[c].st = "wait"
    /\ \/ \E n \in Advance(sess[c].n, link[c].ans, Cuts) :
             IF n < FWMSG_SIZE THEN Session(c, [sess[c] EXCEPT !.n = n])
             ELSE Session(c, [Failing(c) EXCEPT
                         !.n = 0, !.ok = FwHeard[Answer(link[c].op)][n].operation = "Ack"])
       \/ /\ link[c].st = "shut" /\ sess[c].n = link[c].ans
          /\ Session(c, [Failing(c) EXCEPT !.n = 0])
    /\ UNCHANGED link

\* conn.close().await, whatever run() returned.
SessCloses(c) ==
    /\ sess[c].st = "close"
    /\ Session(c, [sess[c] EXCEPT !.st = "drop", !.closed = TRUE])
    /\ UNCHANGED link

\* The session is over and the last Arc goes; the same assertion of Connection::drop.
SessDrops(c) ==
    /\ sess[c].st = "drop"
    /\ IF sess[c].closed
       THEN Session(c, [sess[c] EXCEPT !.st = "ended", !.n = 0]) /\ UNCHANGED link
       ELSE LmdDown(TRUE) /\ UNCHANGED faults

-----------------------------------------------------------------------------
(***************************************************************************)
(* letmeinfwd: the process and its accept task.                            *)
(***************************************************************************)

\* async_main up to the tasks; what it does to the chain is in Firewall.
FwdStart ==
    /\ fwd.phase = "down"
    /\ fwd' = [phase |-> "running", accepting |-> TRUE, permits |-> num_connections]
    /\ UNCHANGED <<systemd, lmd, pidfile, client, sess, link, rejected, performed, faults>>

\* The pending connections go with the listener, unless systemd has it too.
Unlistened(st) == IF st = "queued" /\ ~systemd THEN "shut" ELSE st

\* accept(): the peer's process id must be the one in the PID file; an empty file
\* does not parse. User and group are right for whoever got at the socket.
FwdAccepts(c) ==
    /\ fwd.accepting
    /\ link[c].st = "queued"
    /\ link[c].pid = pidfile
    /\ fwd.permits > 0
    /\ link' = [link EXCEPT ![c].st = "recv"]
    /\ UNCHANGED <<systemd, lmd, pidfile, client, sess, fwd, rejected, performed, faults>>

\* Any error of accept() ends the accept task, and with it the daemon.
FwdRejects(c) ==
    /\ fwd.accepting
    /\ link[c].st = "queued"
    /\ link[c].pid # pidfile
    /\ link' = [i \in Clients |-> [link[i] EXCEPT !.st = IF i = c THEN "shut" ELSE Unlistened(@)]]
    /\ fwd' = [fwd EXCEPT !.accepting = FALSE]
    /\ rejected' = rejected \cup {link[c].pid}
    /\ UNCHANGED <<systemd, lmd, pidfile, client, sess, performed, faults>>

\* SIGTERM, SIGINT, a failed maintenance, or exit_sock_rx.
FwdMainLoopEnds ==
    /\ fwd.phase = "running"
    /\ \/ Fault
       \/ ~fwd.accepting /\ UNCHANGED faults
    /\ fwd' = [fwd EXCEPT !.phase = "ending"]
    /\ UNCHANGED <<systemd, lmd, pidfile, client, sess, link, rejected, performed>>

FwdDown ==
    /\ fwd' = [phase |-> "down", accepting |-> FALSE, permits |-> 0]
    /\ link' = [c \in Clients |->
                   [link[c] EXCEPT !.st = IF @ \in {"recv", "do", "reply"} THEN "shut"
                                                                          ELSE Unlistened(@)]]
    /\ UNCHANGED <<systemd, lmd, pidfile, client, sess, rejected, performed>>

\* shutdown has flushed the chain (see Firewall); tasks run on until then.
FwdExits   == fwd.phase = "ending" /\ FwdDown /\ UNCHANGED faults
FwdCrashes == fwd.phase # "down" /\ Fault /\ FwdDown

-----------------------------------------------------------------------------
(***************************************************************************)
(* letmeinfwd: one connection, FirewallConnection::handle_message.         *)
(***************************************************************************)
Handler(c, l) ==
    /\ link' = [link EXCEPT ![c] = l]
    /\ UNCHANGED <<systemd, lmd, pidfile, client, sess, fwd, rejected, faults>>

\* letmeind's end of the stream is open.
PeerOpen(c) == sess[c].st \in {"send", "wait"}

\* The request is complete; what does not parse or is not a request ends the
\* connection without an answer.
Taken(c, m) ==
    IF m.operation \in {"Open", "Close"}
    THEN [link[c] EXCEPT !.st = "do", !.rx = FWMSG_SIZE, !.got = m]
    ELSE [link[c] EXCEPT !.st = "shut"]

\* Mutant of FwdReads: the end of the stream is taken for the end of the message.
FwdReadsShort(c) ==
    /\ link[c].st = "recv"
    /\ \/ \E n \in Advance(link[c].rx, link[c].req, Cuts) :
             Handler(c, Taken(c, FwHeard[sess[c].want][n]))
       \/ /\ ~PeerOpen(c) /\ link[c].rx = link[c].req
          /\ Handler(c, [link[c] EXCEPT !.st = "shut"])
    /\ UNCHANGED performed

\* FirewallMessage::recv, one turn of its loop.
FwdReads(c) ==
    /\ link[c].st = "recv"
    /\ \/ \E n \in Advance(link[c].rx, link[c].req, Cuts) :
             IF n < FWMSG_SIZE THEN Handler(c, [link[c] EXCEPT !.rx = n])
             ELSE Handler(c, Taken(c, FwHeard[sess[c].want][n]))
       \/ /\ ~PeerOpen(c) /\ link[c].rx = link[c].req
          /\ Handler(c, [link[c] EXCEPT !.st = "shut"])
    /\ UNCHANGED performed

\* Mutant of FwdDoes: the answer does not depend on the result.
FwdDoesAckAlways(c) ==
    /\ link[c].st = "do"
    /\ \E ok \in BOOLEAN :
          /\ performed' = IF ok THEN [performed EXCEPT ![c] = @ \cup {link[c].got}] ELSE performed
          /\ Handler(c, [link[c] EXCEPT !.st = "reply", !.op = "Ack"])

\* The checks and the firewall operation of handle_message, see Firewall.
FwdDoes(c) ==
    /\ link[c].st = "do"
    /\ \E ok \in BOOLEAN :
          /\ performed' = IF ok THEN [performed EXCEPT ![c] = @ \cup {link[c].got}] ELSE performed
          /\ Handler(c, [link[c] EXCEPT !.st = "reply", !.op = IF ok THEN "Ack" ELSE "Nack"])

\* FirewallMessage::send of the answer, one turn of its loop; then the stream is
\* dropped.
FwdReplies(c) ==
    /\ link[c].st = "reply"
    /\ \/ /\ PeerOpen(c)
          /\ \E n \in Advance(link[c].ans, FWMSG_SIZE, Cuts) :
                Handler(c, [link[c] EXCEPT !.ans = n, !.st = IF n = FWMSG_SIZE THEN "shut" ELSE @])
       \/ ~PeerOpen(c) /\ Handler(c, [link[c] EXCEPT !.st = "shut"])
    /\ UNCHANGED performed

-----------------------------------------------------------------------------
SessionStep(c) ==
    \/ SessReads(c)
    \/ SessReadEnds(c)
    \/ SessRefuses(c)
    \/ SessConnects(c)
    \/ SessSends(c)
    \/ SessReadsAnswer(c)
    \/ SessCloses(c)
    \/ SessDrops(c)

FwdAccept(c)   == FwdAccepts(c) \/ FwdRejects(c)
HandlerStep(c) == FwdReads(c) \/ FwdDoes(c) \/ FwdReplies(c)

\* Steps of the daemons' tasks, and of systemd that starts them.
Work ==
    \/ \E c \in Clients :
          \/ LmdAccept(c)
          \/ SessionStep(c)
          \/ FwdAccept(c)
          \/ HandlerStep(c)
    \/ LmdStart
    \/ TruncatePidfile
    \/ WritePidfile
    \/ LmdMainLoopEnds
    \/ FwdStart
    \/ FwdMainLoopEnds
    \/ FwdExits

Next ==
    \/ \E c \in Clients : Connect(c) \/ ClientWrites(c)
    \/ Work
    \/ LmdDies
    \/ LmdAcceptFails
    \/ FwdCrashes

Spec == Init /\ [][Next]_vars

\* The runtimes poll their tasks, nft processes end, and systemd starts what is not
\* running (Restart=on-failure, and socket activation by what is in a backlog): as
\* long as there is work, some of it is done. Nothing is assumed of clients.
Fairness == WF_vars(Work /\ UNCHANGED faults)

FairSpec == Spec /\ Fairness

-----------------------------------------------------------------------------
(***************************************************************************)
(* Properties.                                                             *)
(***************************************************************************)

\* From end to end nothing but what a client said is carried out for it: across
\* two byte streams, two message formats, reads and writes that stop anywhere
\* and either peer dying in the middle of a message, every request letmeinfwd
\* performs is the request of that client, for its address.
CarriedOutAsSaid ==
    \A c \in Clients : \A r \in performed[c] :
        LET m == Msg[client[c].says] IN
        /\ m.magic = MAGIC /\ m.operation \in {"Knock", "Close"}
        /\ r = Want(c, m)

\* A session that takes its request for acknowledged is right, although letmeinfwd
\* may have died, restarted or refused in between: it has been performed.
AcknowledgedIsDone ==
    \A c \in Clients : sess[c].ok => sess[c].want \in performed[c]

\* accept() of letmeinfwd, whose every error ends the daemon, never rejects the
\* letmeind that is running: only connections left behind by one that is gone
\* (the comment there calls the check racy).
RejectsOnlyTheDead ==
    lmd.phase # "down" => lmd.pid \notin rejected

\* "close() must have been called and awaited before dropping the object", says
\* Connection::drop and asserts it: no end of letmeind is an abort.
ClosedBeforeDrop == ~lmd.aborted

\* Whoever is in the backlog of letmeind gets a session, and every session ends (or
\* letmeind goes down and takes both with it): the semaphore never runs out of
\* permits, and nobody waits for letmeinfwd for ever, however often that daemon
\* rejects, stops and dies, although its answer is awaited without a timeout.
ServedToTheEnd ==
    \A c \in Clients : sess[c].st = "queued" ~> sess[c].st \in {"ended", "lost"}

\* "Maximum number of simultaneous connections" (num_connections of letmeind).
ConnectionLimit ==
    Cardinality({c \in Clients : sess[c].st \notin {"none", "queued", "ended", "lost"}})
        <= num_connections
=============================================================================
