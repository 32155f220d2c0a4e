--------------------------- MODULE DaemonsProofs ----------------------------
(***************************************************************************)
(* The two daemons, proved for any number of clients, any messages, any    *)
(* configured resources, any way the kernel splits a stream and any number *)
(* of faults.                                                              *)
(*                                                                         *)
(* The argument has two halves. Processes: a session of letmeind lives     *)
(* only while its process does, which wrote its PID before it accepted     *)
(* anybody; process ids only grow. Streams: what a session asks for is     *)
(* fixed before its stream exists, and both message formats are read back  *)
(* as they were written (WireProofs).                                      *)
(***************************************************************************)
EXTENDS Daemons, WireProofs

Phases     == {"down", "starting", "truncated", "ready"}
SessStates == {"none", "queued", "recv", "connect", "send", "wait", "close", "drop",
               "ended", "lost"}
LinkStates == {"none", "queued", "recv", "do", "reply", "shut"}
\* States of a session that lives in a process.
Live       == {"recv", "connect", "send", "wait", "close", "drop"}

LmdType    == [phase : Phases, pid : Nat, accepting : BOOLEAN, permits : 0..num_connections,
               aborted : BOOLEAN]
USE DEF LmdType

ClientType == [st : {"idle", "open"}, says : Speeches, n : 0..MSG_SIZE]
SessType   == [st : SessStates, n : Nat, want : Requests \cup {NoRequest}, ok : BOOLEAN,
               closed : BOOLEAN]
LinkType   == [st : LinkStates, pid : Nat, req : 0..FWMSG_SIZE, rx : Nat,
               got : Requests \cup {NoRequest}, ans : 0..FWMSG_SIZE, op : {"Ack", "Nack"}]

ProcessShapes ==
    /\ systemd \in BOOLEAN
    /\ lmd \in LmdType
    /\ pidfile \in Nat
    /\ fwd \in [phase : {"down", "running", "ending"}, accepting : BOOLEAN,
                permits : 0..num_connections]
    /\ rejected \subseteq Nat \ {0}
    /\ faults \in 0..MaxFaults

StreamShapes ==
    /\ client \in [Clients -> ClientType]
    /\ sess \in [Clients -> SessType]
    /\ link \in [Clients -> LinkType]
    /\ performed \in [Clients -> SUBSET Requests]

\* Process ids. Every start but the first is paid for by a fault; the PID file of a
\* process that serves is its own; what it rejected is older.
ProcessInv ==
    /\ lmd.pid <= faults + 1
    /\ lmd.phase = "down" \/ (lmd.phase = "ready" /\ ~lmd.accepting) => lmd.pid <= faults
    /\ lmd.accepting => lmd.phase = "ready"
    /\ lmd.phase # "down" => lmd.pid >= 1
    /\ pidfile <= lmd.pid
    /\ lmd.phase = "ready" => pidfile = lmd.pid
    /\ \A r \in rejected : r <= lmd.pid
    /\ lmd.phase # "down" => lmd.pid \notin rejected

\* A session se lives in a letmeind that has written its PID file; a stream li is
\* as old as the process that made it.
PidInv(se, li) ==
    /\ se.st \in Live => lmd.phase = "ready"
    /\ li.pid <= lmd.pid
    /\ li.st = "queued" => li.pid >= 1
    /\ lmd.phase \in {"starting", "truncated"} => li.pid < lmd.pid

\* Client c, in state cl, has said something that letmeind acts on, and the session
\* wants that.
Said(c, cl, se) ==
    LET m == Msg[cl.says] IN
    /\ cl.st = "open"
    /\ m.magic = MAGIC /\ m.operation \in {"Knock", "Close"} /\ m.resource \in DOMAIN PortOf
    /\ se.want = Want(c, m)

\* Counts of bytes.
CountInv(cl, se, li) ==
    /\ se.st \in {"none", "queued", "send"} => se.n = 0
    /\ se.n <= IF se.st = "wait" THEN li.ans ELSE cl.n
    /\ li.rx <= li.req

\* A client, its session, its stream and what was done for it.
StreamInv(c, cl, se, li, done) ==
    /\ cl.st = "idle" <=> se.st = "none"
    /\ se.st \in {"none", "queued", "recv", "connect"} => li.st = "none"
    /\ li.st # "none" \/ se.st = "connect" => Said(c, cl, se)
    /\ li.st = "none" => done = {} /\ li.op = "Nack"
    /\ li.st \in {"do", "reply"} => li.got = se.want
    /\ done \subseteq {se.want}
    /\ li.op = "Ack" => se.want \in done
    /\ se.ok => se.want \in done
    /\ se.st = "drop" => se.closed

Conn(c, cl, se, li, done) ==
    PidInv(se, li) /\ CountInv(cl, se, li) /\ StreamInv(c, cl, se, li, done)

ConnInv == \A c \in Clients : Conn(c, client[c], sess[c], link[c], performed[c])

\* The inductive invariant.
IndInv == ProcessShapes /\ StreamShapes /\ ProcessInv /\ ConnInv

-----------------------------------------------------------------------------
(* What is heard. *)

\* Both sides hear what was said.
LEMMA HeardAsSaid ==
    /\ \A s \in Speeches : Heard[s][MSG_SIZE] = IF Msg[s].magic = MAGIC THEN Msg[s] ELSE Refused
    /\ \A r \in Requests \cup {Answer("Ack"), Answer("Nack")} : FwHeard[r][FWMSG_SIZE] = r
    <1>1. MSG_SIZE \in 0..MSG_SIZE /\ FWMSG_SIZE \in 0..FWMSG_SIZE
        BY DEF MSG_SIZE, FWMSG_SIZE, SALT_SIZE, AUTH_SIZE, ADDR_SIZE
    <1>2. \A s \in Speeches : Msg[s] \in Message
        BY DaemonsAssumption
    <1>3. \A s \in Speeches : Heard[s][MSG_SIZE] = msg_deserialize(Received(msg_serialize(Msg[s]), MSG_SIZE))
        BY <1>1 DEF Heard
    <1>4. Requests \cup {Answer("Ack"), Answer("Nack")} \subseteq FwMessages
        <2>1. {"Nack", "Ack", "Open", "Close"} \subseteq Variants(FirewallOperation)
            <3>1. /\ 1 \in DOMAIN FirewallOperation /\ FirewallOperation[1] = "Nack"
                  /\ 2 \in DOMAIN FirewallOperation /\ FirewallOperation[2] = "Ack"
                  /\ 3 \in DOMAIN FirewallOperation /\ FirewallOperation[3] = "Open"
                  /\ 4 \in DOMAIN FirewallOperation /\ FirewallOperation[4] = "Close"
                BY DEF FirewallOperation
            <3> QED BY <3>1 DEF Variants
        <2>2. "Tcp" \in Variants(PortType)
            <3>1. 1 \in DOMAIN PortType /\ PortType[1] = "Tcp"
                BY DEF PortType
            <3> QED BY <3>1 DEF Variants
        <2>3. Unspecified \in IpAddr
            <3>1. ADDR_SIZE \in Nat
                BY DEF ADDR_SIZE
            <3>2. Zeros(ADDR_SIZE) \in [1..ADDR_SIZE -> Byte]
                BY <3>1, Buffers
            <3> QED BY <3>2 DEF Unspecified, IpAddr
        <2>4. 0 \in U16
            BY DEF U16
        <2>5. Answer("Ack") \in FwMessages /\ Answer("Nack") \in FwMessages
            BY <2>1, <2>2, <2>3, <2>4 DEF Answer, FwMessages
        <2>6. Requests \subseteq FwMessages
            BY <2>1, DaemonsAssumption DEF Requests, FwMessages
        <2> QED BY <2>5, <2>6
    <1>5. \A r \in Requests \cup {Answer("Ack"), Answer("Nack")} :
              FwHeard[r][FWMSG_SIZE] = fw_deserialize(Received(fw_serialize(r), FWMSG_SIZE))
        BY <1>1 DEF FwHeard
    <1> QED BY <1>2, <1>3, <1>4, <1>5, MsgReadBack, FwReadBack

-----------------------------------------------------------------------------
(* The initial states, and steps that concern one client. *)

\* The sizes of the messages.
LEMMA Sizes == MSG_SIZE \in Nat /\ MSG_SIZE > 0 /\ FWMSG_SIZE \in Nat /\ FWMSG_SIZE > 0
    BY DEF MSG_SIZE, FWMSG_SIZE, SALT_SIZE, AUTH_SIZE, ADDR_SIZE

\* No client, no session, no stream.
LEMMA Nothing ==
    /\ NoClient \in ClientType /\ NoClient.st = "idle" /\ NoClient.n = 0
    /\ NoSess \in SessType /\ NoSess.st = "none" /\ NoSess.n = 0 /\ ~NoSess.ok
    /\ NoLink \in LinkType /\ NoLink.st = "none" /\ NoLink.pid = 0 /\ NoLink.op = "Nack"
    /\ NoLink.rx = 0 /\ NoLink.req = 0
    <1>1. (CHOOSE s \in Speeches : TRUE) \in Speeches
        BY DaemonsAssumption
    <1> QED BY <1>1, Sizes DEF NoClient, NoSess, NoLink, ClientType, SessType, LinkType,
                               SessStates, LinkStates

\* Before anything is started.
LEMMA InitIndInv == Init => IndInv
    <1> SUFFICES ASSUME Init PROVE IndInv
        OBVIOUS
    <1>1. NoClient \in ClientType /\ NoSess \in SessType /\ NoLink \in LinkType
        BY Nothing
    <1>2. ProcessShapes
        BY DaemonsAssumption DEF Init, ProcessShapes, Phases
    <1>3. StreamShapes
        BY <1>1 DEF Init, StreamShapes
    <1>4. ProcessInv
        BY DEF Init, ProcessInv
    <1>5. ASSUME NEW c \in Clients PROVE Conn(c, client[c], sess[c], link[c], performed[c])
        <2>1. client[c] = NoClient /\ sess[c] = NoSess /\ link[c] = NoLink /\ performed[c] = {}
            BY DEF Init
        <2>2. lmd.pid = 0 /\ lmd.phase = "down"
            BY DEF Init
        <2> QED BY <2>1, <2>2, Nothing DEF Conn, PidInv, CountInv, StreamInv, Live
    <1> QED BY <1>2, <1>3, <1>4, <1>5 DEF IndInv, ConnInv

\* A step that changes one connection only.
LEMMA OneConn ==
    ASSUME IndInv, NEW c \in Clients,
           UNCHANGED <<systemd, lmd, pidfile, fwd, rejected, faults>>,
           StreamShapes',
           \A d \in Clients \ {c} : /\ client'[d] = client[d] /\ sess'[d] = sess[d]
                                    /\ link'[d] = link[d] /\ performed'[d] = performed[d],
           Conn(c, client[c], sess[c], link[c], performed[c])'
    PROVE  IndInv'
    <1>1. ProcessShapes' /\ ProcessInv'
        BY DEF IndInv, ProcessShapes, ProcessInv
    <1>2. ASSUME NEW d \in Clients \ {c}
          PROVE  Conn(d, client[d], sess[d], link[d], performed[d])'
        <2>1. Conn(d, client[d], sess[d], link[d], performed[d])
            BY DEF IndInv, ConnInv
        <2>2. /\ client'[d] = client[d] /\ sess'[d] = sess[d]
              /\ link'[d] = link[d] /\ performed'[d] = performed[d] /\ lmd' = lmd
            OBVIOUS
        <2> QED BY <2>1, <2>2 DEF Conn, PidInv, CountInv, StreamInv, Said
    <1> QED BY <1>1, <1>2 DEF IndInv, ConnInv

\* A step of a session that leaves its stream alone.
LEMMA SessionAlone ==
    ASSUME IndInv, NEW c \in Clients, NEW s \in SessType, Session(c, s), UNCHANGED link,
           Conn(c, client[c], s, link[c], performed[c])
    PROVE  IndInv'
    <1>1. /\ client' = client /\ link' = link /\ performed' = performed /\ lmd' = lmd
          /\ sess' = [sess EXCEPT ![c] = s]
        BY DEF Session
    <1>2. StreamShapes /\ StreamShapes'
        BY <1>1 DEF IndInv, StreamShapes
    <1>3. sess'[c] = s /\ \A d \in Clients \ {c} : sess'[d] = sess[d]
        BY <1>1, <1>2 DEF StreamShapes
    <1>4. Conn(c, client[c], sess[c], link[c], performed[c])'
        BY <1>1, <1>3 DEF Conn, PidInv, CountInv, StreamInv, Said
    <1> QED BY <1>1, <1>2, <1>3, <1>4, OneConn DEF Session

\* A step of a handler of letmeinfwd.
LEMMA HandlerAlone ==
    ASSUME IndInv, NEW c \in Clients, NEW l \in LinkType, NEW done \in SUBSET Requests,
           Handler(c, l), performed' = [performed EXCEPT ![c] = done],
           Conn(c, client[c], sess[c], l, done)
    PROVE  IndInv'
    <1>1. /\ client' = client /\ sess' = sess /\ lmd' = lmd
          /\ link' = [link EXCEPT ![c] = l]
        BY DEF Handler
    <1>2. StreamShapes /\ StreamShapes'
        BY <1>1 DEF IndInv, StreamShapes
    <1>3. /\ link'[c] = l /\ \A d \in Clients \ {c} : link'[d] = link[d]
          /\ performed'[c] = done /\ \A d \in Clients \ {c} : performed'[d] = performed[d]
        BY <1>1, <1>2 DEF StreamShapes
    <1>4. Conn(c, client[c], sess[c], link[c], performed[c])'
        BY <1>1, <1>3 DEF Conn, PidInv, CountInv, StreamInv, Said
    <1> QED BY <1>1, <1>2, <1>3, <1>4, OneConn DEF Handler

\* What a count can become.
LEMMA AdvanceBounds ==
    ASSUME NEW count \in Nat, NEW limit \in Nat, NEW n \in Advance(count, limit, Cuts)
    PROVE  n \in Nat /\ count < n /\ n <= limit
    BY DaemonsAssumption DEF Advance

\* What is known of one connection.
LEMMA Known ==
    ASSUME IndInv, NEW c \in Clients
    PROVE  /\ client[c] \in ClientType /\ sess[c] \in SessType /\ link[c] \in LinkType
           /\ performed[c] \in SUBSET Requests
           /\ Conn(c, client[c], sess[c], link[c], performed[c])
    BY DEF IndInv, StreamShapes, ConnInv

-----------------------------------------------------------------------------
(* Clients. *)

\* A client connects.
LEMMA ConnectStep ==
    ASSUME IndInv, NEW c \in Clients, Connect(c) PROVE IndInv'
    <1>1. PICK s \in Speaks[c] : client' = [client EXCEPT ![c] = [st |-> "open", says |-> s, n |-> 0]]
        BY DEF Connect
    <1> DEFINE cl == [st |-> "open", says |-> s, n |-> 0]
               se == [sess[c] EXCEPT !.st = "queued"]
    <1>2. sess' = [sess EXCEPT ![c] = se] /\ link' = link /\ performed' = performed /\ lmd' = lmd
        BY DEF Connect
    <1>3. cl \in ClientType
        BY DaemonsAssumption, Sizes DEF ClientType
    <1>4. se \in SessType
        BY Known DEF SessType, SessStates
    <1>5. StreamShapes /\ StreamShapes'
        BY <1>1, <1>2, <1>3, <1>4 DEF IndInv, StreamShapes
    <1>6. /\ client'[c] = cl /\ \A d \in Clients \ {c} : client'[d] = client[d]
          /\ sess'[c] = se /\ \A d \in Clients \ {c} : sess'[d] = sess[d]
        BY <1>1, <1>2, <1>5 DEF StreamShapes
    <1>7. Conn(c, cl, se, link[c], performed[c])
        <2>1. client[c].st = "idle" /\ sess[c].st = "none"
            BY Known DEF Connect, Conn, StreamInv
        <2>2. /\ se.st = "queued" /\ se.n = sess[c].n /\ se.ok = sess[c].ok
              /\ se.want = sess[c].want
            BY Known DEF SessType
        <2>3. cl.st = "open" /\ cl.n = 0
            OBVIOUS
        <2> HIDE DEF cl, se
        <2> QED BY <2>1, <2>2, <2>3, Known DEF Conn, PidInv, CountInv, StreamInv, Live
    <1> HIDE DEF cl, se
    <1>8. Conn(c, client[c], sess[c], link[c], performed[c])'
        BY <1>2, <1>6, <1>7 DEF Conn, PidInv, CountInv, StreamInv, Said
    <1> QED BY <1>2, <1>5, <1>6, <1>8, OneConn DEF Connect

\* A client writes.
LEMMA ClientWritesStep ==
    ASSUME IndInv, NEW c \in Clients, ClientWrites(c) PROVE IndInv'
    <1>1. PICK n \in Advance(client[c].n, MSG_SIZE, Cuts) : client' = [client EXCEPT ![c].n = n]
        BY DEF ClientWrites
    <1> DEFINE cl == [client[c] EXCEPT !.n = n]
    <1>2. client[c] \in ClientType /\ client[c].n \in Nat
        BY Known, Sizes DEF ClientType
    <1>3. n \in Nat /\ client[c].n < n /\ n <= MSG_SIZE
        BY <1>2, AdvanceBounds, Sizes
    <1>4. /\ cl \in ClientType /\ cl.n = n /\ cl.st = client[c].st /\ cl.says = client[c].says
        BY <1>2, <1>3, Sizes DEF ClientType
    <1>5. /\ client' = [client EXCEPT ![c] = cl]
          /\ sess' = sess /\ link' = link /\ performed' = performed /\ lmd' = lmd
        BY <1>1 DEF ClientWrites
    <1> HIDE DEF cl
    <1>6. StreamShapes /\ StreamShapes'
        BY <1>4, <1>5 DEF IndInv, StreamShapes
    <1>7. client'[c] = cl /\ \A d \in Clients \ {c} : client'[d] = client[d]
        BY <1>5, <1>6 DEF StreamShapes
    <1>8. Conn(c, cl, sess[c], link[c], performed[c])
        <2>1. sess[c].st \in {"queued", "recv"} /\ sess[c].n \in Nat
            BY Known DEF ClientWrites, SessType
        <2> QED BY <1>2, <1>3, <1>4, <2>1, Known DEF Conn, PidInv, CountInv, StreamInv, Said
    <1>9. Conn(c, client[c], sess[c], link[c], performed[c])'
        BY <1>5, <1>7, <1>8 DEF Conn, PidInv, CountInv, StreamInv, Said
    <1> QED BY <1>5, <1>6, <1>7, <1>9, OneConn DEF ClientWrites

-----------------------------------------------------------------------------
(* Sessions of letmeind. *)

\* A session that fails keeps its connection in order; its stream, if any, is left.
LEMMA FailingConn ==
    ASSUME IndInv, NEW c \in Clients, sess[c].st \in Live, NEW n \in Nat, n <= client[c].n
    PROVE  LET s == [Failing(c) EXCEPT !.n = n] IN
           /\ s \in SessType
           /\ Conn(c, client[c], s, link[c], performed[c])
    <1> DEFINE s == [Failing(c) EXCEPT !.n = n]
    <1>1. s \in SessType /\ s.st = "close" /\ s.n = n /\ s.ok = FALSE /\ s.want = sess[c].want
        BY Known DEF Failing, SessType, SessStates
    <1>2. client[c].n \in Nat /\ sess[c].st # "none"
        BY Known, Sizes DEF ClientType, Live
    <1> HIDE DEF s
    <1>3. PidInv(s, link[c])
        BY Known DEF Conn, PidInv
    <1>4. CountInv(client[c], s, link[c])
        BY <1>1, Known DEF Conn, CountInv
    <1>5. StreamInv(c, client[c], s, link[c], performed[c])
        BY <1>1, <1>2, Known DEF Conn, StreamInv, Said
    <1> QED BY <1>1, <1>3, <1>4, <1>5 DEF Conn, s

\* The same, if the session has not waited for an answer.
LEMMA FailingSame ==
    ASSUME IndInv, NEW c \in Clients, sess[c].st \in Live \ {"wait"}
    PROVE  /\ Failing(c) \in SessType
           /\ Conn(c, client[c], Failing(c), link[c], performed[c])
    <1>1. sess[c].n \in Nat /\ sess[c].n <= client[c].n
        BY Known DEF Conn, CountInv, SessType
    <1>2. [Failing(c) EXCEPT !.n = sess[c].n] = Failing(c)
        BY Known DEF Failing, SessType
    <1>3. LET s == [Failing(c) EXCEPT !.n = sess[c].n] IN
             s \in SessType /\ Conn(c, client[c], s, link[c], performed[c])
        BY <1>1, FailingConn
    <1> QED BY <1>2, <1>3

\* A connection is accepted.
LEMMA LmdAcceptStep ==
    ASSUME IndInv, NEW c \in Clients, LmdAccept(c) PROVE IndInv'
    <1> DEFINE s == [sess[c] EXCEPT !.st = "recv"]
    <1>1. /\ s \in SessType /\ s.st = "recv" /\ s.n = sess[c].n /\ s.ok = sess[c].ok
          /\ s.want = sess[c].want
        BY Known DEF SessType, SessStates
    <1>2. Session(c, s) /\ UNCHANGED link
        BY DEF LmdAccept, Session
    <1> HIDE DEF s
    <1>3. lmd.phase = "ready"
        BY DEF LmdAccept, IndInv, ProcessInv
    <1>4. Conn(c, client[c], s, link[c], performed[c])
        <2>1. sess[c].st = "queued"
            BY DEF LmdAccept
        <2> QED BY <1>1, <1>3, <2>1, Known DEF Conn, PidInv, CountInv, StreamInv, Said
    <1> QED BY <1>1, <1>2, <1>4, SessionAlone

\* A piece of the client's message arrives, perhaps the last.
LEMMA SessReadsStep ==
    ASSUME IndInv, NEW c \in Clients, SessReads(c) PROVE IndInv'
    <1>0. /\ sess[c].st = "recv" /\ sess[c].n \in Nat
          /\ client[c].n \in Nat /\ client[c].n <= MSG_SIZE /\ client[c].says \in Speeches
        BY Known, Sizes DEF SessReads, SessType, ClientType
    <1>1. PICK n \in Advance(sess[c].n, client[c].n, Cuts) :
             IF n < MSG_SIZE THEN Session(c, [sess[c] EXCEPT !.n = n])
             ELSE Session(c, Understood(c, Heard[client[c].says][n]))
        BY DEF SessReads
    <1>2. n \in Nat /\ n <= client[c].n
        BY <1>0, AdvanceBounds
    <1>3. UNCHANGED link
        BY DEF SessReads
    <1>4. link[c].st = "none" /\ performed[c] = {} /\ ~sess[c].ok /\ link[c].op = "Nack"
          /\ client[c].st = "open"
        BY <1>0, Known DEF Conn, StreamInv, ClientType
    <1>5. CASE n < MSG_SIZE
        <2> DEFINE s == [sess[c] EXCEPT !.n = n]
        <2>1. /\ s \in SessType /\ s.st = "recv" /\ s.n = n /\ s.ok = sess[c].ok
              /\ s.want = sess[c].want
            BY <1>0, <1>2, Known DEF SessType, SessStates
        <2>2. Session(c, s)
            BY <1>1, <1>5
        <2> HIDE DEF s
        <2>3. Conn(c, client[c], s, link[c], performed[c])
            BY <1>0, <1>2, <1>4, <2>1, Known DEF Conn, PidInv, CountInv, StreamInv, Said
        <2> QED BY <1>3, <2>1, <2>2, <2>3, SessionAlone
    <1>6. CASE ~(n < MSG_SIZE)
        <2> DEFINE m == Heard[client[c].says][n]
                   w == Msg[client[c].says]
        <2>1. n = MSG_SIZE /\ client[c].n = MSG_SIZE
            BY <1>0, <1>2, <1>6, Sizes
        <2>2. m = IF w.magic = MAGIC THEN w ELSE Refused
            BY <1>0, <2>1, HeardAsSaid
        <2>3. Session(c, Understood(c, m))
            BY <1>1, <1>6
        <2> HIDE DEF m, w
        <2>4. CASE m.operation \in {"Knock", "Close"} /\ m.resource \in DOMAIN PortOf
            <3> DEFINE s == [sess[c] EXCEPT !.st = "connect", !.n = MSG_SIZE, !.want = Want(c, m)]
            <3>1. Understood(c, m) = s
                BY <2>4 DEF Understood
            <3>2. m = w /\ w.magic = MAGIC
                BY <2>2, <2>4 DEF Refused
            <3>3. Want(c, m) \in Requests
                BY <2>4 DEF Want, Requests
            <3>4. s \in SessType
                BY <3>3, Known, Sizes DEF SessType, SessStates
            <3>5. s.st = "connect" /\ s.n = MSG_SIZE /\ s.ok = sess[c].ok /\ s.want = Want(c, m)
                BY Known DEF SessType
            <3> HIDE DEF s
            <3>6. Said(c, client[c], s)
                BY <1>4, <2>4, <3>2, <3>5 DEF Said, w
            <3>7. Conn(c, client[c], s, link[c], performed[c])
                BY <1>0, <1>4, <2>1, <3>5, <3>6, Known DEF Conn, PidInv, CountInv, StreamInv, Live
            <3> QED BY <1>3, <2>3, <3>1, <3>4, <3>7, SessionAlone
        <2>5. CASE ~(m.operation \in {"Knock", "Close"} /\ m.resource \in DOMAIN PortOf)
            <3>1. Understood(c, m) = [Failing(c) EXCEPT !.n = MSG_SIZE]
                BY <2>5 DEF Understood
            <3>2. sess[c].st \in Live /\ MSG_SIZE \in Nat /\ MSG_SIZE <= client[c].n
                BY <1>0, <2>1, Sizes DEF Live
            <3>3. /\ Understood(c, m) \in SessType
                  /\ Conn(c, client[c], Understood(c, m), link[c], performed[c])
                BY <3>1, <3>2, FailingConn
            <3> QED BY <1>3, <2>3, <3>3, SessionAlone
        <2> QED BY <2>4, <2>5
    <1> QED BY <1>5, <1>6

\* The stream of the client ends, or authentication fails.
LEMMA SessFailsStep ==
    ASSUME IndInv, NEW c \in Clients, SessReadEnds(c) \/ SessRefuses(c) PROVE IndInv'
    <1>1. Session(c, Failing(c)) /\ UNCHANGED link /\ sess[c].st \in {"recv", "connect"}
        BY DEF SessReadEnds, SessRefuses
    <1>2. sess[c].st \in Live \ {"wait"}
        BY <1>1 DEF Live
    <1> QED BY <1>1, <1>2, FailingSame, SessionAlone

\* A session connects to letmeinfwd, or cannot.
LEMMA SessConnectsStep ==
    ASSUME IndInv, NEW c \in Clients, SessConnects(c) PROVE IndInv'
    <1>0. sess[c].st = "connect" /\ lmd.phase = "ready" /\ lmd.pid \in Nat /\ lmd.pid >= 1
        BY Known DEF SessConnects, Conn, PidInv, Live, IndInv, ProcessShapes, ProcessInv
    <1>1. CASE FwdListens
        <2> DEFINE s == [sess[c] EXCEPT !.st = "send", !.n = 0]
                   l == [NoLink EXCEPT !.st = "queued", !.pid = lmd.pid]
        <2>1. /\ sess' = [sess EXCEPT ![c] = s] /\ link' = [link EXCEPT ![c] = l]
              /\ client' = client /\ performed' = performed /\ lmd' = lmd
            BY <1>1 DEF SessConnects, Session
        <2>2. /\ s \in SessType /\ s.st = "send" /\ s.n = 0 /\ s.ok = sess[c].ok
              /\ s.want = sess[c].want
            BY Known DEF SessType, SessStates
        <2>3. /\ l \in LinkType /\ l.st = "queued" /\ l.pid = lmd.pid /\ l.op = "Nack"
              /\ l.rx = 0 /\ l.req = 0
            BY <1>0, Nothing DEF LinkType, LinkStates
        <2> HIDE DEF s, l
        <2>4. StreamShapes /\ StreamShapes'
            BY <2>1, <2>2, <2>3 DEF IndInv, StreamShapes
        <2>5. /\ sess'[c] = s /\ \A d \in Clients \ {c} : sess'[d] = sess[d]
              /\ link'[c] = l /\ \A d \in Clients \ {c} : link'[d] = link[d]
            BY <2>1, <2>4 DEF StreamShapes
        <2>6. PidInv(s, l)
            BY <1>0, <2>3 DEF PidInv
        <2>7. CountInv(client[c], s, l)
            BY <2>2, <2>3, Known, Sizes DEF CountInv, ClientType
        <2>8. StreamInv(c, client[c], s, l, performed[c])
            BY <1>0, <2>2, <2>3, Known DEF Conn, StreamInv, Said
        <2>9. Conn(c, client[c], sess[c], link[c], performed[c])'
            BY <2>1, <2>5, <2>6, <2>7, <2>8 DEF Conn, PidInv, CountInv, StreamInv, Said
        <2> QED BY <1>1, <2>1, <2>4, <2>5, <2>9, OneConn DEF SessConnects, Session
    <1>2. CASE ~FwdListens
        <2>1. Session(c, Failing(c)) /\ UNCHANGED link
            BY <1>2 DEF SessConnects
        <2>2. sess[c].st \in Live \ {"wait"}
            BY <1>0 DEF Live
        <2> QED BY <2>1, <2>2, FailingSame, SessionAlone
    <1> QED BY <1>1, <1>2

\* A piece of the request is written, or the stream is found closed.
LEMMA SessSendsStep ==
    ASSUME IndInv, NEW c \in Clients, SessSends(c) PROVE IndInv'
    <1>0. sess[c].st = "send" /\ link[c].req \in Nat /\ link[c] \in LinkType
        BY Known, Sizes DEF SessSends, LinkType
    <1>1. ASSUME link[c].st # "shut", NEW n \in Advance(link[c].req, FWMSG_SIZE, Cuts),
                 link' = [link EXCEPT ![c].req = n],
                 Session(c, IF n = FWMSG_SIZE THEN [sess[c] EXCEPT !.st = "wait"] ELSE sess[c])
          PROVE  IndInv'
        <2> DEFINE s == IF n = FWMSG_SIZE THEN [sess[c] EXCEPT !.st = "wait"] ELSE sess[c]
                   l == [link[c] EXCEPT !.req = n]
        <2>1. /\ sess' = [sess EXCEPT ![c] = s] /\ link' = [link EXCEPT ![c] = l]
              /\ client' = client /\ performed' = performed /\ lmd' = lmd
            BY <1>1 DEF Session
        <2>2. n \in Nat /\ link[c].req < n /\ n <= FWMSG_SIZE
            BY <1>0, AdvanceBounds, Sizes
        <2>3. /\ s \in SessType /\ s.st \in {"send", "wait"} /\ s.n = sess[c].n /\ s.ok = sess[c].ok
              /\ s.want = sess[c].want
            BY <1>0, Known DEF SessType, SessStates
        <2>4. /\ l \in LinkType /\ l.st = link[c].st /\ l.pid = link[c].pid /\ l.op = link[c].op
              /\ l.rx = link[c].rx /\ l.req = n /\ l.got = link[c].got /\ l.ans = link[c].ans
            BY <1>0, <2>2, Sizes DEF LinkType
        <2> HIDE DEF s, l
        <2>5. StreamShapes /\ StreamShapes'
            BY <2>1, <2>3, <2>4 DEF IndInv, StreamShapes
        <2>6. /\ sess'[c] = s /\ \A d \in Clients \ {c} : sess'[d] = sess[d]
              /\ link'[c] = l /\ \A d \in Clients \ {c} : link'[d] = link[d]
            BY <2>1, <2>5 DEF StreamShapes
        <2>7. PidInv(s, l)
            BY <1>0, <2>3, <2>4, Known DEF Conn, PidInv, Live
        <2>8. CountInv(client[c], s, l)
            <3>1. sess[c].n = 0 /\ link[c].rx <= link[c].req
                BY <1>0, Known DEF Conn, CountInv
            <3>2. client[c].n \in Nat /\ link[c].ans \in Nat /\ link[c].rx \in Nat
                BY Known, Sizes DEF ClientType, LinkType
            <3> QED BY <1>0, <2>2, <2>3, <2>4, <3>1, <3>2 DEF CountInv
        <2>9. StreamInv(c, client[c], s, l, performed[c])
            BY <1>0, <2>3, <2>4, Known DEF Conn, StreamInv, Said
        <2>10. Conn(c, client[c], sess[c], link[c], performed[c])'
            BY <2>1, <2>6, <2>7, <2>8, <2>9 DEF Conn, PidInv, CountInv, StreamInv, Said
        <2> QED BY <1>1, <2>1, <2>5, <2>6, <2>10, OneConn DEF Session
    <1>2. CASE Session(c, Failing(c)) /\ UNCHANGED link
        <2>1. sess[c].st \in Live \ {"wait"}
            BY <1>0 DEF Live
        <2> QED BY <1>2, <2>1, FailingSame, SessionAlone
    <1> QED BY <1>1, <1>2 DEF SessSends

\* A piece of the answer is read, perhaps the last, or the stream ends.
LEMMA SessReadsAnswerStep ==
    ASSUME IndInv, NEW c \in Clients, SessReadsAnswer(c) PROVE IndInv'
    <1>0. /\ sess[c].st = "wait" /\ sess[c].st \in Live /\ sess[c].n \in Nat
          /\ link[c].ans \in Nat /\ link[c].ans <= FWMSG_SIZE /\ link[c].op \in {"Ack", "Nack"}
          /\ client[c].n \in Nat
        <2>1. sess[c].st = "wait"
            BY DEF SessReadsAnswer
        <2> QED BY <2>1, Known, Sizes DEF SessType, LinkType, ClientType, Live
    <1>1. UNCHANGED link
        BY DEF SessReadsAnswer
    <1> DEFINE z == [Failing(c) EXCEPT !.n = 0]
    <1>2. z \in SessType /\ Conn(c, client[c], z, link[c], performed[c])
        <2>1. 0 \in Nat /\ 0 <= client[c].n
            BY <1>0
        <2> QED BY <1>0, <2>1, FailingConn
    <1>3. ASSUME NEW n \in Advance(sess[c].n, link[c].ans, Cuts),
                 IF n < FWMSG_SIZE THEN Session(c, [sess[c] EXCEPT !.n = n])
                 ELSE Session(c, [Failing(c) EXCEPT
                         !.n = 0, !.ok = FwHeard[Answer(link[c].op)][n].operation = "Ack"])
          PROVE  IndInv'
        <2>1. n \in Nat /\ n <= link[c].ans
            BY <1>0, AdvanceBounds
        <2>2. CASE n < FWMSG_SIZE
            <3> DEFINE s == [sess[c] EXCEPT !.n = n]
            <3>1. /\ s \in SessType /\ s.st = "wait" /\ s.n = n /\ s.ok = sess[c].ok
                  /\ s.want = sess[c].want
                BY <1>0, <2>1, Known DEF SessType, SessStates
            <3>2. Session(c, s)
                BY <1>3, <2>2
            <3> HIDE DEF s
            <3>3. Conn(c, client[c], s, link[c], performed[c])
                BY <1>0, <2>1, <3>1, Known DEF Conn, PidInv, CountInv, StreamInv, Said
            <3> QED BY <1>1, <3>1, <3>2, <3>3, SessionAlone
        <2>3. CASE ~(n < FWMSG_SIZE)
            <3> DEFINE k == FwHeard[Answer(link[c].op)][n].operation = "Ack"
                       s == [Failing(c) EXCEPT !.n = 0, !.ok = k]
            <3>1. n = FWMSG_SIZE
                BY <1>0, <2>1, <2>3, Sizes
            <3>2. Answer(link[c].op) \in {Answer("Ack"), Answer("Nack")}
                BY <1>0
            <3>3. k <=> link[c].op = "Ack"
                BY <1>0, <3>1, <3>2, HeardAsSaid DEF Answer, FirewallMessage
            <3>4. Session(c, s)
                BY <1>3, <2>3
            <3>5. k \in BOOLEAN
                OBVIOUS
            <3> HIDE DEF k
            <3>6. /\ s \in SessType /\ s.st = z.st /\ s.n = z.n /\ s.ok = k /\ s.want = z.want
                  /\ z.st = "close" /\ z.want = sess[c].want
                BY <3>5, Known DEF Failing, SessType, SessStates
            <3> HIDE DEF s, z
            <3>7. k => sess[c].want \in performed[c]
                BY <3>3, Known DEF Conn, StreamInv
            <3>8. Conn(c, client[c], s, link[c], performed[c])
                BY <1>2, <3>6, <3>7 DEF Conn, PidInv, CountInv, StreamInv, Said
            <3> QED BY <1>1, <3>4, <3>6, <3>8, SessionAlone
        <2> QED BY <2>2, <2>3
    <1>4. CASE Session(c, z)
        BY <1>1, <1>2, <1>4, SessionAlone
    <1> QED BY <1>3, <1>4 DEF SessReadsAnswer

\* The session closes its connection and lets go of it.
LEMMA SessEndsStep ==
    ASSUME IndInv, NEW c \in Clients, SessCloses(c) \/ SessDrops(c) PROVE IndInv'
    <1>0. client[c].n \in Nat /\ sess[c].n \in Nat
        BY Known, Sizes DEF ClientType, SessType
    <1>1. CASE SessCloses(c)
        <2> DEFINE s == [sess[c] EXCEPT !.st = "drop", !.closed = TRUE]
        <2>1. /\ s \in SessType /\ s.st = "drop" /\ s.n = sess[c].n /\ s.ok = sess[c].ok
              /\ s.want = sess[c].want /\ s.closed
            BY Known DEF SessType, SessStates
        <2>2. Session(c, s) /\ UNCHANGED link /\ sess[c].st = "close"
            BY <1>1 DEF SessCloses
        <2> HIDE DEF s
        <2>3. Conn(c, client[c], s, link[c], performed[c])
            BY <1>0, <2>1, <2>2, Known DEF Conn, PidInv, CountInv, StreamInv, Said, Live
        <2> QED BY <2>1, <2>2, <2>3, SessionAlone
    <1>2. CASE SessDrops(c)
        <2> DEFINE s == [sess[c] EXCEPT !.st = "ended", !.n = 0]
        <2>1. /\ s \in SessType /\ s.st = "ended" /\ s.n = 0 /\ s.ok = sess[c].ok
              /\ s.want = sess[c].want
            BY Known DEF SessType, SessStates
        <2>2. sess[c].st = "drop" /\ sess[c].closed
            BY <1>2, Known DEF SessDrops, Conn, StreamInv
        <2>3. Session(c, s) /\ UNCHANGED link
            BY <1>2, <2>2 DEF SessDrops
        <2> HIDE DEF s
        <2>4. Conn(c, client[c], s, link[c], performed[c])
            BY <1>0, <2>1, <2>2, Known DEF Conn, PidInv, CountInv, StreamInv, Said, Live
        <2> QED BY <2>1, <2>3, <2>4, SessionAlone
    <1> QED BY <1>1, <1>2

-----------------------------------------------------------------------------
(* Handlers of letmeinfwd. *)

\* A step of a handler, or of the accept task, that does not touch the firewall.
LEMMA HandlerQuiet ==
    ASSUME IndInv, NEW c \in Clients, NEW l \in LinkType, Handler(c, l), UNCHANGED performed,
           l.pid = link[c].pid, l.op = link[c].op, l.rx <= l.req, l.ans >= link[c].ans,
           link[c].st # "none", l.st \notin {"none", "queued"},
           l.st \in {"do", "reply"} => l.got = sess[c].want
    PROVE  IndInv'
    <1>1. performed' = [performed EXCEPT ![c] = performed[c]]
        BY DEF IndInv, StreamShapes
    <1>2. performed[c] \in SUBSET Requests
        BY Known
    <1>3. PidInv(sess[c], l)
        BY Known DEF Conn, PidInv
    <1>4. CountInv(client[c], sess[c], l)
        <2>1. sess[c].n \in Nat /\ link[c].ans \in Nat /\ l.ans \in Nat
            BY Known, Sizes DEF SessType, LinkType
        <2> QED BY <2>1, Known DEF Conn, CountInv
    <1>5. StreamInv(c, client[c], sess[c], l, performed[c])
        BY Known DEF Conn, StreamInv
    <1> QED BY <1>1, <1>2, <1>3, <1>4, <1>5, HandlerAlone DEF Conn

\* A stream that is shut.
LEMMA Shutting ==
    ASSUME IndInv, NEW c \in Clients, Handler(c, [link[c] EXCEPT !.st = "shut"]),
           UNCHANGED performed, link[c].st # "none"
    PROVE  IndInv'
    <1> DEFINE l == [link[c] EXCEPT !.st = "shut"]
    <1>1. /\ l \in LinkType /\ l.st = "shut" /\ l.pid = link[c].pid /\ l.op = link[c].op
          /\ l.rx = link[c].rx /\ l.req = link[c].req /\ l.ans = link[c].ans
        BY Known DEF LinkType, LinkStates
    <1>2. l.rx <= l.req /\ l.ans >= link[c].ans
        BY <1>1, Known, Sizes DEF Conn, CountInv, LinkType
    <1> HIDE DEF l
    <1>3. Handler(c, l)
        BY DEF l
    <1> QED BY <1>1, <1>2, <1>3, HandlerQuiet

\* A stream is accepted.
LEMMA FwdAcceptsStep ==
    ASSUME IndInv, NEW c \in Clients, FwdAccepts(c) PROVE IndInv'
    <1> DEFINE l == [link[c] EXCEPT !.st = "recv"]
    <1>1. /\ l \in LinkType /\ l.st = "recv" /\ l.pid = link[c].pid /\ l.op = link[c].op
          /\ l.rx = link[c].rx /\ l.req = link[c].req /\ l.ans = link[c].ans
        BY Known DEF LinkType, LinkStates
    <1>2. l.rx <= l.req /\ l.ans >= link[c].ans
        BY <1>1, Known, Sizes DEF Conn, CountInv, LinkType
    <1>3. Handler(c, l) /\ UNCHANGED performed /\ link[c].st = "queued"
        BY DEF FwdAccepts, Handler
    <1> HIDE DEF l
    <1> QED BY <1>1, <1>2, <1>3, HandlerQuiet

\* A piece of the request is read, perhaps the last, or the stream ends.
LEMMA FwdReadsStep ==
    ASSUME IndInv, NEW c \in Clients, FwdReads(c) PROVE IndInv'
    <1>0. /\ link[c].st = "recv" /\ link[c].rx \in Nat /\ link[c].req \in Nat /\ link[c].ans \in Nat
          /\ link[c].req <= FWMSG_SIZE /\ sess[c].want \in Requests \cup {NoRequest}
        <2>1. link[c].st = "recv"
            BY DEF FwdReads
        <2> QED BY <2>1, Known, Sizes DEF LinkType, SessType
    <1>1. UNCHANGED performed
        BY DEF FwdReads
    <1>2. ASSUME NEW n \in Advance(link[c].rx, link[c].req, Cuts),
                 IF n < FWMSG_SIZE THEN Handler(c, [link[c] EXCEPT !.rx = n])
                 ELSE Handler(c, Taken(c, FwHeard[sess[c].want][n]))
          PROVE  IndInv'
        <2>1. n \in Nat /\ n <= link[c].req
            BY <1>0, AdvanceBounds
        <2>2. CASE n < FWMSG_SIZE
            <3> DEFINE l == [link[c] EXCEPT !.rx = n]
            <3>1. /\ l \in LinkType /\ l.st = "recv" /\ l.pid = link[c].pid /\ l.op = link[c].op
                  /\ l.rx = n /\ l.req = link[c].req /\ l.ans = link[c].ans
                BY <1>0, <2>1, Known DEF LinkType
            <3>2. Handler(c, l)
                BY <1>2, <2>2
            <3> HIDE DEF l
            <3>3. l.rx <= l.req /\ l.ans >= link[c].ans
                BY <1>0, <2>1, <3>1
            <3> QED BY <1>0, <1>1, <3>1, <3>2, <3>3, HandlerQuiet
        <2>3. CASE ~(n < FWMSG_SIZE)
            <3> DEFINE m == FwHeard[sess[c].want][n]
            <3>1. n = FWMSG_SIZE /\ link[c].req = FWMSG_SIZE
                BY <1>0, <2>1, <2>3, Sizes
            <3>2. m = sess[c].want
                BY <1>0, <3>1, HeardAsSaid DEF NoRequest
            <3>3. Handler(c, Taken(c, m))
                BY <1>2, <2>3
            <3> HIDE DEF m
            <3>4. CASE m.operation \in {"Open", "Close"}
                <4> DEFINE l == [link[c] EXCEPT !.st = "do", !.rx = FWMSG_SIZE, !.got = m]
                <4>1. Taken(c, m) = l
                    BY <3>4 DEF Taken
                <4>2. /\ l \in LinkType /\ l.st = "do" /\ l.pid = link[c].pid /\ l.op = link[c].op
                      /\ l.rx = FWMSG_SIZE /\ l.req = link[c].req /\ l.ans = link[c].ans
                      /\ l.got = sess[c].want
                    BY <1>0, <3>2, Known, Sizes DEF LinkType, LinkStates
                <4> HIDE DEF l
                <4>3. l.rx <= l.req /\ l.ans >= link[c].ans
                    BY <1>0, <3>1, <4>2, Sizes
                <4> QED BY <1>0, <1>1, <3>3, <4>1, <4>2, <4>3, HandlerQuiet
            <3>5. CASE ~(m.operation \in {"Open", "Close"})
                <4>1. Taken(c, m) = [link[c] EXCEPT !.st = "shut"]
                    BY <3>5 DEF Taken
                <4> QED BY <1>0, <1>1, <3>3, <4>1, Shutting
            <3> QED BY <3>4, <3>5
        <2> QED BY <2>2, <2>3
    <1>3. CASE Handler(c, [link[c] EXCEPT !.st = "shut"])
        BY <1>0, <1>1, <1>3, Shutting
    <1> QED BY <1>2, <1>3 DEF FwdReads

\* The request is carried out, or fails.
LEMMA FwdDoesStep ==
    ASSUME IndInv, NEW c \in Clients, FwdDoes(c) PROVE IndInv'
    <1>1. PICK ok \in BOOLEAN :
             /\ performed' = IF ok THEN [performed EXCEPT ![c] = @ \cup {link[c].got}] ELSE performed
             /\ Handler(c, [link[c] EXCEPT !.st = "reply", !.op = IF ok THEN "Ack" ELSE "Nack"])
        BY DEF FwdDoes
    <1> DEFINE l == [link[c] EXCEPT !.st = "reply", !.op = IF ok THEN "Ack" ELSE "Nack"]
               done == IF ok THEN performed[c] \cup {link[c].got} ELSE performed[c]
    <1>2. performed' = [performed EXCEPT ![c] = done]
        BY <1>1 DEF IndInv, StreamShapes
    <1>3. /\ l \in LinkType /\ l.st = "reply" /\ l.pid = link[c].pid
          /\ l.op = (IF ok THEN "Ack" ELSE "Nack")
          /\ l.rx = link[c].rx /\ l.req = link[c].req /\ l.ans = link[c].ans
          /\ l.got = link[c].got
        BY Known DEF LinkType, LinkStates
    <1>4. link[c].st = "do" /\ link[c].got = sess[c].want /\ Said(c, client[c], sess[c])
        <2>1. link[c].st = "do"
            BY DEF FwdDoes
        <2> QED BY <2>1, Known DEF Conn, StreamInv
    <1>5. link[c].got \in Requests
        <2>1. sess[c].want = Want(c, Msg[client[c].says]) /\ Msg[client[c].says].resource \in DOMAIN PortOf
            BY <1>4 DEF Said
        <2> QED BY <1>4, <2>1 DEF Want, Requests
    <1>6. done \in SUBSET Requests
        BY <1>5, Known
    <1>7. Handler(c, l)
        BY <1>1
    <1> HIDE DEF l
    <1>8. PidInv(sess[c], l)
        BY <1>3, Known DEF Conn, PidInv
    <1>9. CountInv(client[c], sess[c], l)
        BY <1>3, Known DEF Conn, CountInv
    <1>10. StreamInv(c, client[c], sess[c], l, done)
        <2>1. sess[c].st \notin {"none", "queued", "recv", "connect"}
            BY <1>4, Known DEF Conn, StreamInv
        <2>2. performed[c] \subseteq done /\ done \subseteq {sess[c].want}
            BY <1>4, Known DEF Conn, StreamInv
        <2>3. l.op = "Ack" => sess[c].want \in done
            BY <1>3, <1>4
        <2> HIDE DEF done
        <2> QED BY <1>3, <1>4, <2>1, <2>2, <2>3, Known DEF Conn, StreamInv
    <1> HIDE DEF done
    <1> QED BY <1>2, <1>3, <1>6, <1>7, <1>8, <1>9, <1>10, HandlerAlone DEF Conn

\* A piece of the answer is written; then the stream is shut.
LEMMA FwdRepliesStep ==
    ASSUME IndInv, NEW c \in Clients, FwdReplies(c) PROVE IndInv'
    <1>0. /\ link[c].st = "reply" /\ link[c].ans \in Nat /\ link[c] \in LinkType
          /\ link[c].got = sess[c].want
        <2>1. link[c].st = "reply"
            BY DEF FwdReplies
        <2> QED BY <2>1, Known, Sizes DEF LinkType, Conn, StreamInv
    <1>1. UNCHANGED performed
        BY DEF FwdReplies
    <1>2. ASSUME NEW n \in Advance(link[c].ans, FWMSG_SIZE, Cuts),
                 Handler(c, [link[c] EXCEPT !.ans = n, !.st = IF n = FWMSG_SIZE THEN "shut" ELSE @])
          PROVE  IndInv'
        <2> DEFINE l == [link[c] EXCEPT !.ans = n, !.st = IF n = FWMSG_SIZE THEN "shut" ELSE @]
        <2>1. n \in Nat /\ link[c].ans < n /\ n <= FWMSG_SIZE
            BY <1>0, AdvanceBounds, Sizes
        <2>2. /\ l \in LinkType /\ l.st \in {"reply", "shut"} /\ l.pid = link[c].pid
              /\ l.op = link[c].op /\ l.rx = link[c].rx /\ l.req = link[c].req /\ l.ans = n
              /\ l.got = link[c].got
            <3> DEFINE t == IF n = FWMSG_SIZE THEN "shut" ELSE link[c].st
            <3>1. t \in {"reply", "shut"} /\ t \in LinkStates
                BY <1>0 DEF LinkStates
            <3>2. n \in 0..FWMSG_SIZE
                BY <2>1, Sizes
            <3>3. l = [link[c] EXCEPT !.ans = n, !.st = t]
                OBVIOUS
            <3> HIDE DEF t, l
            <3> QED BY <1>0, <3>1, <3>2, <3>3 DEF LinkType
        <2>3. Handler(c, l)
            BY <1>2
        <2> HIDE DEF l
        <2>4. l.rx <= l.req /\ l.ans >= link[c].ans
            BY <1>0, <2>1, <2>2, Known DEF Conn, CountInv
        <2> QED BY <1>0, <1>1, <2>2, <2>3, <2>4, HandlerQuiet
    <1>3. CASE Handler(c, [link[c] EXCEPT !.st = "shut"])
        BY <1>0, <1>1, <1>3, Shutting
    <1> QED BY <1>2, <1>3 DEF FwdReplies

-----------------------------------------------------------------------------
(* The processes. *)

\* letmeind starts: all it finds is older than itself.
LEMMA LmdStartStep == ASSUME IndInv, LmdStart PROVE IndInv'
    <1>1. /\ lmd.phase = "down" /\ lmd.pid \in Nat
          /\ lmd'.phase = "starting" /\ lmd'.pid = lmd.pid + 1 /\ lmd'.accepting = FALSE
        BY DEF LmdStart, IndInv, ProcessShapes
    <1>2. ProcessShapes'
        BY <1>1, DaemonsAssumption DEF LmdStart, IndInv, ProcessShapes, Phases
    <1>3. StreamShapes'
        BY DEF LmdStart, IndInv, StreamShapes
    <1>4. ProcessInv'
        <2>1. faults' = faults /\ pidfile' = pidfile /\ rejected' = rejected
            BY DEF LmdStart
        <2>2. faults \in Nat /\ pidfile \in Nat /\ rejected \subseteq Nat
            BY DaemonsAssumption DEF IndInv, ProcessShapes
        <2> QED BY <1>1, <2>1, <2>2 DEF IndInv, ProcessInv
    <1>5. ASSUME NEW c \in Clients PROVE Conn(c, client[c], sess[c], link[c], performed[c])'
        <2>1. client' = client /\ sess' = sess /\ link' = link /\ performed' = performed
            BY DEF LmdStart
        <2>2. link[c].pid \in Nat
            BY Known DEF LinkType
        <2>3. PidInv(sess[c], link[c])'
            BY <1>1, <2>1, <2>2, Known DEF Conn, PidInv
        <2> QED BY <2>1, <2>3, Known DEF Conn, CountInv, StreamInv, Said
    <1> QED BY <1>2, <1>3, <1>4, <1>5 DEF IndInv, ConnInv

\* letmeind writes its PID file, in two steps.
LEMMA PidfileStep == ASSUME IndInv, TruncatePidfile \/ WritePidfile PROVE IndInv'
    <1>0. /\ lmd.pid \in Nat /\ faults \in Nat /\ pidfile \in Nat
          /\ lmd \in LmdType
        BY DaemonsAssumption DEF IndInv, ProcessShapes
    <1>1. /\ lmd.phase \in {"starting", "truncated"} /\ lmd'.pid = lmd.pid
          /\ rejected' = rejected /\ faults' = faults
          /\ client' = client /\ sess' = sess /\ link' = link /\ performed' = performed
        BY <1>0 DEF TruncatePidfile, WritePidfile
    <1>2. \/ lmd'.phase = "truncated" /\ ~lmd'.accepting /\ pidfile' = 0
          \/ lmd'.phase = "ready" /\ lmd'.accepting /\ pidfile' = lmd.pid
        BY <1>0, <1>1 DEF TruncatePidfile, WritePidfile, IndInv, ProcessInv
    <1>3. ProcessShapes'
        <2>1. lmd' \in LmdType
            <3>1. num_connections \in 0..num_connections
                BY DaemonsAssumption
            <3>2. CASE TruncatePidfile
                BY <1>0, <3>2 DEF TruncatePidfile, Phases
            <3>3. CASE WritePidfile
                BY <1>0, <3>1, <3>3 DEF WritePidfile, Phases
            <3> QED BY <3>2, <3>3
        <2> QED BY <1>0, <1>1, <1>2, <2>1 DEF TruncatePidfile, WritePidfile, IndInv, ProcessShapes
    <1>4. StreamShapes'
        BY <1>1 DEF IndInv, StreamShapes
    <1>5. ProcessInv'
        BY <1>0, <1>1, <1>2 DEF IndInv, ProcessInv
    <1>6. ASSUME NEW c \in Clients PROVE Conn(c, client[c], sess[c], link[c], performed[c])'
        <2>1. PidInv(sess[c], link[c])'
            BY <1>1, <1>2, Known DEF Conn, PidInv
        <2> QED BY <1>1, <2>1, Known DEF Conn, CountInv, StreamInv, Said
    <1> QED BY <1>3, <1>4, <1>5, <1>6 DEF IndInv, ConnInv

\* letmeind goes down, at the price of a fault now or earlier.
LEMMA LmdDownStep ==
    ASSUME IndInv, NEW aborts \in BOOLEAN, LmdDown(aborts),
           faults' \in 0..MaxFaults, lmd.pid <= faults'
    PROVE  IndInv'
    <1>0. /\ lmd.pid \in Nat /\ pidfile \in Nat /\ rejected \subseteq Nat
          /\ lmd \in LmdType
          /\ faults' \in Nat
        BY DaemonsAssumption DEF IndInv, ProcessShapes
    <1>1. /\ lmd'.phase = "down" /\ ~lmd'.accepting /\ lmd'.pid = lmd.pid
          /\ lmd' \in LmdType
        <2>1. 0 \in 0..num_connections
            BY DaemonsAssumption
        <2>2. lmd' = [lmd EXCEPT !.phase = "down", !.accepting = FALSE, !.permits = 0, !.aborted = aborts]
            BY DEF LmdDown
        <2> QED BY <1>0, <2>1, <2>2 DEF Phases
    <1>2. pidfile' \in {0, pidfile}
        BY DEF LmdDown
    <1>3. ProcessShapes'
        BY <1>0, <1>1, <1>2 DEF LmdDown, IndInv, ProcessShapes
    <1>4. ProcessInv'
        <2>1. rejected' = rejected
            BY DEF LmdDown
        <2> QED BY <1>0, <1>1, <1>2, <2>1 DEF IndInv, ProcessInv
    <1>5. client' = client /\ link' = link /\ performed' = performed
        BY DEF LmdDown
    <1>6. ASSUME NEW c \in Clients
          PROVE  /\ sess'[c] \in SessType
                 /\ \/ sess'[c] = sess[c] /\ sess[c].st \notin Live
                    \/ /\ sess'[c].st = "lost" /\ sess'[c].n = 0 /\ ~sess'[c].ok
                       /\ sess'[c].want = sess[c].want /\ sess[c].st # "none"
        <2>1. sess'[c] = IF \/ sess[c].st \in {"recv", "connect", "send", "wait", "close", "drop"}
                            \/ sess[c].st = "queued" /\ ~systemd
                         THEN [sess[c] EXCEPT !.st = "lost", !.n = 0, !.ok = FALSE] ELSE sess[c]
            BY DEF LmdDown
        <2>2. CASE sess'[c] = sess[c]
            <3>1. sess[c].st # "lost" => sess[c].st \notin Live
                BY <2>1, <2>2, Known DEF SessType, Live
            <3> QED BY <2>2, <3>1, Known DEF Live
        <2>3. CASE sess'[c] # sess[c]
            <3>1. /\ sess'[c] = [sess[c] EXCEPT !.st = "lost", !.n = 0, !.ok = FALSE]
                  /\ sess[c].st # "none"
                BY <2>1, <2>3
            <3> DEFINE s == [sess[c] EXCEPT !.st = "lost", !.n = 0, !.ok = FALSE]
            <3>2. sess[c] \in SessType
                BY Known
            <3>3. /\ s \in SessType
                  /\ s.st = "lost" /\ s.n = 0 /\ s.ok = FALSE /\ s.want = sess[c].want
                BY <3>2 DEF SessType, SessStates
            <3> HIDE DEF s
            <3>4. sess'[c] = s
                BY <3>1 DEF s
            <3> QED BY <3>1, <3>3, <3>4
        <2> QED BY <2>2, <2>3
    <1>7. StreamShapes'
        <2>1. DOMAIN sess' = Clients
            BY DEF LmdDown
        <2>2. sess' = [c \in Clients |-> sess'[c]]
            BY DEF LmdDown
        <2>3. sess' \in [Clients -> SessType]
            BY <1>6, <2>2
        <2> QED BY <1>5, <2>3 DEF IndInv, StreamShapes
    <1>8. ASSUME NEW c \in Clients PROVE Conn(c, client[c], sess[c], link[c], performed[c])'
        <2>1. client[c].n \in Nat /\ link[c].rx \in Nat
            BY Known, Sizes DEF ClientType, LinkType
        <2>2. PidInv(sess[c], link[c])'
            BY <1>1, <1>5, <1>6, Known DEF Conn, PidInv, Live
        <2>3. CountInv(client[c], sess[c], link[c])'
            BY <1>5, <1>6, <2>1, Known DEF Conn, CountInv
        <2>4. StreamInv(c, client[c], sess[c], link[c], performed[c])'
            BY <1>5, <1>6, Known DEF Conn, StreamInv, Said
        <2> QED BY <2>2, <2>3, <2>4 DEF Conn
    <1> QED BY <1>3, <1>4, <1>7, <1>8 DEF IndInv, ConnInv

\* letmeind is killed, or its main loop ends.
LEMMA LmdEndsStep == ASSUME IndInv, LmdDies \/ LmdMainLoopEnds PROVE IndInv'
    <1>0. lmd.pid \in Nat /\ faults \in 0..MaxFaults /\ faults \in Nat
        BY DaemonsAssumption DEF IndInv, ProcessShapes
    <1>1. CASE LmdDies
        <2>1. faults' \in 0..MaxFaults /\ lmd.pid <= faults'
            BY <1>0, <1>1, DaemonsAssumption DEF LmdDies, Fault, IndInv, ProcessInv
        <2>2. LmdDown(FALSE)
            BY <1>1, Zenon DEF LmdDies
        <2> QED BY <2>1, <2>2, LmdDownStep
    <1>2. CASE LmdMainLoopEnds
        <2>1. LmdDown(Unclosed) /\ faults' \in 0..MaxFaults /\ lmd.pid <= faults'
            BY <1>0, <1>2, DaemonsAssumption DEF LmdMainLoopEnds, Fault, IndInv, ProcessInv
        <2>2. Unclosed \in BOOLEAN
            BY DEF Unclosed
        <2> HIDE DEF Unclosed
        <2> QED BY <2>1, <2>2, LmdDownStep
    <1> QED BY <1>1, <1>2

\* The accept task of letmeind ends.
LEMMA LmdAcceptFailsStep == ASSUME IndInv, LmdAcceptFails PROVE IndInv'
    <1>0. /\ lmd.pid \in Nat /\ faults \in Nat /\ pidfile \in Nat
          /\ lmd \in LmdType
        BY DaemonsAssumption DEF IndInv, ProcessShapes
    <1>1. /\ lmd' = [lmd EXCEPT !.accepting = FALSE] /\ lmd.phase = "ready"
          /\ faults' = faults + 1 /\ faults' \in 0..MaxFaults
          /\ UNCHANGED <<systemd, pidfile, client, sess, link, fwd, rejected, performed>>
        BY <1>0, DaemonsAssumption DEF LmdAcceptFails, Fault, IndInv, ProcessInv
    <1>2. lmd'.phase = lmd.phase /\ lmd'.pid = lmd.pid /\ lmd'.accepting = FALSE
        BY <1>0, <1>1
    <1>3. ProcessShapes' /\ StreamShapes'
        BY <1>0, <1>1 DEF IndInv, ProcessShapes, StreamShapes
    <1>4. ProcessInv'
        BY <1>0, <1>1, <1>2 DEF IndInv, ProcessInv
    <1>5. ASSUME NEW c \in Clients PROVE Conn(c, client[c], sess[c], link[c], performed[c])'
        BY <1>1, <1>2, Known DEF Conn, PidInv, CountInv, StreamInv, Said
    <1> QED BY <1>3, <1>4, <1>5 DEF IndInv, ConnInv

\* A step that changes streams of letmeinfwd only by shutting them.
LEMMA ShutStep ==
    ASSUME IndInv,
           UNCHANGED <<systemd, lmd, pidfile, client, sess, performed>>,
           ProcessShapes', ProcessInv',
           link' = [c \in Clients |-> link'[c]],
           \A c \in Clients : link'[c] \in {link[c], [link[c] EXCEPT !.st = "shut"]},
           \A c \in Clients : link[c].st = "none" => link'[c] = link[c]
    PROVE  IndInv'
    <1>1. ASSUME NEW c \in Clients
          PROVE  /\ link'[c] \in LinkType
                 /\ Conn(c, client[c], sess[c], link[c], performed[c])'
        <2>1. CASE link'[c] = link[c]
            BY <2>1, Known DEF Conn, PidInv, CountInv, StreamInv, Said
        <2>2. CASE link'[c] # link[c]
            <3> DEFINE l == [link[c] EXCEPT !.st = "shut"]
            <3>1. /\ l \in LinkType /\ l.st = "shut" /\ l.pid = link[c].pid /\ l.op = link[c].op
                  /\ l.rx = link[c].rx /\ l.req = link[c].req /\ l.ans = link[c].ans
                BY Known DEF LinkType, LinkStates
            <3>2. link'[c] = l /\ link[c].st # "none"
                BY <2>2
            <3> HIDE DEF l
            <3> QED BY <3>1, <3>2, Known DEF Conn, PidInv, CountInv, StreamInv, Said
        <2> QED BY <2>1, <2>2
    <1>2. StreamShapes'
        <2>1. link' \in [Clients -> LinkType]
            BY <1>1
        <2> QED BY <2>1 DEF IndInv, StreamShapes
    <1> QED BY <1>1, <1>2 DEF IndInv, ConnInv

\* letmeinfwd rejects a stream: it is not one of the letmeind that is running.
LEMMA FwdRejectsStep ==
    ASSUME IndInv, NEW c \in Clients, FwdRejects(c) PROVE IndInv'
    <1>1. /\ link[c].pid # pidfile /\ link[c].st = "queued" /\ link[c].pid >= 1
          /\ link[c].pid <= lmd.pid /\ link[c].pid \in Nat /\ lmd.pid \in Nat
        <2>1. link[c].st = "queued" /\ link[c].pid # pidfile
            BY DEF FwdRejects
        <2> QED BY <2>1, Known DEF Conn, PidInv, LinkType, IndInv, ProcessShapes
    <1>2. lmd.phase # "down" => link[c].pid # lmd.pid
        <2>1. lmd.phase \in Phases
            BY DEF IndInv, ProcessShapes
        <2>2. CASE lmd.phase = "ready"
            BY <1>1, <2>2 DEF IndInv, ProcessInv
        <2>3. CASE lmd.phase \in {"starting", "truncated"}
            BY <1>1, <2>3, Known DEF Conn, PidInv
        <2> QED BY <2>1, <2>2, <2>3 DEF Phases
    <1>3. /\ UNCHANGED <<systemd, lmd, pidfile, client, sess, performed, faults>>
          /\ rejected' = rejected \cup {link[c].pid}
          /\ fwd' = [fwd EXCEPT !.accepting = FALSE]
        BY DEF FwdRejects
    <1>4. ProcessShapes'
        <2>1. link[c].pid \in Nat \ {0}
            BY <1>1
        <2> QED BY <1>3, <2>1 DEF IndInv, ProcessShapes
    <1>5. ProcessInv'
        BY <1>1, <1>2, <1>3 DEF IndInv, ProcessInv
    <1>6. link' = [i \in Clients |-> [link[i] EXCEPT !.st = IF i = c THEN "shut" ELSE Unlistened(@)]]
        BY DEF FwdRejects
    <1>7. ASSUME NEW i \in Clients
          PROVE  /\ link'[i] \in {link[i], [link[i] EXCEPT !.st = "shut"]}
                 /\ link[i].st = "none" => link'[i] = link[i]
        <2>1. link'[i] = [link[i] EXCEPT !.st = IF i = c THEN "shut" ELSE Unlistened(link[i].st)]
            BY <1>6
        <2>2. [link[i] EXCEPT !.st = link[i].st] = link[i]
            BY Known DEF LinkType
        <2> QED BY <1>1, <2>1, <2>2 DEF Unlistened
    <1>8. link' = [i \in Clients |-> link'[i]]
        BY <1>6
    <1> QED BY <1>3, <1>4, <1>5, <1>7, <1>8, ShutStep

\* letmeinfwd starts, or its main loop ends.
LEMMA FwdProcessStep == ASSUME IndInv, FwdStart \/ FwdMainLoopEnds PROVE IndInv'
    <1>0. lmd.pid \in Nat /\ faults \in Nat
        BY DaemonsAssumption DEF IndInv, ProcessShapes
    <1>1. /\ UNCHANGED <<systemd, lmd, pidfile, client, sess, link, rejected, performed>>
          /\ faults' \in {faults, faults + 1} /\ faults' \in 0..MaxFaults
        BY DaemonsAssumption DEF FwdStart, FwdMainLoopEnds, Fault, IndInv, ProcessShapes
    <1>2. fwd' \in [phase : {"down", "running", "ending"}, accepting : BOOLEAN,
                    permits : 0..num_connections]
        <2>1. num_connections \in 0..num_connections
            BY DaemonsAssumption
        <2>2. CASE FwdStart
            BY <2>1, <2>2 DEF FwdStart
        <2>3. CASE FwdMainLoopEnds
            BY <2>3 DEF FwdMainLoopEnds, IndInv, ProcessShapes
        <2> QED BY <2>2, <2>3
    <1>3. ProcessShapes' /\ StreamShapes'
        BY <1>1, <1>2 DEF IndInv, ProcessShapes, StreamShapes
    <1>4. ProcessInv'
        BY <1>0, <1>1 DEF IndInv, ProcessInv
    <1>5. ASSUME NEW c \in Clients PROVE Conn(c, client[c], sess[c], link[c], performed[c])'
        BY <1>1, Known DEF Conn, PidInv, CountInv, StreamInv, Said
    <1> QED BY <1>3, <1>4, <1>5 DEF IndInv, ConnInv

\* letmeinfwd exits or crashes; its streams go with it.
LEMMA FwdEndsStep == ASSUME IndInv, FwdExits \/ FwdCrashes PROVE IndInv'
    <1>0. lmd.pid \in Nat /\ faults \in Nat
        BY DaemonsAssumption DEF IndInv, ProcessShapes
    <1>1. FwdDown /\ faults' \in {faults, faults + 1} /\ faults' \in 0..MaxFaults
        BY DaemonsAssumption DEF FwdExits, FwdCrashes, Fault, IndInv, ProcessShapes
    <1>2. UNCHANGED <<systemd, lmd, pidfile, client, sess, rejected, performed>>
        BY <1>1 DEF FwdDown
    <1>3. ProcessShapes'
        <2>1. 0 \in 0..num_connections
            BY DaemonsAssumption
        <2> QED BY <1>1, <1>2, <2>1 DEF FwdDown, IndInv, ProcessShapes
    <1>4. ProcessInv'
        BY <1>0, <1>1, <1>2 DEF IndInv, ProcessInv
    <1>5. link' = [c \in Clients |->
                      [link[c] EXCEPT !.st = IF @ \in {"recv", "do", "reply"} THEN "shut"
                                                                             ELSE Unlistened(@)]]
        BY <1>1 DEF FwdDown
    <1>6. ASSUME NEW i \in Clients
          PROVE  /\ link'[i] \in {link[i], [link[i] EXCEPT !.st = "shut"]}
                 /\ link[i].st = "none" => link'[i] = link[i]
        <2>1. link'[i] = [link[i] EXCEPT !.st = IF link[i].st \in {"recv", "do", "reply"} THEN "shut"
                                                ELSE Unlistened(link[i].st)]
            BY <1>5
        <2>2. [link[i] EXCEPT !.st = link[i].st] = link[i]
            BY Known DEF LinkType
        <2> QED BY <2>1, <2>2 DEF Unlistened
    <1>7. link' = [i \in Clients |-> link'[i]]
        BY <1>5
    <1> QED BY <1>2, <1>3, <1>4, <1>6, <1>7, ShutStep

-----------------------------------------------------------------------------
(* Theorems. *)

\* Every step keeps the invariant.
LEMMA NextIndInv == IndInv /\ [Next]_vars => IndInv'
    <1> SUFFICES ASSUME IndInv, [Next]_vars PROVE IndInv'
        OBVIOUS
    <1>1. ASSUME NEW c \in Clients, Connect(c) \/ ClientWrites(c) PROVE IndInv'
        BY <1>1, ConnectStep, ClientWritesStep
    <1>2. ASSUME NEW c \in Clients, LmdAccept(c) PROVE IndInv'
        BY <1>2, LmdAcceptStep
    <1>3. ASSUME NEW c \in Clients, SessionStep(c) PROVE IndInv'
        BY <1>3, SessReadsStep, SessFailsStep, SessConnectsStep, SessSendsStep,
           SessReadsAnswerStep, SessEndsStep DEF SessionStep
    <1>4. ASSUME NEW c \in Clients, FwdAccept(c) \/ HandlerStep(c) PROVE IndInv'
        BY <1>4, FwdAcceptsStep, FwdRejectsStep, FwdReadsStep, FwdDoesStep, FwdRepliesStep
           DEF FwdAccept, HandlerStep
    <1>5. CASE LmdStart \/ TruncatePidfile \/ WritePidfile \/ LmdMainLoopEnds \/ LmdDies
               \/ LmdAcceptFails
        BY <1>5, LmdStartStep, PidfileStep, LmdEndsStep, LmdAcceptFailsStep
    <1>6. CASE FwdStart \/ FwdMainLoopEnds \/ FwdExits \/ FwdCrashes
        BY <1>6, FwdProcessStep, FwdEndsStep
    <1>7. CASE UNCHANGED vars
        <2>1. ProcessShapes' /\ StreamShapes' /\ ProcessInv'
            BY <1>7 DEF vars, IndInv, ProcessShapes, StreamShapes, ProcessInv
        <2>2. ASSUME NEW c \in Clients PROVE Conn(c, client[c], sess[c], link[c], performed[c])'
            BY <1>7, Known DEF vars, Conn, PidInv, CountInv, StreamInv, Said
        <2> QED BY <2>1, <2>2 DEF IndInv, ConnInv
    <1> QED BY <1>1, <1>2, <1>3, <1>4, <1>5, <1>6, <1>7 DEF Next, Work

\* The inductive invariant holds throughout.
THEOREM Invariance == Spec => []IndInv
    BY InitIndInv, NextIndInv, PTL DEF Spec

\* Types, and the assertions of the send and receive loops: no count of bytes exceeds
\* the size of its message, nor what the other side has written.
THEOREM TypeCorrect == Spec => []TypeOK
    <1>1. IndInv => TypeOK
        <2> SUFFICES ASSUME IndInv PROVE TypeOK
            OBVIOUS
        <2>1. /\ lmd.pid \in 0..(MaxFaults + 1) /\ pidfile \in 0..(MaxFaults + 1)
              /\ rejected \subseteq 1..(MaxFaults + 1)
            <3>1. lmd.pid \in Nat /\ pidfile \in Nat /\ faults \in Nat /\ faults <= MaxFaults
                  /\ rejected \subseteq Nat \ {0}
                BY DaemonsAssumption DEF IndInv, ProcessShapes
            <3>2. lmd.pid <= faults + 1 /\ pidfile <= lmd.pid /\ \A r \in rejected : r <= lmd.pid
                BY DEF IndInv, ProcessInv
            <3> QED BY <3>1, <3>2, DaemonsAssumption
        <2>2. ASSUME NEW c \in Clients
              PROVE  /\ sess[c].st \in {"none", "queued", "recv", "connect", "send", "wait",
                                        "close", "drop", "ended", "lost"}
                     /\ sess[c].n <= IF sess[c].st = "wait" THEN link[c].ans ELSE client[c].n
                     /\ sess[c].want \in Requests \cup {NoRequest}
                     /\ link[c].st \in {"none", "queued", "recv", "do", "reply", "shut"}
                     /\ link[c].rx <= link[c].req /\ link[c].req <= FWMSG_SIZE
                     /\ link[c].got \in Requests \cup {NoRequest}
                     /\ link[c].ans <= FWMSG_SIZE
                     /\ link[c].pid <= lmd.pid
            <3>1. sess[c] \in SessType /\ link[c] \in LinkType
                BY Known
            <3>2. /\ sess[c].n <= IF sess[c].st = "wait" THEN link[c].ans ELSE client[c].n
                  /\ link[c].rx <= link[c].req /\ link[c].pid <= lmd.pid
                BY Known DEF Conn, CountInv, PidInv
            <3> QED BY <3>1, <3>2, Sizes DEF SessType, LinkType, SessStates, LinkStates
        <2>3. lmd \in [phase : {"down", "starting", "truncated", "ready"}, pid : 0..(MaxFaults + 1),
                       accepting : BOOLEAN, permits : 0..num_connections, aborted : BOOLEAN]
            BY <2>1 DEF IndInv, ProcessShapes, Phases
        <2> QED BY <2>1, <2>2, <2>3 DEF TypeOK, IndInv, ProcessShapes, StreamShapes, ClientType
    <1> QED BY <1>1, Invariance, PTL

\* From end to end nothing but what a client said is carried out for it, whatever it
\* says, wherever its message, the request and the answer are split, and whenever
\* either daemon dies.
THEOREM EndToEnd == Spec => []CarriedOutAsSaid
    <1>1. IndInv => CarriedOutAsSaid
        <2> SUFFICES ASSUME IndInv, NEW c \in Clients, NEW r \in performed[c]
                     PROVE  LET m == Msg[client[c].says] IN
                            /\ m.magic = MAGIC /\ m.operation \in {"Knock", "Close"}
                            /\ r = Want(c, m)
            BY DEF CarriedOutAsSaid
        <2>1. r = sess[c].want /\ link[c].st # "none"
            BY Known DEF Conn, StreamInv
        <2>2. Said(c, client[c], sess[c])
            BY <2>1, Known DEF Conn, StreamInv
        <2> QED BY <2>1, <2>2 DEF Said
    <1> QED BY <1>1, Invariance, PTL

\* A session that takes its request for acknowledged is right, although letmeinfwd
\* may have died, restarted or refused in between.
THEOREM Acknowledged == Spec => []AcknowledgedIsDone
    <1>1. IndInv => AcknowledgedIsDone
        BY Known DEF AcknowledgedIsDone, Conn, StreamInv
    <1> QED BY <1>1, Invariance, PTL

\* accept() of letmeinfwd never rejects the letmeind that is running, however the
\* starts and ends of the two daemons and the writing of the PID file interleave.
THEOREM RejectsDead == Spec => []RejectsOnlyTheDead
    <1>1. IndInv => RejectsOnlyTheDead
        BY DEF RejectsOnlyTheDead, IndInv, ProcessInv
    <1> QED BY <1>1, Invariance, PTL
=============================================================================
