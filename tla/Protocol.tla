------------------------------ MODULE Protocol ------------------------------
(***************************************************************************)
(* The control protocol: letmein clients that knock or close, letmeind's   *)
(* sessions (Protocol::run), the network between them and the requests     *)
(* that sessions make of letmeinfwd.                                       *)
(*                                                                         *)
(* Each step is what a client or a session does between two awaits: take a *)
(* message, check it, answer. A client run has a source port of its own,   *)
(* so the peer names the run; late and duplicated datagrams may start more *)
(* sessions for the same peer.                                             *)
(*                                                                         *)
(* A message authentication code is the key and the challenge that it was  *)
(* made with. It also covers operation, user, resource and salt, which     *)
(* nothing on the way alters.                                              *)
(***************************************************************************)
EXTENDS Naturals, Sequences

CONSTANTS
    Peers,          \* source address and port of client runs
    Requests,       \* what clients are started with: op, user, res, key
    KeyOf,          \* letmeind.conf: known user -> key
    UsersOf,        \* letmeind.conf: known resource -> its users, {} for all
    CtrlResources,  \* resources that are the control port
    Policies,       \* values of control-error-policy considered
    L4,             \* layer 4 protocols considered, "tcp" and "udp"
    FaultSets,      \* sets of things that may go wrong, see AllFaults
    None,           \* no key, no request
    MaxNonce        \* bound: challenges that letmeind generates

AllFaults == {"lose", "dup", "send", "timeout", "connect", "fw", "crash"}

ASSUME ConstAssumption ==
    /\ \A r \in Requests :
          r = [op |-> r.op, user |-> r.user, res |-> r.res, key |-> r.key]
    /\ \A r \in Requests : r.op \in {"Knock", "Close"} /\ r.key # None
    /\ None \notin Requests
    /\ \A u \in DOMAIN KeyOf : KeyOf[u] # None
    /\ Policies \subseteq {"Always", "BasicAuth", "FullAuth"}
    /\ L4 \subseteq {"tcp", "udp"}
    /\ FaultSets \subseteq SUBSET AllFaults
    /\ MaxNonce \in Nat

VARIABLES
    policy,  \* control-error-policy, as letmeind was started with it
    faults,  \* what may go wrong in this behaviour
    cl,      \* peer -> the client: where it stands, its request, its transport
    srv,     \* peer -> letmeind's session with that peer
    c2s,     \* peer -> messages on the way to letmeind
    s2c,     \* peer -> messages on the way to the client
    nonces,  \* number of challenges generated so far; the next is fresh
    fwq,     \* requests that letmeinfwd has not handled yet
    done,    \* peer -> what letmeinfwd did for it
    told     \* history: peer -> operations of the messages sent to it

vars == <<policy, faults, cl, srv, c2s, s2c, nonces, fwq, done, told>>

\* ZERO_AUTH, in place of a challenge.
Zero == 0

NoClient  == [pc |-> "idle", req |-> None, l4 |-> "udp", chal |-> Zero]
NoSession == [pc |-> "none", op |-> "none", user |-> None, res |-> None,
              auth |-> "NotAuth", chal |-> Zero]

Init ==
    /\ policy \in Policies
    /\ faults \in FaultSets
    /\ cl = [p \in Peers |-> NoClient]
    /\ srv = [p \in Peers |-> NoSession]
    /\ c2s = [p \in Peers |-> {}]
    /\ s2c = [p \in Peers |-> {}]
    /\ nonces = 0
    /\ fwq = {}
    /\ done = [p \in Peers |-> <<>>]
    /\ told = [p \in Peers |-> {}]

Message(op, req, chal) ==
    [op |-> op, user |-> req.user, res |-> req.res, key |-> req.key, chal |-> chal]

\* Types of client, session and messages; no challenge is in use that
\* generate_challenge has not handed out.
TypeOK ==
    /\ policy \in Policies
    /\ faults \in FaultSets
    /\ \A p \in Peers :
          /\ cl[p].pc \in {"idle", "challenge", "comein", "ok", "err"}
          /\ cl[p].req \in Requests \cup {None}
          /\ cl[p].l4 \in {"tcp", "udp"}
          /\ cl[p].chal \in 0..nonces
          /\ srv[p].pc \in {"none", "initial", "response", "connect", "firewall",
                            "Ack", "Nack", "closed"}
          /\ srv[p].auth \in {"NotAuth", "BasicAuth", "ChallengeResponseAuth"}
          /\ srv[p].chal \in 0..nonces
          /\ c2s[p] \subseteq {Message(op, r, n) : op \in {"Knock", "Close", "Response"},
                                                   r \in Requests, n \in 0..nonces}
          /\ s2c[p] \subseteq [op : {"Challenge", "ComeIn", "GoAway"}, chal : 0..nonces]
          /\ told[p] \subseteq {"Challenge", "ComeIn", "GoAway"}
    /\ nonces \in 0..MaxNonce

-----------------------------------------------------------------------------
(***************************************************************************)
(* The network.                                                            *)
(***************************************************************************)

\* Receiving m leaves it behind when a datagram is duplicated.
Take(net, p, m) ==
    \/ net' = [net EXCEPT ![p] = @ \ {m}]
    \/ "dup" \in faults /\ cl[p].l4 = "udp" /\ UNCHANGED net

Lose(p) ==
    /\ "lose" \in faults /\ cl[p].l4 = "udp"
    /\ \/ /\ \E m \in c2s[p] : c2s' = [c2s EXCEPT ![p] = @ \ {m}]
          /\ UNCHANGED s2c
       \/ /\ \E m \in s2c[p] : s2c' = [s2c EXCEPT ![p] = @ \ {m}]
          /\ UNCHANGED c2s
    /\ UNCHANGED <<policy, faults, cl, srv, nonces, fwq, done, told>>

-----------------------------------------------------------------------------
(***************************************************************************)
(* The client: knock_sequence and close_sequence.                          *)
(***************************************************************************)

\* Client::new, and the first message, authenticated without a challenge.
Begin(p, req, l4) ==
    /\ cl[p].pc = "idle"
    /\ cl' = [cl EXCEPT ![p] = [pc |-> "challenge", req |-> req, l4 |-> l4, chal |-> Zero]]
    /\ \/ c2s' = [c2s EXCEPT ![p] = @ \cup {Message(req.op, req, Zero)}]
       \/ "send" \in faults /\ UNCHANGED c2s
    /\ UNCHANGED <<policy, faults, srv, s2c, nonces, fwq, done, told>>

\* recv_specific_msg(Challenge), and the response. check_reply never fails.
RecvChallenge(p) ==
    /\ cl[p].pc = "challenge"
    /\ \E m \in s2c[p] :
          /\ Take(s2c, p, m)
          /\ \/ /\ m.op = "Challenge"
                /\ cl' = [cl EXCEPT ![p].pc = "comein", ![p].chal = m.chal]
                /\ c2s' = [c2s EXCEPT ![p] = @ \cup {Message("Response", cl[p].req, m.chal)}]
             \/ /\ m.op # "Challenge" \/ "send" \in faults
                /\ cl' = [cl EXCEPT ![p].pc = "err"]
                /\ UNCHANGED c2s
    /\ UNCHANGED <<policy, faults, srv, nonces, fwq, done, told>>

\* recv_specific_msg(ComeIn).
RecvComeIn(p) ==
    /\ cl[p].pc = "comein"
    /\ \E m \in s2c[p] :
          /\ Take(s2c, p, m)
          /\ cl' = [cl EXCEPT ![p].pc = IF m.op = "ComeIn" THEN "ok" ELSE "err"]
    /\ UNCHANGED <<policy, faults, srv, c2s, nonces, fwq, done, told>>

\* The first message could not be sent, the control timeout has expired, or
\* letmeind has closed the connection.
ClientGivesUp(p) ==
    /\ cl[p].pc \in {"challenge", "comein"}
    /\ \/ {"timeout", "send"} \cap faults # {}
       \/ cl[p].l4 = "tcp" /\ srv[p].pc = "closed" /\ s2c[p] = {}
    /\ cl' = [cl EXCEPT ![p].pc = "err"]
    /\ UNCHANGED <<policy, faults, srv, c2s, s2c, nonces, fwq, done, told>>

-----------------------------------------------------------------------------
(***************************************************************************)
(* letmeind: Protocol::run, one session per peer at a time.                *)
(***************************************************************************)

\* Server::accept and the spawned task: a TCP connection, or a datagram of a peer
\* without a session.
Accept(p) ==
    /\ srv[p].pc = "none"
    /\ c2s[p] # {}
    /\ srv' = [srv EXCEPT ![p] = [NoSession EXCEPT !.pc = "initial"]]
    /\ UNCHANGED <<policy, faults, cl, c2s, s2c, nonces, fwq, done, told>>

\* send_msg.
Send(p, msgs) ==
    /\ s2c' = [s2c EXCEPT ![p] = @ \cup msgs]
    /\ told' = [told EXCEPT ![p] = @ \cup {m.op : m \in msgs}]

SendFails == "send" \in faults /\ UNCHANGED <<s2c, told>>

\* run returns, and the task closes the connection.
End(p) ==
    srv' = [srv EXCEPT ![p] = [NoSession EXCEPT !.pc = IF cl[p].l4 = "tcp" THEN "closed"
                                                                          ELSE "none"]]

\* Mutant of MayTell: "full-auth" is treated like "basic-auth".
MayTellEarly(auth) == policy = "Always" \/ auth # "NotAuth"

\* May the peer be told of errors, given what it has proved of itself so far.
MayTell(auth) ==
    \/ policy = "Always"
    \/ policy = "BasicAuth" /\ auth # "NotAuth"
    \/ policy = "FullAuth" /\ auth = "ChallengeResponseAuth"

\* send_go_away, whose own errors are ignored.
TellGoAway(p, auth) ==
    \/ MayTell(auth) /\ Send(p, {[op |-> "GoAway", chal |-> Zero]})
    \/ MayTell(auth) /\ SendFails
    \/ ~MayTell(auth) /\ UNCHANGED <<s2c, told>>

check_auth_ok(m, key, chal) == m.key = key /\ m.chal = chal

\* Mutant of contains_user: a resource without users is not unrestricted.
contains_user_listed(users, user) == user \in users

contains_user(users, user) == users = {} \/ user \in users

\* Is the initial message one of a user that has this key.
BasicAuth(m) ==
    /\ m.op \in {"Knock", "Close"}
    /\ m.user \in DOMAIN KeyOf
    /\ check_auth_ok(m, KeyOf[m.user], Zero)

\* Is there such a resource, for this user.
Permitted(m) ==
    /\ m.res \in DOMAIN UsersOf
    /\ contains_user(UsersOf[m.res], m.user)
    /\ m.res \notin CtrlResources

\* Mutant of generate_challenge: the same challenge for everybody.
generate_challenge_fixed == 1

\* Mutant of generate_challenge: one challenge is drawn too many.
generate_challenge_skips == nonces + 2

\* A random number: one that was not drawn before.
generate_challenge == nonces + 1

\* The initial message: rejected, or answered with a challenge.
RecvInitial(p) ==
    /\ srv[p].pc = "initial"
    /\ \E m \in c2s[p] :
          /\ Take(c2s, p, m)
          /\ \/ /\ ~(BasicAuth(m) /\ Permitted(m))
                /\ TellGoAway(p, IF BasicAuth(m) THEN "BasicAuth" ELSE "NotAuth")
                /\ End(p)
                /\ UNCHANGED nonces
             \/ /\ BasicAuth(m) /\ Permitted(m)
                /\ nonces < MaxNonce
                /\ nonces' = nonces + 1
                /\ \/ /\ Send(p, {[op |-> "Challenge", chal |-> generate_challenge]})
                      /\ srv' = [srv EXCEPT ![p] = [pc |-> "response", op |-> m.op,
                                                   user |-> m.user, res |-> m.res,
                                                   auth |-> "BasicAuth",
                                                   chal |-> generate_challenge]]
                   \/ SendFails /\ End(p)
    /\ UNCHANGED <<policy, faults, cl, fwq, done>>

\* The checks of recv_msg: the operation that is expected, the same user and resource.
recv_msg_ok(p, m, op) == m.op = op /\ m.user = srv[p].user /\ m.res = srv[p].res

\* recv_msg(Response), and the check of the response.
RecvResponse(p) ==
    /\ srv[p].pc = "response"
    /\ \E m \in c2s[p] :
          /\ Take(c2s, p, m)
          /\ LET valid == /\ recv_msg_ok(p, m, "Response")
                          /\ check_auth_ok(m, KeyOf[srv[p].user], srv[p].chal)
             IN  \/ /\ valid
                    /\ srv' = [srv EXCEPT ![p].pc = "connect",
                                          ![p].auth = "ChallengeResponseAuth"]
                    /\ UNCHANGED <<s2c, told>>
                 \/ /\ ~valid
                    /\ TellGoAway(p, srv[p].auth)
                    /\ End(p)
    /\ UNCHANGED <<policy, faults, cl, nonces, fwq, done>>

\* FirewallClient::new, and the request of open_port or close_port.
AskFirewall(p) ==
    /\ srv[p].pc = "connect"
    /\ \/ /\ srv' = [srv EXCEPT ![p].pc = "firewall"]
          /\ fwq' = fwq \cup {[peer |-> p, op |-> srv[p].op, res |-> srv[p].res,
                               chal |-> srv[p].chal]}
          /\ UNCHANGED <<s2c, told>>
       \/ /\ "connect" \in faults
          /\ TellGoAway(p, srv[p].auth)
          /\ End(p)
          /\ UNCHANGED fwq
    /\ UNCHANGED <<policy, faults, cl, c2s, nonces, done>>

\* letmeinfwd handles a request. It may refuse it, and it may die after it has
\* done it. The session that asked may be gone.
FirewallHandles(q) ==
    /\ q \in fwq
    /\ fwq' = fwq \ {q}
    /\ \E did, ack \in BOOLEAN :
          /\ ack => did
          /\ ~ack => "fw" \in faults
          /\ done' = IF did THEN [done EXCEPT ![q.peer] = Append(@, [op |-> q.op, res |-> q.res])]
                            ELSE done
          /\ srv' = IF srv[q.peer].pc = "firewall" /\ srv[q.peer].chal = q.chal
                    THEN [srv EXCEPT ![q.peer].pc = IF ack THEN "Ack" ELSE "Nack"]
                    ELSE srv
    /\ UNCHANGED <<policy, faults, cl, c2s, s2c, nonces, told>>

\* The reply of letmeinfwd, passed on as ComeIn or GoAway.
Conclude(p) ==
    /\ srv[p].pc \in {"Ack", "Nack"}
    /\ \/ /\ srv[p].pc = "Ack"
          /\ Send(p, {[op |-> "ComeIn", chal |-> Zero]}) \/ SendFails
       \/ /\ srv[p].pc = "Nack"
          /\ TellGoAway(p, srv[p].auth)
    /\ End(p)
    /\ UNCHANGED <<policy, faults, cl, c2s, nonces, fwq, done>>

\* Mutant of SessionGivesUp: recv_msg has no timeout.
SessionGivesUpInitially(p) ==
    /\ srv[p].pc = "initial" /\ "timeout" \in faults
    /\ End(p)
    /\ UNCHANGED <<policy, faults, cl, c2s, s2c, nonces, fwq, done, told>>

\* The control timeout, an error of the socket, or the client has closed the
\* connection: the session ends without a GoAway.
SessionGivesUp(p) ==
    /\ srv[p].pc \in {"initial", "response"}
    /\ \/ "timeout" \in faults
       \/ cl[p].l4 = "tcp" /\ cl[p].pc \in {"ok", "err"} /\ c2s[p] = {}
    /\ End(p)
    /\ UNCHANGED <<policy, faults, cl, c2s, s2c, nonces, fwq, done, told>>

\* letmeind dies and is started again. TCP connections are reset.
Crash ==
    /\ "crash" \in faults
    /\ srv' = [p \in Peers |-> [NoSession EXCEPT
                  !.pc = IF srv[p].pc # "none" /\ cl[p].l4 = "tcp" THEN "closed" ELSE "none"]]
    /\ UNCHANGED <<policy, faults, cl, c2s, s2c, nonces, fwq, done, told>>

-----------------------------------------------------------------------------
Client(p) ==
    \/ RecvChallenge(p)
    \/ RecvComeIn(p)
    \/ ClientGivesUp(p)

Session(p) ==
    \/ Accept(p)
    \/ RecvInitial(p)
    \/ RecvResponse(p)
    \/ AskFirewall(p)
    \/ Conclude(p)
    \/ SessionGivesUp(p)

Next ==
    \/ \E p \in Peers :
          \/ \E r \in Requests, l4 \in L4 : Begin(p, r, l4)
          \/ Client(p)
          \/ Session(p)
          \/ Lose(p)
    \/ \E q \in fwq : FirewallHandles(q)
    \/ Crash

Spec == Init /\ [][Next]_vars

\* Tasks and processes run, timeouts expire, and letmeinfwd handles requests or
\* its end closes the connection. Crashes, losses and new clients need not come.
Fairness ==
    /\ \A p \in Peers : WF_vars(Client(p)) /\ WF_vars(Session(p))
    /\ WF_vars(\E q \in fwq : FirewallHandles(q))

FairSpec == Spec /\ Fairness

-----------------------------------------------------------------------------
(***************************************************************************)
(* Properties.                                                             *)
(***************************************************************************)

\* The requests that letmeind.conf permits: a known user with its key asks for a
\* resource that is not the control port and is open to the user.
Authorised == {r \in Requests :
    /\ r.user \in DOMAIN KeyOf /\ r.key = KeyOf[r.user]
    /\ r.res \in DOMAIN UsersOf \ CtrlResources
    /\ UsersOf[r.res] = {} \/ r.user \in UsersOf[r.res]}

Knock == INSTANCE Knocking WITH
    request <- [p \in Peers |-> cl[p].req],
    outcome <- [p \in Peers |-> IF cl[p].pc \in {"ok", "err"} THEN cl[p].pc ELSE "none"],
    granted <- done

\* The protocol implements what it promises, whatever is lost, delayed,
\* duplicated or timed out, and across restarts of letmeind: letmeinfwd acts only
\* for an authorised request, does what that client asked for, and does it once
\* however often the client's datagrams are delivered; a client that reports
\* success was granted its request.
ImplementsKnocking == Knock!Spec

\* control-error-policy: unless it is "always", a peer that does not have the key
\* of its user is sent nothing at all, in any session; with "full-auth" nobody is
\* sent an error before answering a challenge with the right key.
StealthyErrors ==
    policy # "Always" => \A p \in Peers :
        /\ told[p] # {} =>
              /\ cl[p].req.user \in DOMAIN KeyOf
              /\ cl[p].req.key = KeyOf[cl[p].req.user]
        /\ policy = "FullAuth" /\ "GoAway" \in told[p] => cl[p].chal # Zero

\* Every session and every client run comes to an end, so that neither holds its
\* connection for ever. (With nothing that goes wrong there are no timeouts
\* either, and a client on UDP that is not answered waits.)
EverybodyLeaves ==
    \A p \in Peers :
        /\ ("timeout" \in faults /\ cl[p].pc # "idle") ~> cl[p].pc \in {"ok", "err"}
        /\ ("timeout" \in faults /\ srv[p].pc # "none") ~> srv[p].pc \in {"none", "closed"}

\* When nothing goes wrong, an authorised request succeeds.
AuthorisedSucceed ==
    \A p \in Peers : (faults = {} /\ cl[p].req \in Authorised) ~> cl[p].pc = "ok"
=============================================================================
