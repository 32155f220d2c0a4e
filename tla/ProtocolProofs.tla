--------------------------- MODULE ProtocolProofs ---------------------------
(***************************************************************************)
(* The control protocol, proved for every set of clients, requests,        *)
(* configurations and faults: types, StealthyErrors, and that it           *)
(* implements Knocking.                                                    *)
(*                                                                         *)
(* The argument is about the life of one challenge. A client answers one   *)
(* challenge in its life, the first that it takes; a session accepts the   *)
(* answer to its own challenge only; and a challenge is drawn for one      *)
(* session. So once an answer has been accepted, no other session of that  *)
(* peer, however many its late and duplicated datagrams start, ever holds  *)
(* a challenge that the client has answered.                               *)
(***************************************************************************)
EXTENDS Protocol, TLAPS

Users     == {r.user : r \in Requests} \cup {None}
Resources == {r.res : r \in Requests} \cup {None}
Keys      == {r.key : r \in Requests}

\* The sets of clients, sessions, messages and requests to letmeinfwd.
Clients  == [pc : {"idle", "challenge", "comein", "ok", "err"},
             req : Requests \cup {None}, l4 : {"tcp", "udp"}, chal : Nat]
Sessions == [pc : {"none", "initial", "response", "connect", "firewall", "Ack", "Nack",
                   "closed"},
             op : {"none", "Knock", "Close"}, user : Users, res : Resources,
             auth : {"NotAuth", "BasicAuth", "ChallengeResponseAuth"}, chal : Nat]
Asked    == [op : {"Knock", "Close", "Response"}, user : Users, res : Resources,
             key : Keys, chal : Nat]
Replies  == [op : {"Challenge", "ComeIn", "GoAway"}, chal : Nat]
Grants   == [op : {"Knock", "Close"}, res : Resources]
Orders   == [peer : Peers, op : {"Knock", "Close"}, res : Resources, chal : Nat]

\* What the variables are, for the provers.
Shapes ==
    /\ cl \in [Peers -> Clients]
    /\ srv \in [Peers -> Sessions]
    /\ c2s \in [Peers -> SUBSET Asked]
    /\ s2c \in [Peers -> SUBSET Replies]
    /\ told \in [Peers -> SUBSET {"Challenge", "ComeIn", "GoAway"}]
    /\ done \in [Peers -> {<<>>} \cup {<<g>> : g \in Grants}]
    /\ fwq \in SUBSET Orders
    /\ nonces \in 0..MaxNonce
    /\ policy \in Policies
    /\ faults \in FaultSets

-----------------------------------------------------------------------------
(* The parts of the inductive invariant, for one peer. *)

\* The answer of p's client was accepted: letmeinfwd was asked, or has acted.
Spent(p) == done[p] # <<>> \/ \E q \in fwq : q.peer = p

\* The client: it has no challenge before it takes one.
ClientInv(p) ==
    /\ cl[p].chal <= nonces
    /\ cl[p].pc = "idle" <=> cl[p].req = None
    /\ cl[p].pc \in {"idle", "challenge"} => cl[p].chal = Zero
    /\ cl[p].pc = "idle" =>
          c2s[p] = {} /\ s2c[p] = {} /\ told[p] = {} /\ srv[p].pc = "none"

\* On the way to letmeind are the first message and the answer to one challenge.
RequestInv(p) ==
    \A m \in c2s[p] :
        \/ m = Message(cl[p].req.op, cl[p].req, Zero)
        \/ cl[p].chal # Zero /\ m = Message("Response", cl[p].req, cl[p].chal)

\* On the way to the client are challenges that were drawn, and ComeIn only
\* after the firewall has acted.
ReplyInv(p) ==
    \A m \in s2c[p] :
        /\ m.chal <= nonces
        /\ m.op = "Challenge" => m.chal # Zero
        /\ m.op = "ComeIn" => done[p] # <<>>

\* A session that has sent a challenge is one for the client's request, which is
\* authorised; after the response the challenge is the one the client answered.
SessionInv(p) ==
    /\ srv[p].chal <= nonces
    /\ srv[p].pc \in {"response", "connect", "firewall", "Ack", "Nack"} =>
          /\ cl[p].req \in Authorised
          /\ srv[p].op = cl[p].req.op
          /\ srv[p].user = cl[p].req.user
          /\ srv[p].res = cl[p].req.res
    /\ srv[p].pc = "response" => srv[p].auth = "BasicAuth" /\ srv[p].chal # Zero
    /\ srv[p].pc \in {"connect", "firewall", "Ack", "Nack"} =>
          srv[p].auth = "ChallengeResponseAuth" /\ srv[p].chal = cl[p].chal /\ cl[p].chal # Zero
    /\ srv[p].pc = "Ack" => done[p] # <<>>

\* letmeinfwd is asked for what the client wants, and not twice: as soon as it was
\* asked, no session can accept the client's answer any more.
GrantInv(p) ==
    /\ \A q \in fwq : q.peer = p =>
          /\ q.op = cl[p].req.op
          /\ q.res = cl[p].req.res
          /\ q.chal = cl[p].chal
          /\ done[p] = <<>>
    /\ Spent(p) =>
          /\ cl[p].req \in Authorised
          /\ cl[p].chal # Zero
          /\ srv[p].pc # "connect"
          /\ srv[p].pc = "response" => srv[p].chal # cl[p].chal

\* Does the client have the key of its user.
HasKey(p) == cl[p].req.user \in DOMAIN KeyOf /\ cl[p].req.key = KeyOf[cl[p].req.user]

\* StealthyErrors for one peer.
StealthInv(p) ==
    policy # "Always" =>
        /\ told[p] # {} => HasKey(p)
        /\ policy = "FullAuth" /\ "GoAway" \in told[p] => cl[p].chal # Zero

PeerInv(p) ==
    ClientInv(p) /\ RequestInv(p) /\ ReplyInv(p) /\ SessionInv(p) /\ GrantInv(p) /\ StealthInv(p)

\* The inductive invariant.
IndInv == Shapes /\ \A p \in Peers : PeerInv(p)

-----------------------------------------------------------------------------
(* What the pieces of the actions do to the variables. *)

(* Taking a datagram leaves no other datagrams than there were. *)
LEMMA TakeRequest ==
    ASSUME Shapes, NEW p \in Peers, NEW m, Take(c2s, p, m)
    PROVE  /\ c2s' \in [Peers -> SUBSET Asked]
           /\ c2s'[p] \subseteq c2s[p]
           /\ \A x \in Peers \ {p} : c2s'[x] = c2s[x]
  BY DEF Take, Shapes

(* The same in the other direction. *)
LEMMA TakeReply ==
    ASSUME Shapes, NEW p \in Peers, NEW m, Take(s2c, p, m)
    PROVE  /\ s2c' \in [Peers -> SUBSET Replies]
           /\ s2c'[p] \subseteq s2c[p]
           /\ \A x \in Peers \ {p} : s2c'[x] = s2c[x]
  BY DEF Take, Shapes

(* A session that ends is forgotten, with its challenge. *)
LEMMA EndIs ==
    ASSUME Shapes, NEW p \in Peers, End(p)
    PROVE  /\ srv' \in [Peers -> Sessions]
           /\ srv'[p].pc \in {"none", "closed"}
           /\ srv'[p].chal = Zero
           /\ \A x \in Peers \ {p} : srv'[x] = srv[x]
<1>1. [NoSession EXCEPT !.pc = IF cl[p].l4 = "tcp" THEN "closed" ELSE "none"] \in Sessions
  BY DEF NoSession, Sessions, Users, Resources, Zero
<1> QED
  BY <1>1 DEF End, Shapes, NoSession

(* A reply, if it is sent at all, adds itself to the replies and nothing else. *)
LEMMA SendIs ==
    ASSUME Shapes, NEW p \in Peers, NEW r \in Replies, Send(p, {r}) \/ UNCHANGED <<s2c, told>>
    PROVE  /\ s2c' \in [Peers -> SUBSET Replies]
           /\ told' \in [Peers -> SUBSET {"Challenge", "ComeIn", "GoAway"}]
           /\ s2c'[p] \subseteq s2c[p] \cup {r}
           /\ told'[p] \subseteq told[p] \cup {r.op}
           /\ \A x \in Peers \ {p} : s2c'[x] = s2c[x] /\ told'[x] = told[x]
<1>1. CASE UNCHANGED <<s2c, told>>
  BY <1>1 DEF Shapes
<1>2. CASE Send(p, {r})
  <2>1. {m.op : m \in {r}} = {r.op}
    OBVIOUS
  <2>2. s2c' = [s2c EXCEPT ![p] = s2c[p] \cup {r}]
    BY <1>2 DEF Send
  <2>3. told' = [told EXCEPT ![p] = told[p] \cup {r.op}]
    BY <1>2, <2>1 DEF Send
  <2>4. r.op \in {"Challenge", "ComeIn", "GoAway"}
    BY DEF Replies
  <2> QED
    BY <2>2, <2>3, <2>4 DEF Shapes
<1> QED
  BY <1>1, <1>2

GoAway == [op |-> "GoAway", chal |-> Zero]

(* send_go_away sends at most a GoAway, and none that the policy forbids. *)
LEMMA TellIs ==
    ASSUME Shapes, NEW p \in Peers, NEW auth, TellGoAway(p, auth)
    PROVE  /\ s2c' \in [Peers -> SUBSET Replies]
           /\ told' \in [Peers -> SUBSET {"Challenge", "ComeIn", "GoAway"}]
           /\ s2c'[p] \subseteq s2c[p] \cup {GoAway}
           /\ told'[p] \subseteq told[p] \cup {"GoAway"}
           /\ ~MayTell(auth) => told'[p] = told[p]
           /\ \A x \in Peers \ {p} : s2c'[x] = s2c[x] /\ told'[x] = told[x]
<1>1. GoAway \in Replies /\ GoAway.op = "GoAway"
  BY DEF GoAway, Replies, Zero
<1>2. Send(p, {GoAway}) \/ UNCHANGED <<s2c, told>>
  BY DEF TellGoAway, SendFails, GoAway
<1>3. ~MayTell(auth) => told' = told
  BY DEF TellGoAway
<1> QED
  BY <1>1, <1>2, <1>3, SendIs

-----------------------------------------------------------------------------
(* Preservation of the invariant. *)

(* A peer that a step does not touch keeps its invariant. *)
LEMMA Frame ==
    ASSUME Shapes, NEW p \in Peers, PeerInv(p),
           UNCHANGED <<cl[p], srv[p], c2s[p], s2c[p], told[p], done[p], policy>>,
           nonces' \in Nat, nonces <= nonces',
           \A q : q.peer = p => (q \in fwq <=> q \in fwq')
    PROVE  PeerInv(p)'
<1>0. nonces \in Nat /\ cl[p].chal \in Nat /\ srv[p].chal \in Nat
      /\ \A m \in s2c[p] : m.chal \in Nat
  BY ConstAssumption DEF Shapes, Clients, Sessions, Replies
<1>1. ClientInv(p)'
  BY <1>0 DEF PeerInv, ClientInv
<1>2. RequestInv(p)'
  BY DEF PeerInv, RequestInv
<1>3. ReplyInv(p)'
  BY <1>0 DEF PeerInv, ReplyInv
<1>4. SessionInv(p)'
  BY <1>0 DEF PeerInv, SessionInv
<1>5. GrantInv(p)'
  BY DEF PeerInv, GrantInv, Spent
<1>6. StealthInv(p)'
  BY DEF PeerInv, StealthInv, HasKey
<1> QED
  BY <1>1, <1>2, <1>3, <1>4, <1>5, <1>6 DEF PeerInv

(* A step of one peer that draws no more than a challenge concerns that peer. *)
LEMMA OnePeer ==
    ASSUME IndInv, NEW p \in Peers, Shapes', PeerInv(p)', policy' = policy,
           nonces <= nonces',
           \A x \in Peers \ {p} :
              /\ UNCHANGED <<cl[x], srv[x], c2s[x], s2c[x], told[x], done[x]>>
              /\ \A q : q.peer = x => (q \in fwq <=> q \in fwq')
    PROVE  IndInv'
<1>1. nonces' \in Nat
  BY DEF Shapes
<1>2. ASSUME NEW x \in Peers \ {p} PROVE PeerInv(x)'
  BY <1>1, Frame DEF IndInv
<1> QED
  BY <1>2 DEF IndInv

(* Fresh requests: the first message. *)
LEMMA BeginStep ==
    ASSUME IndInv, NEW p \in Peers, NEW r \in Requests, NEW l4 \in L4, Begin(p, r, l4)
    PROVE  IndInv'
<1> DEFINE m == Message(r.op, r, Zero)
<1>1. m \in Asked /\ r.op \in {"Knock", "Close"} /\ r # None
  BY ConstAssumption DEF Message, Asked, Users, Resources, Keys, Zero
<1>2. [pc |-> "challenge", req |-> r, l4 |-> l4, chal |-> Zero] \in Clients
  BY ConstAssumption DEF Clients, Zero
<1>3. /\ cl' \in [Peers -> Clients]
      /\ cl'[p] = [pc |-> "challenge", req |-> r, l4 |-> l4, chal |-> Zero]
      /\ \A x \in Peers \ {p} : cl'[x] = cl[x]
  BY <1>2 DEF Begin, IndInv, Shapes
<1>4. /\ c2s' \in [Peers -> SUBSET Asked]
      /\ c2s'[p] \subseteq c2s[p] \cup {m}
      /\ \A x \in Peers \ {p} : c2s'[x] = c2s[x]
  BY <1>1 DEF Begin, IndInv, Shapes
<1>5. UNCHANGED <<policy, faults, srv, s2c, nonces, fwq, done, told>>
  BY DEF Begin
<1>6. Shapes'
  BY <1>3, <1>4, <1>5 DEF IndInv, Shapes
<1>7. PeerInv(p) /\ cl[p].pc = "idle" /\ nonces \in Nat
  BY ConstAssumption DEF IndInv, Begin, Shapes
<1>8. /\ c2s[p] = {} /\ s2c[p] = {} /\ told[p] = {} /\ srv[p].pc = "none"
      /\ cl[p].chal = Zero /\ ~Spent(p)
  BY <1>7 DEF PeerInv, ClientInv, GrantInv
<1>9. PeerInv(p)'
  <2>1. ClientInv(p)'
    BY <1>1, <1>3, <1>5, <1>7 DEF ClientInv, Zero
  <2>2. RequestInv(p)'
    BY <1>3, <1>4, <1>8 DEF RequestInv
  <2>3. ReplyInv(p)'
    BY <1>5, <1>8 DEF ReplyInv
  <2>4. SessionInv(p)'
    BY <1>5, <1>7, <1>8 DEF PeerInv, SessionInv
  <2>5. GrantInv(p)'
    BY <1>5, <1>8 DEF GrantInv, Spent
  <2>6. StealthInv(p)'
    BY <1>5, <1>8 DEF StealthInv
  <2> QED
    BY <2>1, <2>2, <2>3, <2>4, <2>5, <2>6 DEF PeerInv
<1> QED
  BY <1>3, <1>4, <1>5, <1>6, <1>7, <1>9, OnePeer

(* A client run that ends, well or badly, keeps its request and its challenge. *)
LEMMA ClientEnds ==
    ASSUME IndInv, NEW p \in Peers, NEW result \in {"ok", "err"},
           cl[p].pc # "idle",
           cl' = [cl EXCEPT ![p].pc = result],
           s2c' \in [Peers -> SUBSET Replies], s2c'[p] \subseteq s2c[p],
           \A x \in Peers \ {p} : s2c'[x] = s2c[x],
           UNCHANGED <<policy, faults, srv, c2s, nonces, fwq, done, told>>
    PROVE  IndInv'
<1>1. PeerInv(p) /\ nonces \in Nat
  BY ConstAssumption DEF IndInv, Shapes
<1>0. [cl[p] EXCEPT !.pc = result] \in Clients
  <2>1. cl[p] \in Clients
    BY DEF IndInv, Shapes
  <2>2. CASE result = "ok"
    BY <2>1, <2>2 DEF Clients
  <2>3. CASE result = "err"
    BY <2>1, <2>3 DEF Clients
  <2> QED
    BY <2>2, <2>3
<1>2. /\ cl' \in [Peers -> Clients]
      /\ cl'[p].pc = result /\ cl'[p].req = cl[p].req /\ cl'[p].chal = cl[p].chal
      /\ \A x \in Peers \ {p} : cl'[x] = cl[x]
  BY <1>0 DEF IndInv, Shapes, Clients
<1>3. Shapes'
  BY <1>2 DEF IndInv, Shapes
<1>4. PeerInv(p)'
  <2>1. ClientInv(p)'
    BY <1>1, <1>2 DEF PeerInv, ClientInv
  <2>2. RequestInv(p)'
    BY <1>1, <1>2 DEF PeerInv, RequestInv
  <2>3. ReplyInv(p)'
    BY <1>1 DEF PeerInv, ReplyInv
  <2>4. SessionInv(p)'
    BY <1>1, <1>2 DEF PeerInv, SessionInv
  <2>5. GrantInv(p)'
    BY <1>1, <1>2 DEF PeerInv, GrantInv, Spent
  <2>6. StealthInv(p)'
    BY <1>1, <1>2 DEF PeerInv, StealthInv, HasKey
  <2> QED
    BY <2>1, <2>2, <2>3, <2>4, <2>5, <2>6 DEF PeerInv
<1> QED
  BY <1>1, <1>2, <1>3, <1>4, OnePeer

(* The client takes a challenge, its only one, or gives up. What it had asked for *)
(* does not change, and letmeinfwd was not asked for it before.                  *)
LEMMA RecvChallengeStep ==
    ASSUME IndInv, NEW p \in Peers, RecvChallenge(p)
    PROVE  IndInv'
<1>1. PICK m \in s2c[p] :
          /\ Take(s2c, p, m)
          /\ \/ /\ m.op = "Challenge"
                /\ cl' = [cl EXCEPT ![p].pc = "comein", ![p].chal = m.chal]
                /\ c2s' = [c2s EXCEPT ![p] = @ \cup {Message("Response", cl[p].req, m.chal)}]
             \/ /\ cl' = [cl EXCEPT ![p].pc = "err"]
                /\ UNCHANGED c2s
  BY DEF RecvChallenge
<1>2. /\ s2c' \in [Peers -> SUBSET Replies]
      /\ s2c'[p] \subseteq s2c[p]
      /\ \A x \in Peers \ {p} : s2c'[x] = s2c[x]
  BY <1>1, TakeReply DEF IndInv
<1>3. UNCHANGED <<policy, faults, srv, nonces, fwq, done, told>>
  BY DEF RecvChallenge
<1>4. PeerInv(p) /\ cl[p] \in Clients /\ cl[p].pc = "challenge" /\ m \in Replies /\ nonces \in Nat
  BY ConstAssumption DEF IndInv, RecvChallenge, Shapes
<1>5. cl[p].chal = Zero /\ ~Spent(p) /\ cl[p].req \in Requests
  BY <1>4 DEF PeerInv, ClientInv, GrantInv, Clients
<1>6. srv[p].pc \notin {"connect", "firewall", "Ack", "Nack"}
  BY <1>4, <1>5 DEF PeerInv, SessionInv
<1>7. ASSUME m.op = "Challenge",
             cl' = [cl EXCEPT ![p].pc = "comein", ![p].chal = m.chal],
             c2s' = [c2s EXCEPT ![p] = @ \cup {Message("Response", cl[p].req, m.chal)}]
      PROVE  Shapes' /\ PeerInv(p)' /\ \A x \in Peers \ {p} : UNCHANGED <<cl[x], c2s[x]>>
  <2>1. m.chal \in Nat /\ m.chal <= nonces /\ m.chal # Zero
    BY <1>4, <1>7 DEF PeerInv, ReplyInv, Replies
  <2>2. [cl[p] EXCEPT !.pc = "comein", !.chal = m.chal] \in Clients
    BY <1>4, <2>1 DEF Clients
  <2>3. Message("Response", cl[p].req, m.chal) \in Asked
    BY <1>5, <2>1 DEF Message, Asked, Users, Resources, Keys
  <2>4. /\ cl' \in [Peers -> Clients]
        /\ cl'[p].pc = "comein" /\ cl'[p].req = cl[p].req /\ cl'[p].chal = m.chal
        /\ \A x \in Peers \ {p} : cl'[x] = cl[x]
    BY <1>7, <2>2 DEF IndInv, Shapes, Clients
  <2>5. /\ c2s' \in [Peers -> SUBSET Asked]
        /\ c2s'[p] = c2s[p] \cup {Message("Response", cl[p].req, m.chal)}
        /\ \A x \in Peers \ {p} : c2s'[x] = c2s[x]
    BY <1>7, <2>3 DEF IndInv, Shapes
  <2>6. Shapes'
    BY <1>2, <1>3, <2>4, <2>5 DEF IndInv, Shapes
  <2>7. ClientInv(p)'
    BY <1>3, <1>5, <2>1, <2>4, ConstAssumption DEF ClientInv
  <2>8. RequestInv(p)'
    BY <1>4, <1>5, <2>1, <2>4, <2>5 DEF PeerInv, RequestInv
  <2>9. ReplyInv(p)'
    BY <1>2, <1>3, <1>4 DEF PeerInv, ReplyInv
  <2>10. SessionInv(p)'
    BY <1>3, <1>4, <1>6, <2>4 DEF PeerInv, SessionInv
  <2>11. GrantInv(p)'
    BY <1>3, <1>5 DEF GrantInv, Spent
  <2>12. StealthInv(p)'
    BY <1>3, <1>4, <2>1, <2>4 DEF PeerInv, StealthInv, HasKey
  <2> QED
    BY <2>4, <2>5, <2>6, <2>7, <2>8, <2>9, <2>10, <2>11, <2>12 DEF PeerInv
<1>8. ASSUME cl' = [cl EXCEPT ![p].pc = "err"], UNCHANGED c2s
      PROVE  IndInv'
  BY <1>2, <1>3, <1>4, <1>8, ClientEnds
<1>9. CASE /\ m.op = "Challenge"
           /\ cl' = [cl EXCEPT ![p].pc = "comein", ![p].chal = m.chal]
           /\ c2s' = [c2s EXCEPT ![p] = @ \cup {Message("Response", cl[p].req, m.chal)}]
  <2>1. Shapes' /\ PeerInv(p)' /\ \A x \in Peers \ {p} : UNCHANGED <<cl[x], c2s[x]>>
    BY <1>7, <1>9
  <2> QED
    BY <1>2, <1>3, <1>4, <2>1, OnePeer
<1> QED
  BY <1>1, <1>8, <1>9

(* The client hears of the outcome, or gives up. *)
LEMMA RecvComeInStep ==
    ASSUME IndInv, NEW p \in Peers, RecvComeIn(p) \/ ClientGivesUp(p)
    PROVE  IndInv'
<1>1. CASE RecvComeIn(p)
  <2>1. PICK m \in s2c[p] :
          /\ Take(s2c, p, m)
          /\ cl' = [cl EXCEPT ![p].pc = IF m.op = "ComeIn" THEN "ok" ELSE "err"]
    BY <1>1 DEF RecvComeIn
  <2>2. PICK result \in {"ok", "err"} : cl' = [cl EXCEPT ![p].pc = result]
    BY <2>1
  <2> QED
    BY <1>1, <2>1, <2>2, TakeReply, ClientEnds DEF RecvComeIn, IndInv
<1>2. CASE ClientGivesUp(p)
  <2>1. s2c' = s2c /\ s2c \in [Peers -> SUBSET Replies]
    BY <1>2 DEF ClientGivesUp, IndInv, Shapes
  <2> QED
    BY <1>2, <2>1, ClientEnds DEF ClientGivesUp
<1> QED
  BY <1>1, <1>2

(* Losing a datagram. *)
LEMMA LoseStep ==
    ASSUME IndInv, NEW p \in Peers, Lose(p)
    PROVE  IndInv'
<1>1. /\ c2s' \in [Peers -> SUBSET Asked] /\ s2c' \in [Peers -> SUBSET Replies]
      /\ c2s'[p] \subseteq c2s[p] /\ s2c'[p] \subseteq s2c[p]
      /\ \A x \in Peers \ {p} : c2s'[x] = c2s[x] /\ s2c'[x] = s2c[x]
  BY DEF Lose, IndInv, Shapes
<1>2. UNCHANGED <<policy, faults, cl, srv, nonces, fwq, done, told>>
  BY DEF Lose
<1>3. PeerInv(p) /\ nonces \in Nat
  BY ConstAssumption DEF IndInv, Shapes
<1>4. Shapes'
  BY <1>1, <1>2 DEF IndInv, Shapes
<1>5. PeerInv(p)'
  BY <1>1, <1>2, <1>3 DEF PeerInv, ClientInv, RequestInv, ReplyInv, SessionInv, GrantInv,
     Spent, StealthInv, HasKey
<1> QED
  BY <1>1, <1>2, <1>3, <1>4, <1>5, OnePeer

(* A session that ends: whatever the client still sends meets a new session. The *)
(* policy decides about the farewell.                                            *)
LEMMA SessionEnds ==
    ASSUME IndInv, NEW p \in Peers, srv[p].pc # "none", End(p),
           c2s' \in [Peers -> SUBSET Asked], c2s'[p] \subseteq c2s[p],
           s2c' \in [Peers -> SUBSET Replies],
           told' \in [Peers -> SUBSET {"Challenge", "ComeIn", "GoAway"}],
           \A m \in s2c'[p] : m \in s2c[p] \/ m = GoAway \/ (m.op = "ComeIn" /\ m.chal = Zero /\ done[p] # <<>>),
           \A x \in Peers \ {p} : UNCHANGED <<c2s[x], s2c[x], told[x]>>,
           nonces' \in 0..MaxNonce, nonces <= nonces',
           StealthInv(p)',
           UNCHANGED <<policy, faults, cl, fwq, done>>
    PROVE  IndInv'
<1>1. /\ PeerInv(p) /\ cl[p].pc # "idle"
      /\ nonces \in Nat /\ nonces' \in Nat /\ cl[p].chal \in Nat
      /\ \A m \in s2c[p] : m.chal \in Nat
  BY ConstAssumption DEF IndInv, Shapes, PeerInv, ClientInv, Clients, Replies
<1>2. /\ srv' \in [Peers -> Sessions]
      /\ srv'[p].pc \in {"none", "closed"} /\ srv'[p].chal = Zero
      /\ \A x \in Peers \ {p} : srv'[x] = srv[x]
  BY EndIs DEF IndInv
<1>3. Shapes'
  BY <1>2 DEF IndInv, Shapes
<1>4. PeerInv(p)'
  <2>1. ClientInv(p)'
    BY <1>1 DEF PeerInv, ClientInv
  <2>2. RequestInv(p)'
    BY <1>1 DEF PeerInv, RequestInv
  <2>3. ReplyInv(p)'
    BY <1>1 DEF PeerInv, ReplyInv, GoAway, Zero
  <2>4. SessionInv(p)'
    BY <1>1, <1>2 DEF SessionInv, Zero
  <2>5. GrantInv(p)'
    BY <1>1, <1>2 DEF PeerInv, GrantInv, Spent
  <2> QED
    BY <2>1, <2>2, <2>3, <2>4, <2>5 DEF PeerInv
<1> QED
  BY <1>2, <1>3, <1>4, OnePeer

(* A farewell that the policy allows keeps the client stealthily served. *)
LEMMA FarewellIsStealthy ==
    ASSUME IndInv, NEW p \in Peers, NEW auth, TellGoAway(p, auth),
           auth # "NotAuth" => HasKey(p),
           auth = "ChallengeResponseAuth" => cl[p].chal # Zero,
           UNCHANGED <<policy, cl>>
    PROVE  StealthInv(p)'
<1>1. StealthInv(p) /\ told'[p] \subseteq told[p] \cup {"GoAway"}
      /\ (~MayTell(auth) => told'[p] = told[p])
  BY TellIs DEF IndInv, PeerInv
<1>2. MayTell(auth) /\ policy # "Always" =>
        HasKey(p) /\ (policy = "FullAuth" => cl[p].chal # Zero)
  BY DEF MayTell
<1> QED
  BY <1>1, <1>2 DEF StealthInv, HasKey

(* A session starts. *)
LEMMA AcceptStep ==
    ASSUME IndInv, NEW p \in Peers, Accept(p)
    PROVE  IndInv'
<1>1. [NoSession EXCEPT !.pc = "initial"] \in Sessions
  BY DEF NoSession, Sessions, Users, Resources, Zero
<1>2. /\ srv' \in [Peers -> Sessions]
      /\ srv'[p].pc = "initial" /\ srv'[p].chal = Zero
      /\ \A x \in Peers \ {p} : srv'[x] = srv[x]
  BY <1>1 DEF Accept, IndInv, Shapes, NoSession
<1>3. UNCHANGED <<policy, faults, cl, c2s, s2c, nonces, fwq, done, told>>
  BY DEF Accept
<1>4. PeerInv(p) /\ nonces \in Nat /\ cl[p].pc # "idle"
  BY ConstAssumption DEF IndInv, Shapes, Accept, PeerInv, ClientInv
<1>5. Shapes'
  BY <1>2, <1>3 DEF IndInv, Shapes
<1>6. PeerInv(p)'
  BY <1>2, <1>3, <1>4 DEF PeerInv, ClientInv, RequestInv, ReplyInv, SessionInv, GrantInv,
     Spent, StealthInv, HasKey, Zero
<1> QED
  BY <1>2, <1>3, <1>4, <1>5, <1>6, OnePeer

(* What letmeind checks of the first message holds of the client's request. *)
LEMMA InitialIsRequest ==
    ASSUME IndInv, NEW p \in Peers, srv[p].pc # "none", NEW m \in c2s[p], BasicAuth(m)
    PROVE  /\ cl[p].req \in Requests
           /\ m = Message(cl[p].req.op, cl[p].req, Zero)
           /\ HasKey(p)
           /\ Permitted(m) => cl[p].req \in Authorised
<1>1. PeerInv(p) /\ cl[p] \in Clients
  BY DEF IndInv, Shapes
<1>2. cl[p].req \in Requests
  BY <1>1 DEF PeerInv, ClientInv, Clients
<1>3. m = Message(cl[p].req.op, cl[p].req, Zero)
  BY <1>1 DEF PeerInv, RequestInv, Message, BasicAuth
<1>4. m.user = cl[p].req.user /\ m.res = cl[p].req.res /\ m.key = cl[p].req.key
  BY <1>3 DEF Message
<1> QED
  BY <1>2, <1>3, <1>4 DEF BasicAuth, Permitted, HasKey, Authorised, check_auth_ok, contains_user

(* The first message: a rejection, or a challenge that nobody has. *)
LEMMA RecvInitialStep ==
    ASSUME IndInv, NEW p \in Peers, RecvInitial(p)
    PROVE  IndInv'
<1> DEFINE r == [op |-> "Challenge", chal |-> nonces + 1]
<1>1. PICK m \in c2s[p] :
          /\ Take(c2s, p, m)
          /\ \/ /\ ~(BasicAuth(m) /\ Permitted(m))
                /\ TellGoAway(p, IF BasicAuth(m) THEN "BasicAuth" ELSE "NotAuth")
                /\ End(p)
                /\ UNCHANGED nonces
             \/ /\ BasicAuth(m) /\ Permitted(m)
                /\ nonces < MaxNonce
                /\ nonces' = nonces + 1
                /\ \/ /\ Send(p, {r})
                      /\ srv' = [srv EXCEPT ![p] = [pc |-> "response", op |-> m.op,
                                                   user |-> m.user, res |-> m.res,
                                                   auth |-> "BasicAuth",
                                                   chal |-> nonces + 1]]
                   \/ UNCHANGED <<s2c, told>> /\ End(p)
  BY DEF RecvInitial, generate_challenge, SendFails
<1>2. /\ c2s' \in [Peers -> SUBSET Asked]
      /\ c2s'[p] \subseteq c2s[p]
      /\ \A x \in Peers \ {p} : c2s'[x] = c2s[x]
  BY <1>1, TakeRequest DEF IndInv
<1>3. UNCHANGED <<policy, faults, cl, fwq, done>> /\ srv[p].pc = "initial"
  BY DEF RecvInitial
<1>4. /\ PeerInv(p) /\ nonces \in 0..MaxNonce /\ MaxNonce \in Nat /\ cl[p].chal \in Nat
      /\ \A x \in s2c[p] : x.chal \in Nat
      /\ s2c \in [Peers -> SUBSET Replies]
      /\ told \in [Peers -> SUBSET {"Challenge", "ComeIn", "GoAway"}]
  BY ConstAssumption DEF IndInv, Shapes, Clients, Replies
<1>5. CASE /\ TellGoAway(p, IF BasicAuth(m) THEN "BasicAuth" ELSE "NotAuth")
           /\ End(p)
           /\ UNCHANGED nonces
  <2> DEFINE auth == IF BasicAuth(m) THEN "BasicAuth" ELSE "NotAuth"
  <2>1. StealthInv(p)'
    <3>1. auth # "NotAuth" => HasKey(p)
      BY <1>3, InitialIsRequest
    <3>2. auth # "ChallengeResponseAuth" /\ TellGoAway(p, auth)
      BY <1>5
    <3> HIDE DEF auth
    <3> QED
      BY <1>3, <3>1, <3>2, FarewellIsStealthy
  <2>2. /\ s2c' \in [Peers -> SUBSET Replies]
        /\ told' \in [Peers -> SUBSET {"Challenge", "ComeIn", "GoAway"}]
        /\ s2c'[p] \subseteq s2c[p] \cup {GoAway}
        /\ \A x \in Peers \ {p} : s2c'[x] = s2c[x] /\ told'[x] = told[x]
    BY <1>5, TellIs DEF IndInv
  <2> QED
    BY <1>2, <1>3, <1>4, <1>5, <2>1, <2>2, SessionEnds
<1>6. CASE BasicAuth(m) /\ nonces' = nonces + 1 /\ nonces < MaxNonce
           /\ UNCHANGED <<s2c, told>> /\ End(p)
  <2>1. StealthInv(p)'
    BY <1>3, <1>4, <1>6 DEF PeerInv, StealthInv, HasKey
  <2>2. nonces' \in 0..MaxNonce /\ nonces <= nonces'
    BY <1>4, <1>6
  <2> QED
    BY <1>2, <1>3, <1>4, <1>6, <2>1, <2>2, SessionEnds
<1>7. CASE /\ BasicAuth(m) /\ Permitted(m)
           /\ nonces < MaxNonce /\ nonces' = nonces + 1
           /\ Send(p, {r})
           /\ srv' = [srv EXCEPT ![p] = [pc |-> "response", op |-> m.op,
                                         user |-> m.user, res |-> m.res,
                                         auth |-> "BasicAuth", chal |-> nonces + 1]]
  <2>1. /\ cl[p].req \in Authorised
        /\ m.op = cl[p].req.op /\ m.user = cl[p].req.user /\ m.res = cl[p].req.res
        /\ HasKey(p)
    BY <1>3, <1>7, InitialIsRequest DEF Message
  <2>2. /\ nonces + 1 \in Nat /\ nonces' \in 0..MaxNonce /\ nonces <= nonces'
        /\ nonces + 1 # Zero /\ r \in Replies
    BY <1>4, <1>7 DEF Zero, Replies
  <2>3. [pc |-> "response", op |-> m.op, user |-> m.user, res |-> m.res,
         auth |-> "BasicAuth", chal |-> nonces + 1] \in Sessions
    BY <1>7, <2>1, <2>2 DEF Sessions, BasicAuth, Authorised, Users, Resources
  <2>4. /\ srv' \in [Peers -> Sessions]
        /\ srv'[p] = [pc |-> "response", op |-> m.op, user |-> m.user, res |-> m.res,
                      auth |-> "BasicAuth", chal |-> nonces + 1]
        /\ \A x \in Peers \ {p} : srv'[x] = srv[x]
    BY <1>7, <2>3 DEF IndInv, Shapes
  <2>5. /\ s2c' \in [Peers -> SUBSET Replies]
        /\ told' \in [Peers -> SUBSET {"Challenge", "ComeIn", "GoAway"}]
        /\ s2c'[p] \subseteq s2c[p] \cup {r}
        /\ told'[p] \subseteq told[p] \cup {"Challenge"}
        /\ \A x \in Peers \ {p} : s2c'[x] = s2c[x] /\ told'[x] = told[x]
    BY <1>7, <2>2, SendIs DEF IndInv
  <2>6. Shapes'
    BY <1>2, <1>3, <2>2, <2>4, <2>5 DEF IndInv, Shapes
  <2>7. ClientInv(p)'
    BY <1>2, <1>3, <1>4, <1>7, <2>2 DEF PeerInv, ClientInv
  <2>8. RequestInv(p)'
    BY <1>2, <1>3, <1>4 DEF PeerInv, RequestInv
  <2>9. ReplyInv(p)'
    <3> SUFFICES ASSUME NEW x \in s2c'[p]
                 PROVE  /\ x.chal <= nonces'
                        /\ x.op = "Challenge" => x.chal # Zero
                        /\ x.op = "ComeIn" => done[p] # <<>>
      BY <1>3 DEF ReplyInv
    <3>1. CASE x = r
      BY <1>7, <2>2, <3>1
    <3>2. CASE x \in s2c[p]
      BY <1>4, <1>7, <2>2, <3>2 DEF PeerInv, ReplyInv
    <3> QED
      BY <2>5, <3>1, <3>2
  <2>10. SessionInv(p)'
    BY <1>3, <1>7, <2>1, <2>2, <2>4 DEF SessionInv
  <2>11. GrantInv(p)'
    <3>1. srv'[p].chal # cl[p].chal
      BY <1>4, <2>4 DEF PeerInv, ClientInv
    <3> QED
      BY <1>3, <1>4, <2>4, <3>1 DEF PeerInv, GrantInv, Spent
  <2>12. StealthInv(p)'
    BY <1>3, <1>4, <2>1, <2>5 DEF PeerInv, StealthInv, HasKey
  <2>13. PeerInv(p)'
    BY <2>7, <2>8, <2>9, <2>10, <2>11, <2>12 DEF PeerInv
  <2> QED
    BY <1>2, <1>3, <2>2, <2>4, <2>5, <2>6, <2>13, OnePeer
<1> QED
  BY <1>1, <1>5, <1>6, <1>7

(* The policy at the end of a session that has sent a challenge. *)
LEMMA GoAwayEnds ==
    ASSUME IndInv, NEW p \in Peers,
           srv[p].pc \in {"response", "connect", "Nack"},
           TellGoAway(p, srv[p].auth), End(p),
           c2s' \in [Peers -> SUBSET Asked], c2s'[p] \subseteq c2s[p],
           \A x \in Peers \ {p} : c2s'[x] = c2s[x],
           UNCHANGED <<policy, faults, cl, nonces, fwq, done>>
    PROVE  IndInv'
<1>1. PeerInv(p) /\ nonces \in 0..MaxNonce /\ nonces <= nonces
  BY ConstAssumption DEF IndInv, Shapes
<1>2. HasKey(p) /\ (srv[p].auth = "ChallengeResponseAuth" => cl[p].chal # Zero)
  BY <1>1 DEF PeerInv, SessionInv, HasKey, Authorised
<1>3. StealthInv(p)'
  BY <1>2, FarewellIsStealthy
<1>4. /\ s2c' \in [Peers -> SUBSET Replies]
      /\ told' \in [Peers -> SUBSET {"Challenge", "ComeIn", "GoAway"}]
      /\ s2c'[p] \subseteq s2c[p] \cup {GoAway}
      /\ \A x \in Peers \ {p} : s2c'[x] = s2c[x] /\ told'[x] = told[x]
  BY TellIs DEF IndInv
<1> QED
  BY <1>1, <1>3, <1>4, SessionEnds

(* The response. A valid one answers the challenge of this very session, which is *)
(* therefore the client's, and letmeinfwd cannot have been asked before.          *)
LEMMA RecvResponseStep ==
    ASSUME IndInv, NEW p \in Peers, RecvResponse(p)
    PROVE  IndInv'
<1>1. PICK m \in c2s[p] :
          /\ Take(c2s, p, m)
          /\ \/ /\ m.op = "Response" /\ check_auth_ok(m, KeyOf[srv[p].user], srv[p].chal)
                /\ srv' = [srv EXCEPT ![p].pc = "connect",
                                      ![p].auth = "ChallengeResponseAuth"]
                /\ UNCHANGED <<s2c, told>>
             \/ TellGoAway(p, srv[p].auth) /\ End(p)
  BY DEF RecvResponse, recv_msg_ok
<1>2. /\ c2s' \in [Peers -> SUBSET Asked]
      /\ c2s'[p] \subseteq c2s[p]
      /\ \A x \in Peers \ {p} : c2s'[x] = c2s[x]
  BY <1>1, TakeRequest DEF IndInv
<1>3. UNCHANGED <<policy, faults, cl, nonces, fwq, done>> /\ srv[p].pc = "response"
  BY DEF RecvResponse
<1>4. PeerInv(p) /\ nonces \in Nat /\ srv[p] \in Sessions /\ cl[p] \in Clients
  BY ConstAssumption DEF IndInv, Shapes
<1>5. CASE TellGoAway(p, srv[p].auth) /\ End(p)
  BY <1>2, <1>3, <1>5, GoAwayEnds
<1>6. CASE /\ m.op = "Response" /\ check_auth_ok(m, KeyOf[srv[p].user], srv[p].chal)
           /\ srv' = [srv EXCEPT ![p].pc = "connect", ![p].auth = "ChallengeResponseAuth"]
           /\ UNCHANGED <<s2c, told>>
  <2>1. cl[p].req \in Requests /\ cl[p].req.op # "Response"
    BY <1>3, <1>4, ConstAssumption DEF PeerInv, SessionInv, Authorised
  <2>2. m = Message("Response", cl[p].req, cl[p].chal) /\ cl[p].chal # Zero
    BY <1>4, <1>6, <2>1 DEF PeerInv, RequestInv, Message
  <2>3. srv[p].chal = cl[p].chal
    BY <1>6, <2>2 DEF check_auth_ok, Message
  <2>4. ~Spent(p)
    BY <1>3, <1>4, <2>3 DEF PeerInv, GrantInv
  <2>5. [srv[p] EXCEPT !.pc = "connect", !.auth = "ChallengeResponseAuth"] \in Sessions
    BY <1>4 DEF Sessions
  <2>6. /\ srv' \in [Peers -> Sessions]
        /\ srv'[p] = [srv[p] EXCEPT !.pc = "connect", !.auth = "ChallengeResponseAuth"]
        /\ \A x \in Peers \ {p} : srv'[x] = srv[x]
    BY <1>6, <2>5 DEF IndInv, Shapes
  <2>7. /\ srv'[p].pc = "connect" /\ srv'[p].auth = "ChallengeResponseAuth"
        /\ UNCHANGED <<srv[p].op, srv[p].user, srv[p].res, srv[p].chal>>
    BY <1>4, <2>6 DEF Sessions
  <2>8. Shapes'
    BY <1>2, <1>3, <1>6, <2>6 DEF IndInv, Shapes
  <2>9. ClientInv(p)'
    BY <1>2, <1>3, <1>4, <1>6, <2>7 DEF PeerInv, ClientInv
  <2>10. RequestInv(p)'
    BY <1>2, <1>3, <1>4 DEF PeerInv, RequestInv
  <2>11. ReplyInv(p)'
    BY <1>3, <1>4, <1>6 DEF PeerInv, ReplyInv
  <2>12. SessionInv(p)'
    BY <1>3, <1>4, <2>2, <2>3, <2>7 DEF PeerInv, SessionInv
  <2>13. GrantInv(p)'
    BY <1>3, <2>4 DEF GrantInv, Spent
  <2>14. StealthInv(p)'
    BY <1>3, <1>4, <1>6 DEF PeerInv, StealthInv, HasKey
  <2>15. PeerInv(p)'
    BY <2>9, <2>10, <2>11, <2>12, <2>13, <2>14 DEF PeerInv
  <2> QED
    BY <1>2, <1>3, <1>4, <1>6, <2>6, <2>8, <2>15, OnePeer
<1> QED
  BY <1>1, <1>5, <1>6

(* The request to letmeinfwd. *)
LEMMA AskFirewallStep ==
    ASSUME IndInv, NEW p \in Peers, AskFirewall(p)
    PROVE  IndInv'
<1> DEFINE q == [peer |-> p, op |-> srv[p].op, res |-> srv[p].res, chal |-> srv[p].chal]
<1>1. UNCHANGED <<policy, faults, cl, c2s, nonces, done>> /\ srv[p].pc = "connect"
  BY DEF AskFirewall
<1>2. /\ PeerInv(p) /\ nonces \in Nat /\ srv[p] \in Sessions
      /\ c2s \in [Peers -> SUBSET Asked]
  BY ConstAssumption DEF IndInv, Shapes
<1>3. CASE UNCHANGED fwq /\ TellGoAway(p, srv[p].auth) /\ End(p)
  BY <1>1, <1>2, <1>3, GoAwayEnds
<1>4. CASE /\ srv' = [srv EXCEPT ![p].pc = "firewall"]
           /\ fwq' = fwq \cup {q}
           /\ UNCHANGED <<s2c, told>>
  <2>1. /\ cl[p].req \in Authorised /\ srv[p].op = cl[p].req.op /\ srv[p].res = cl[p].req.res
        /\ srv[p].chal = cl[p].chal /\ cl[p].chal # Zero /\ ~Spent(p)
    BY <1>1, <1>2 DEF PeerInv, SessionInv, GrantInv
  <2>2. q \in Orders
    BY <1>2, <2>1, ConstAssumption DEF Orders, Sessions, Authorised
  <2>3. /\ srv' \in [Peers -> Sessions]
        /\ srv'[p] = [srv[p] EXCEPT !.pc = "firewall"]
        /\ \A x \in Peers \ {p} : srv'[x] = srv[x]
    <3>1. [srv[p] EXCEPT !.pc = "firewall"] \in Sessions
      BY <1>2 DEF Sessions
    <3> QED
      BY <1>4, <3>1 DEF IndInv, Shapes
  <2>4. /\ srv'[p].pc = "firewall"
        /\ UNCHANGED <<srv[p].op, srv[p].user, srv[p].res, srv[p].auth, srv[p].chal>>
    BY <1>2, <2>3 DEF Sessions
  <2>5. Shapes'
    BY <1>1, <1>4, <2>2, <2>3 DEF IndInv, Shapes
  <2>6. ClientInv(p)' /\ RequestInv(p)' /\ ReplyInv(p)' /\ StealthInv(p)'
    BY <1>1, <1>2, <1>4, <2>4 DEF PeerInv, ClientInv, RequestInv, ReplyInv, StealthInv, HasKey
  <2>7. SessionInv(p)'
    BY <1>1, <1>2, <2>4 DEF PeerInv, SessionInv
  <2>8. GrantInv(p)'
    BY <1>1, <1>4, <2>1, <2>4 DEF GrantInv, Spent
  <2>9. PeerInv(p)'
    BY <2>6, <2>7, <2>8 DEF PeerInv
  <2>10. \A x \in Peers \ {p} : \A e : e.peer = x => (e \in fwq <=> e \in fwq')
    BY <1>4
  <2> QED
    BY <1>1, <1>2, <1>4, <2>3, <2>5, <2>9, <2>10, OnePeer
<1> QED
  BY <1>3, <1>4 DEF AskFirewall

(* letmeinfwd acts, for the first time for this client. *)
LEMMA FirewallHandlesStep ==
    ASSUME IndInv, NEW q \in fwq, FirewallHandles(q)
    PROVE  IndInv'
<1> DEFINE p == q.peer
           g == [op |-> q.op, res |-> q.res]
<1>1. UNCHANGED <<policy, faults, cl, c2s, s2c, nonces, told>> /\ fwq' = fwq \ {q}
  BY DEF FirewallHandles
<1>2. q \in Orders /\ p \in Peers /\ g \in Grants
  BY DEF IndInv, Shapes, Orders, Grants
<1>3. /\ PeerInv(p) /\ nonces \in Nat /\ srv[p] \in Sessions
      /\ done \in [Peers -> {<<>>} \cup {<<d>> : d \in Grants}]
  BY <1>2, ConstAssumption DEF IndInv, Shapes
<1>4. /\ q.op = cl[p].req.op /\ q.res = cl[p].req.res /\ q.chal = cl[p].chal
      /\ done[p] = <<>> /\ cl[p].req \in Authorised /\ cl[p].chal # Zero
      /\ srv[p].pc # "connect"
      /\ srv[p].pc = "response" => srv[p].chal # cl[p].chal
  BY <1>3 DEF PeerInv, GrantInv, Spent
<1>5. PICK did \in BOOLEAN, ack \in BOOLEAN :
          /\ ack => did
          /\ done' = IF did THEN [done EXCEPT ![p] = Append(@, g)] ELSE done
          /\ srv' = IF srv[p].pc = "firewall" /\ srv[p].chal = q.chal
                    THEN [srv EXCEPT ![p].pc = IF ack THEN "Ack" ELSE "Nack"]
                    ELSE srv
  BY DEF FirewallHandles
<1>6. /\ done' \in [Peers -> {<<>>} \cup {<<d>> : d \in Grants}]
      /\ done'[p] = IF did THEN <<g>> ELSE <<>>
      /\ \A x \in Peers \ {p} : done'[x] = done[x]
  <2>1. Append(done[p], g) = <<g>>
    BY <1>4
  <2>2. done' = IF did THEN [done EXCEPT ![p] = <<g>>] ELSE done
    BY <1>5, <2>1
  <2> QED
    BY <1>2, <1>3, <1>4, <2>2
<1>7. /\ srv' \in [Peers -> Sessions]
      /\ \/ srv'[p] = srv[p]
         \/ /\ srv[p].pc = "firewall"
            /\ srv'[p] = [srv[p] EXCEPT !.pc = IF ack THEN "Ack" ELSE "Nack"]
      /\ \A x \in Peers \ {p} : srv'[x] = srv[x]
  <2>1. [srv[p] EXCEPT !.pc = IF ack THEN "Ack" ELSE "Nack"] \in Sessions
    BY <1>3 DEF Sessions
  <2> QED
    BY <1>2, <1>5, <2>1 DEF IndInv, Shapes
<1>8. /\ UNCHANGED <<srv[p].op, srv[p].user, srv[p].res, srv[p].auth, srv[p].chal>>
      /\ \/ srv'[p].pc = srv[p].pc
         \/ srv[p].pc = "firewall" /\ srv'[p].pc = IF ack THEN "Ack" ELSE "Nack"
  BY <1>3, <1>7 DEF Sessions
<1>9. \A e \in fwq : e.peer = p => e = q
  <2> SUFFICES ASSUME NEW e \in fwq, e.peer = p PROVE e = q
    OBVIOUS
  <2>1. e \in Orders
    BY DEF IndInv, Shapes
  <2>2. e.op = q.op /\ e.res = q.res /\ e.chal = q.chal
    BY <1>3, <1>4 DEF PeerInv, GrantInv
  <2> QED
    BY <1>2, <2>1, <2>2 DEF Orders
<1>10. Shapes'
  BY <1>1, <1>6, <1>7 DEF IndInv, Shapes
<1>11. PeerInv(p)'
  <2>1. ClientInv(p)' /\ RequestInv(p)' /\ StealthInv(p)'
    BY <1>1, <1>3, <1>8 DEF PeerInv, ClientInv, RequestInv, StealthInv, HasKey
  <2>2. ReplyInv(p)'
    BY <1>1, <1>3, <1>4 DEF PeerInv, ReplyInv
  <2>3. SessionInv(p)'
    <3>1. srv[p].pc # "Ack"
      BY <1>3, <1>4 DEF PeerInv, SessionInv
    <3>2. <<g>> # <<>>
      OBVIOUS
    <3> QED
      BY <1>1, <1>3, <1>5, <1>6, <1>8, <3>1, <3>2 DEF PeerInv, SessionInv
  <2>4. GrantInv(p)'
    <3>1. \A e \in fwq' : e.peer # p
      BY <1>1, <1>9
    <3>2. srv'[p].pc # "connect" /\ (srv'[p].pc = "response" => srv'[p].chal # cl'[p].chal)
      BY <1>1, <1>4, <1>8
    <3> QED
      BY <1>1, <1>4, <3>1, <3>2 DEF GrantInv
  <2> QED
    BY <2>1, <2>2, <2>3, <2>4 DEF PeerInv
<1>12. \A x \in Peers \ {p} : \A e : e.peer = x => (e \in fwq <=> e \in fwq')
  BY <1>1
<1> HIDE DEF p, g
<1> QED
  BY <1>1, <1>2, <1>3, <1>6, <1>7, <1>10, <1>11, <1>12, OnePeer

(* The end of a session: ComeIn follows what letmeinfwd has done. *)
LEMMA ConcludeStep ==
    ASSUME IndInv, NEW p \in Peers, Conclude(p)
    PROVE  IndInv'
<1> DEFINE r == [op |-> "ComeIn", chal |-> Zero]
<1>1. UNCHANGED <<policy, faults, cl, c2s, nonces, fwq, done>> /\ End(p)
  BY DEF Conclude
<1>2. /\ PeerInv(p) /\ nonces \in 0..MaxNonce /\ nonces <= nonces
      /\ c2s \in [Peers -> SUBSET Asked]
  BY ConstAssumption DEF IndInv, Shapes
<1>3. CASE srv[p].pc = "Nack" /\ TellGoAway(p, srv[p].auth)
  BY <1>1, <1>2, <1>3, GoAwayEnds
<1>4. CASE srv[p].pc = "Ack" /\ (Send(p, {r}) \/ SendFails)
  <2>1. r \in Replies /\ r.op = "ComeIn"
    BY DEF Replies, Zero
  <2>2. /\ s2c' \in [Peers -> SUBSET Replies]
        /\ told' \in [Peers -> SUBSET {"Challenge", "ComeIn", "GoAway"}]
        /\ s2c'[p] \subseteq s2c[p] \cup {r}
        /\ told'[p] \subseteq told[p] \cup {"ComeIn"}
        /\ \A x \in Peers \ {p} : s2c'[x] = s2c[x] /\ told'[x] = told[x]
    BY <1>4, <2>1, SendIs DEF IndInv, SendFails
  <2>3. HasKey(p) /\ done[p] # <<>>
    BY <1>2, <1>4 DEF PeerInv, SessionInv, HasKey, Authorised
  <2>4. StealthInv(p)'
    BY <1>1, <1>2, <2>2, <2>3 DEF PeerInv, StealthInv, HasKey
  <2> QED
    BY <1>1, <1>2, <1>4, <2>2, <2>3, <2>4, SessionEnds
<1> QED
  BY <1>3, <1>4 DEF Conclude

(* The end of a session without a word. *)
LEMMA SessionGivesUpStep ==
    ASSUME IndInv, NEW p \in Peers, SessionGivesUp(p)
    PROVE  IndInv'
<1>1. UNCHANGED <<policy, faults, cl, c2s, s2c, nonces, fwq, done, told>> /\ End(p)
      /\ srv[p].pc # "none"
  BY DEF SessionGivesUp
<1>2. /\ PeerInv(p) /\ nonces \in 0..MaxNonce /\ nonces <= nonces
      /\ c2s \in [Peers -> SUBSET Asked] /\ s2c \in [Peers -> SUBSET Replies]
      /\ told \in [Peers -> SUBSET {"Challenge", "ComeIn", "GoAway"}]
  BY ConstAssumption DEF IndInv, Shapes
<1>3. StealthInv(p)'
  BY <1>1, <1>2 DEF PeerInv, StealthInv, HasKey
<1> QED
  BY <1>1, <1>2, <1>3, SessionEnds

(* letmeind dies: its sessions are gone; the challenges that it has handed out *)
(* and what it has asked of letmeinfwd are not.                                *)
LEMMA CrashStep ==
    ASSUME IndInv, Crash
    PROVE  IndInv'
<1>1. UNCHANGED <<policy, faults, cl, c2s, s2c, nonces, fwq, done, told>>
  BY DEF Crash
<1>2. \A p \in Peers : /\ srv'[p] \in Sessions
                       /\ srv'[p].pc \in {"none", "closed"}
                       /\ srv[p].pc = "none" => srv'[p].pc = "none"
                       /\ srv'[p].chal = Zero
  BY DEF Crash, NoSession, Sessions, Users, Resources, Zero
<1>3. srv' \in [Peers -> Sessions]
  BY <1>2 DEF Crash
<1>4. Shapes'
  BY <1>1, <1>3 DEF IndInv, Shapes
<1>5. ASSUME NEW p \in Peers PROVE PeerInv(p)'
  <2>1. PeerInv(p) /\ nonces \in Nat
    BY ConstAssumption DEF IndInv, Shapes
  <2>2. ClientInv(p)' /\ RequestInv(p)' /\ ReplyInv(p)' /\ StealthInv(p)'
    BY <1>1, <1>2, <2>1 DEF PeerInv, ClientInv, RequestInv, ReplyInv, StealthInv, HasKey
  <2>3. SessionInv(p)'
    BY <1>1, <1>2, <2>1 DEF SessionInv, Zero
  <2>4. GrantInv(p)'
    BY <1>1, <1>2, <2>1 DEF PeerInv, GrantInv, Spent
  <2> QED
    BY <2>2, <2>3, <2>4 DEF PeerInv
<1> QED
  BY <1>4, <1>5 DEF IndInv

(* Nobody has asked, nothing is on the way. *)
LEMMA InitEstablishes ==
    ASSUME Init
    PROVE  IndInv
<1>1. NoClient \in Clients /\ NoSession \in Sessions
  BY DEF NoClient, NoSession, Clients, Sessions, Users, Resources, Zero
<1>2. Shapes
  BY <1>1, ConstAssumption DEF Init, Shapes
<1>3. ASSUME NEW p \in Peers PROVE PeerInv(p)
  BY DEF Init, PeerInv, ClientInv, RequestInv, ReplyInv, SessionInv, GrantInv, Spent,
     StealthInv, NoClient, NoSession, Zero
<1> QED
  BY <1>2, <1>3 DEF IndInv

(* A step that changes nothing. *)
LEMMA StutterStep ==
    ASSUME IndInv, UNCHANGED vars
    PROVE  IndInv'
  BY DEF vars, IndInv, Shapes, PeerInv, ClientInv, RequestInv, ReplyInv, SessionInv, GrantInv,
     Spent, StealthInv, HasKey

(* The invariant of the protocol: every reachable state of clients, sessions,    *)
(* network and firewall queue is one in which at most one challenge per client   *)
(* was answered, and the answer can be accepted at most once.                    *)
THEOREM Invariance == Spec => []IndInv
<1>1. Init => IndInv
  BY InitEstablishes
<1>2. IndInv /\ [Next]_vars => IndInv'
  <2> SUFFICES ASSUME IndInv, [Next]_vars PROVE IndInv'
    OBVIOUS
  <2>1. ASSUME NEW p \in Peers, NEW r \in Requests, NEW l4 \in L4, Begin(p, r, l4)
        PROVE  IndInv'
    BY <2>1, BeginStep
  <2>2. ASSUME NEW p \in Peers, Client(p) PROVE IndInv'
    BY <2>2, RecvChallengeStep, RecvComeInStep DEF Client
  <2>3. ASSUME NEW p \in Peers, Session(p) PROVE IndInv'
    BY <2>3, AcceptStep, RecvInitialStep, RecvResponseStep, AskFirewallStep, ConcludeStep,
       SessionGivesUpStep DEF Session
  <2>4. ASSUME NEW p \in Peers, Lose(p) PROVE IndInv'
    BY <2>4, LoseStep
  <2>5. ASSUME NEW q \in fwq, FirewallHandles(q) PROVE IndInv'
    BY <2>5, FirewallHandlesStep
  <2> QED
    BY <2>1, <2>2, <2>3, <2>4, <2>5, CrashStep, StutterStep DEF Next
<1> QED
  BY <1>1, <1>2, PTL DEF Spec

-----------------------------------------------------------------------------
(* The type invariant that the runs check: clients, sessions and messages have    *)
(* their types, and no challenge is in use that generate_challenge has not drawn. *)
THEOREM TypeCorrect == Spec => []TypeOK
<1>1. IndInv => TypeOK
  <2> SUFFICES ASSUME IndInv, NEW p \in Peers
               PROVE  /\ cl[p].pc \in {"idle", "challenge", "comein", "ok", "err"}
                      /\ cl[p].req \in Requests \cup {None}
                      /\ cl[p].l4 \in {"tcp", "udp"}
                      /\ cl[p].chal \in 0..nonces
                      /\ srv[p].pc \in {"none", "initial", "response", "connect", "firewall",
                                        "Ack", "Nack", "closed"}
                      /\ srv[p].auth \in {"NotAuth", "BasicAuth", "ChallengeResponseAuth"}
                      /\ srv[p].chal \in 0..nonces
                      /\ c2s[p] \subseteq {Message(op, r, n) :
                              op \in {"Knock", "Close", "Response"},
                              r \in Requests, n \in 0..nonces}
                      /\ s2c[p] \subseteq
                              [op : {"Challenge", "ComeIn", "GoAway"}, chal : 0..nonces]
                      /\ told[p] \subseteq {"Challenge", "ComeIn", "GoAway"}
    BY DEF TypeOK, IndInv, Shapes
  <2>1. /\ cl[p] \in Clients /\ srv[p] \in Sessions /\ s2c[p] \subseteq Replies
        /\ told[p] \subseteq {"Challenge", "ComeIn", "GoAway"} /\ nonces \in Nat
        /\ c2s[p] \subseteq Asked /\ PeerInv(p)
    BY ConstAssumption DEF IndInv, Shapes
  <2>2. cl[p].chal \in 0..nonces /\ srv[p].chal \in 0..nonces
    BY <2>1 DEF PeerInv, ClientInv, SessionInv, Clients, Sessions
  <2>3. s2c[p] \subseteq [op : {"Challenge", "ComeIn", "GoAway"}, chal : 0..nonces]
    BY <2>1 DEF PeerInv, ReplyInv, Replies
  <2>4. ASSUME NEW m \in c2s[p]
        PROVE  \E op \in {"Knock", "Close", "Response"}, r \in Requests, n \in 0..nonces :
                  m = Message(op, r, n)
    <3>1. cl[p].req \in Requests
      BY <2>1 DEF PeerInv, ClientInv, Clients
    <3>2. cl[p].req.op \in {"Knock", "Close"} /\ Zero \in 0..nonces
      BY <2>1, <3>1, ConstAssumption DEF Zero
    <3> QED
      BY <2>1, <2>2, <3>1, <3>2 DEF PeerInv, RequestInv
  <2> QED
    BY <2>1, <2>2, <2>3, <2>4 DEF Clients, Sessions
<1> QED
  BY <1>1, Invariance, PTL

(* control-error-policy is kept, whatever the network and the client do: unless it *)
(* is "always", nothing is ever sent to a peer without the key of its user, and    *)
(* with "full-auth" no error before the right answer to a challenge.               *)
THEOREM Stealth == Spec => []StealthyErrors
<1>1. IndInv => StealthyErrors
  BY DEF IndInv, PeerInv, StealthInv, HasKey, StealthyErrors
<1> QED
  BY <1>1, Invariance, PTL

-----------------------------------------------------------------------------
(* The protocol implements Knocking. *)

\* The variables of Knocking, as the protocol has them.
Requested == [p \in Peers |-> cl[p].req]
Outcome   == [p \in Peers |-> IF cl[p].pc \in {"ok", "err"} THEN cl[p].pc ELSE "none"]

(* A step in which no client and no firewall moves is one that Knocking does not see. *)
LEMMA Unseen ==
    ASSUME UNCHANGED <<cl, done>>
    PROVE  UNCHANGED Knock!vars
  BY DEF Knock!vars

(* A client asks. *)
LEMMA BeginRefines ==
    ASSUME IndInv, NEW p \in Peers, NEW r \in Requests, NEW l4 \in L4, Begin(p, r, l4)
    PROVE  Knock!Next
<1>1. PeerInv(p) /\ cl[p].pc = "idle" /\ cl \in [Peers -> Clients]
  BY DEF IndInv, Begin, Shapes
<1>2. cl' = [cl EXCEPT ![p] = [pc |-> "challenge", req |-> r, l4 |-> l4, chal |-> Zero]]
      /\ UNCHANGED done
  BY DEF Begin
<1>3. Requested[p] = None
  BY <1>1 DEF PeerInv, ClientInv, Requested
<1>4. Requested' = [Requested EXCEPT ![p] = r]
  BY <1>1, <1>2 DEF Requested
<1>5. Outcome' = Outcome
  BY <1>1, <1>2 DEF Outcome
<1>6. Knock!Ask(p, r)
  BY <1>2, <1>3, <1>4, <1>5 DEF Knock!Ask, Requested, Outcome
<1> QED
  BY <1>6 DEF Knock!Next

(* A client run ends: with success only if the firewall has acted for it. *)
LEMMA ClientRefines ==
    ASSUME IndInv, NEW p \in Peers, Client(p)
    PROVE  [Knock!Next]_(Knock!vars)
<1>0. PeerInv(p) /\ cl[p] \in Clients /\ cl \in [Peers -> Clients]
      /\ cl[p].pc \in {"challenge", "comein"} /\ UNCHANGED done
  BY DEF IndInv, Shapes, Client, RecvChallenge, RecvComeIn, ClientGivesUp
<1>1. cl[p].req # None
  BY <1>0 DEF PeerInv, ClientInv
<1>2. ASSUME NEW result \in {"ok", "err"}, cl' = [cl EXCEPT ![p].pc = result],
             result = "ok" => done[p] # <<>>
      PROVE  Knock!Next
  <2>1. cl'[p].pc = result /\ cl'[p].req = cl[p].req
        /\ \A x \in Peers \ {p} : cl'[x] = cl[x]
    BY <1>0, <1>2 DEF Clients
  <2>2. Requested' = Requested
    BY <1>0, <2>1 DEF Requested
  <2>3. Outcome' = [Outcome EXCEPT ![p] = result] /\ Outcome[p] = "none"
    BY <1>0, <1>2, <2>1 DEF Outcome
  <2>4. CASE result = "ok"
    <3>1. Knock!Succeed(p)
      BY <1>0, <1>2, <2>2, <2>3, <2>4 DEF Knock!Succeed, Requested, Outcome
    <3> QED
      BY <3>1 DEF Knock!Next
  <2>5. CASE result = "err"
    <3>1. Knock!Fail(p)
      BY <1>0, <1>1, <2>2, <2>3, <2>5 DEF Knock!Fail, Requested, Outcome
    <3> QED
      BY <3>1 DEF Knock!Next
  <2> QED
    BY <2>4, <2>5
<1>3. CASE cl' = [cl EXCEPT ![p].pc = "err"]
  BY <1>2, <1>3
<1>4. CASE RecvComeIn(p)
  <2>1. PICK m \in s2c[p] :
          cl' = [cl EXCEPT ![p].pc = IF m.op = "ComeIn" THEN "ok" ELSE "err"]
    BY <1>4 DEF RecvComeIn
  <2>2. m.op = "ComeIn" => done[p] # <<>>
    BY <1>0 DEF PeerInv, ReplyInv
  <2> QED
    BY <1>2, <2>1, <2>2
<1>5. ASSUME NEW n, cl' = [cl EXCEPT ![p].pc = "comein", ![p].chal = n], cl[p].pc = "challenge"
      PROVE  UNCHANGED Knock!vars
  <2>1. cl'[p].pc = "comein" /\ cl'[p].req = cl[p].req
        /\ \A x \in Peers \ {p} : cl'[x] = cl[x]
    BY <1>0, <1>5 DEF Clients
  <2>2. Requested' = Requested
    BY <1>0, <2>1 DEF Requested
  <2>3. Outcome' = Outcome
    BY <1>0, <1>5, <2>1 DEF Outcome
  <2> QED
    BY <1>0, <2>2, <2>3 DEF Knock!vars, Requested, Outcome
<1> QED
  BY <1>3, <1>4, <1>5 DEF Client, RecvChallenge, ClientGivesUp

(* letmeinfwd acts: what the client has asked for, with authority, for the first *)
(* time.                                                                         *)
LEMMA FirewallRefines ==
    ASSUME IndInv, NEW q \in fwq, FirewallHandles(q)
    PROVE  [Knock!Next]_(Knock!vars)
<1> DEFINE p == q.peer
           g == [op |-> q.op, res |-> q.res]
<1>1. p \in Peers /\ UNCHANGED cl
  BY DEF IndInv, Shapes, Orders, FirewallHandles
<1>2. /\ q.op = cl[p].req.op /\ q.res = cl[p].req.res
      /\ done[p] = <<>> /\ cl[p].req \in Authorised
  BY <1>1 DEF IndInv, PeerInv, GrantInv, Spent
<1>3. CASE done' = done
  BY <1>1, <1>3, Unseen
<1>4. CASE done' = [done EXCEPT ![p] = Append(@, g)]
  <2>1. Append(done[p], g) = << [op |-> Requested[p].op, res |-> Requested[p].res] >>
    BY <1>1, <1>2 DEF Requested
  <2>2. done' = [done EXCEPT ![p] = << [op |-> Requested[p].op, res |-> Requested[p].res] >>]
    BY <1>4, <2>1
  <2>3. Requested[p] \in Authorised /\ Requested' = Requested /\ Outcome' = Outcome
    BY <1>1, <1>2 DEF Requested, Outcome
  <2>4. Knock!Grant(p)
    BY <1>2, <2>2, <2>3 DEF Knock!Grant, Requested, Outcome
  <2> QED
    BY <1>1, <2>4 DEF Knock!Next
<1> QED
  BY <1>3, <1>4 DEF FirewallHandles

(* The protocol implements what it promises, for any clients, configuration and   *)
(* faults, with any number of sessions per client: letmeinfwd acts only for an    *)
(* authorised request, as the client asked, and at most once; a client that       *)
(* reports success was granted its request.                                       *)
THEOREM KnockingImplemented == Spec => ImplementsKnocking
<1>1. Init => Knock!Init
  <2> SUFFICES ASSUME Init PROVE Knock!Init
    OBVIOUS
  <2>1. Requested = [p \in Peers |-> None] /\ Outcome = [p \in Peers |-> "none"]
    BY DEF Init, NoClient, Requested, Outcome
  <2> QED
    BY <2>1 DEF Init, Knock!Init, Requested, Outcome
<1>2. IndInv /\ [Next]_vars => [Knock!Next]_(Knock!vars)
  <2> SUFFICES ASSUME IndInv, [Next]_vars PROVE [Knock!Next]_(Knock!vars)
    OBVIOUS
  <2>1. ASSUME NEW p \in Peers, Session(p) PROVE UNCHANGED Knock!vars
    BY <2>1, Unseen DEF Session, Accept, RecvInitial, RecvResponse, AskFirewall, Conclude,
       SessionGivesUp
  <2>2. ASSUME NEW p \in Peers, Lose(p) PROVE UNCHANGED Knock!vars
    BY <2>2, Unseen DEF Lose
  <2>3. CASE Crash \/ UNCHANGED vars
    BY <2>3, Unseen DEF Crash, vars
  <2> QED
    BY <2>1, <2>2, <2>3, BeginRefines, ClientRefines, FirewallRefines DEF Next
<1> QED
  BY <1>1, <1>2, Invariance, PTL DEF Spec, ImplementsKnocking, Knock!Spec
=============================================================================
