----------------------------- MODULE UdpProofs ------------------------------
(***************************************************************************)
(* The UDP dispatcher, proved for any number of peers and sessions and any *)
(* limits: types, the counter of queued datagrams, the limits, the order   *)
(* of delivery; and, when neither a queue nor the table of connections     *)
(* ever overflows, that no assertion fails and no session loses its        *)
(* connection.                                                             *)
(*                                                                         *)
(* accept and recv_from both begin with try_recv and go on with what it    *)
(* left behind. The invariants are therefore stated of a socket buffer, a  *)
(* connection table and a counter: shown once of try_recv's result, and    *)
(* then of what the callers do to it.                                      *)
(***************************************************************************)
EXTENDS UdpDispatcher, FiniteSetTheorems, TLAPS

\* A session: its peer, and where it stands.
SessionStates == [peer : Peers, pc : {"closed", "idle", "lock", "select", "try", "closing"}]

\* A table of connections. Every queue holds its own peer's datagrams.
Table(c) ==
    /\ DOMAIN c \subseteq Peers
    /\ \A p \in DOMAIN c : c[p] \in Conn
    /\ IsFiniteSet(DOMAIN c)
    /\ IsFiniteSet(Slots(c))
    /\ Cardinality(DOMAIN c) <= MAX_NR_CONN
    /\ \A p \in DOMAIN c : Len(c[p].rx_queue) <= Q_SIZE

\* The counter covers what is queued.
Counted(c, n) == n \in Nat /\ n >= Cardinality(Slots(c))

\* Numbers k of the socket, then of the queue, are in the order of arrival, and
\* later than what was delivered.
Ordered(k, c, l, n) ==
    /\ \A i \in DOMAIN k : l[k[i].peer] < k[i].no /\ k[i].no <= n[k[i].peer]
    /\ \A i, j \in DOMAIN k : i < j /\ k[i].peer = k[j].peer => k[i].no < k[j].no
    /\ \A p \in DOMAIN c : LET q == c[p].rx_queue IN
          /\ \A i \in DOMAIN q : l[p] < q[i].no /\ q[i].no <= n[p]
          /\ \A i, j \in DOMAIN q : i < j => q[i].no < q[j].no
          /\ \A i \in DOMAIN q, j \in DOMAIN k : k[j].peer = p => q[i].no < k[j].no

\* Variables other than those of try_recv.
Shapes ==
    /\ edge \in BOOLEAN /\ ready \in BOOLEAN /\ acceptSig \in BOOLEAN /\ recvSig \in BOOLEAN
    /\ acceptor \in {"wait", "try"}
    /\ sess \in [Sessions -> SessionStates]
    /\ sent \in [Peers -> 0..MaxSent]
    /\ last \in [Peers -> 0..MaxSent]
    /\ \A p \in Peers : last[p] <= sent[p]
    /\ panicked \in BOOLEAN

\* What try_recv and its callers keep of socket, table and counter.
Kept(k, c, n) ==
    k \in Seq(Datagram) /\ Table(c) /\ Counted(c, n) /\ Ordered(k, c, last, sent)

\* The inductive invariant.
IndInv == Shapes /\ Kept(sock, conn, nr)

-----------------------------------------------------------------------------
(* Counting the places in the queues. *)

(* The places are the pairs of a peer and a position in its queue. *)
LEMMA SlotsAre ==
    ASSUME NEW c
    PROVE  /\ \A p, i : <<p, i>> \in Slots(c) <=> p \in DOMAIN c /\ i \in DOMAIN c[p].rx_queue
           /\ \A x \in Slots(c) : \E p \in DOMAIN c : \E i \in DOMAIN c[p].rx_queue : x = <<p, i>>
  BY DEF Slots

\* The length of p's queue in table c.
Length(c, p) == IF p \in DOMAIN c THEN Len(c[p].rx_queue) ELSE 0

(* The positions of a queue are numbered from 1. *)
LEMMA PlacesAre ==
    ASSUME NEW c, Table(c), NEW p \in DOMAIN c
    PROVE  /\ Length(c, p) \in Nat
           /\ DOMAIN c[p].rx_queue = 1..Length(c, p)
           /\ \A i : <<p, i>> \in Slots(c) <=> i \in 1..Length(c, p)
<1>1. c[p].rx_queue \in Seq(Datagram)
  BY DEF Table, Conn
<1> QED
  BY <1>1, SlotsAre DEF Length

(* Tables that agree on peers and queue lengths have the same places. *)
LEMMA SlotsSame ==
    ASSUME NEW c, NEW d, DOMAIN c = DOMAIN d,
           \A p \in DOMAIN c : DOMAIN c[p].rx_queue = DOMAIN d[p].rx_queue
    PROVE  Slots(c) = Slots(d)
<1>1. \A x \in Slots(c) : x \in Slots(d)
  BY SlotsAre
<1>2. \A x \in Slots(d) : x \in Slots(c)
  BY SlotsAre
<1> QED
  BY <1>1, <1>2

(* A queue that grows by one takes one more place. *)
LEMMA SlotsGrow ==
    ASSUME NEW c, Table(c), NEW d, NEW p,
           DOMAIN d = DOMAIN c \cup {p},
           \A q \in DOMAIN c \ {p} : d[q] = c[q],
           DOMAIN d[p].rx_queue = 1..(Length(c, p) + 1)
    PROVE  /\ IsFiniteSet(Slots(d))
           /\ Cardinality(Slots(d)) = Cardinality(Slots(c)) + 1
<1> DEFINE n == Length(c, p)
           x == <<p, n + 1>>
<1>1. n \in Nat /\ (p \in DOMAIN c => DOMAIN c[p].rx_queue = 1..n) /\ (p \notin DOMAIN c => n = 0)
  BY PlacesAre DEF Length
<1>2. x \notin Slots(c)
  <2>1. n + 1 \notin 1..n
    BY <1>1
  <2> HIDE DEF n
  <2> QED
    BY <1>1, <2>1, SlotsAre
<1>3. Slots(d) = Slots(c) \cup {x}
  <2>1. 1..(n + 1) = (1..n) \cup {n + 1}
    BY <1>1
  <2> HIDE DEF n
  <2>2. ASSUME NEW y \in Slots(d) PROVE y \in Slots(c) \cup {x}
    <3>1. PICK q, i : q \in DOMAIN d /\ i \in DOMAIN d[q].rx_queue /\ y = <<q, i>>
      BY SlotsAre
    <3>2. CASE q # p
      BY <3>1, <3>2, SlotsAre
    <3>3. CASE q = p /\ i = n + 1
      BY <3>1, <3>3
    <3>4. CASE q = p /\ i # n + 1
      <4>1. i \in 1..n
        BY <2>1, <3>1, <3>4 DEF n
      <4>2. p \in DOMAIN c
        BY <1>1, <4>1
      <4> QED
        BY <1>1, <3>1, <3>4, <4>1, <4>2, SlotsAre
    <3> QED
      BY <3>2, <3>3, <3>4
  <2>3. ASSUME NEW y \in Slots(c) PROVE y \in Slots(d)
    <3>1. PICK q, i : q \in DOMAIN c /\ i \in DOMAIN c[q].rx_queue /\ y = <<q, i>>
      BY SlotsAre
    <3>2. i \in DOMAIN d[q].rx_queue
      BY <1>1, <2>1, <3>1 DEF n
    <3> QED
      BY <3>1, <3>2, SlotsAre
  <2>4. x \in Slots(d)
    BY <1>1, <2>1, SlotsAre DEF n
  <2> QED
    BY <2>2, <2>3, <2>4
<1>4. IsFiniteSet(Slots(c))
  BY DEF Table
<1> HIDE DEF x
<1> QED
  BY <1>2, <1>3, <1>4, FS_AddElement

(* A queue that shrinks by one gives one place back. *)
LEMMA SlotsShrink ==
    ASSUME NEW c, Table(c), NEW d, NEW p \in DOMAIN c,
           DOMAIN d = DOMAIN c,
           \A q \in DOMAIN c \ {p} : d[q].rx_queue = c[q].rx_queue,
           Length(c, p) > 0,
           DOMAIN d[p].rx_queue = 1..(Length(c, p) - 1)
    PROVE  /\ IsFiniteSet(Slots(d))
           /\ Cardinality(Slots(c)) > 0
           /\ Cardinality(Slots(d)) = Cardinality(Slots(c)) - 1
<1> DEFINE n == Length(c, p)
           x == <<p, n>>
<1>1. n \in Nat /\ DOMAIN c[p].rx_queue = 1..n /\ n \in 1..n /\ 1..(n - 1) = (1..n) \ {n}
  BY PlacesAre
<1>2. DOMAIN d[p].rx_queue = (1..n) \ {n}
  BY <1>1
<1> HIDE DEF n
<1>3. x \in Slots(c)
  BY <1>1, SlotsAre
<1>4. Slots(d) = Slots(c) \ {x}
  <2>1. ASSUME NEW y \in Slots(d) PROVE y \in Slots(c) \ {x}
    <3>1. PICK q, i : q \in DOMAIN d /\ i \in DOMAIN d[q].rx_queue /\ y = <<q, i>>
      BY SlotsAre
    <3>2. i \in DOMAIN c[q].rx_queue /\ (q = p => i # n)
      BY <1>1, <1>2, <3>1
    <3> QED
      BY <3>1, <3>2, SlotsAre
  <2>2. ASSUME NEW y \in Slots(c), y # x PROVE y \in Slots(d)
    <3>1. PICK q, i : q \in DOMAIN c /\ i \in DOMAIN c[q].rx_queue /\ y = <<q, i>>
      BY SlotsAre
    <3>2. i \in DOMAIN d[q].rx_queue
      BY <1>1, <1>2, <2>2, <3>1
    <3> QED
      BY <3>1, <3>2, SlotsAre
  <2> QED
    BY <2>1, <2>2
<1>5. IsFiniteSet(Slots(c))
  BY DEF Table
<1> HIDE DEF x
<1>6. Cardinality(Slots(c)) \in Nat /\ Cardinality(Slots(c)) # 0
  BY <1>3, <1>5, FS_CardinalityType, FS_EmptySet
<1> QED
  BY <1>3, <1>4, <1>5, <1>6, FS_RemoveElement

(* A connection that is removed gives back the places of its queue. *)
LEMMA SlotsWithout ==
    ASSUME NEW c, Table(c), NEW p, NEW d, d = [q \in DOMAIN c \ {p} |-> c[q]]
    PROVE  /\ IsFiniteSet(Slots(d))
           /\ Length(c, p) \in Nat
           /\ Length(c, p) <= Cardinality(Slots(c))
           /\ Cardinality(Slots(d)) = Cardinality(Slots(c)) - Length(c, p)
<1> DEFINE n == Length(c, p)
           gone == {p} \X (1..n)
<1>1. n \in Nat /\ (p \in DOMAIN c => DOMAIN c[p].rx_queue = 1..n) /\ (p \notin DOMAIN c => n = 0)
  BY PlacesAre DEF Length
<1> HIDE DEF n
<1>2. IsFiniteSet(gone) /\ Cardinality(gone) = n
  <2>1. IsFiniteSet({p}) /\ Cardinality({p}) = 1
    BY FS_Singleton
  <2>2. IsFiniteSet(1..n) /\ Cardinality(1..n) = n
    BY <1>1, FS_Interval
  <2>3. IsFiniteSet({p} \X (1..n)) /\ Cardinality({p} \X (1..n)) = Cardinality({p}) * Cardinality(1..n)
    BY <2>1, <2>2, FS_Product
  <2> QED
    BY <1>1, <2>1, <2>2, <2>3
<1>3. \A i \in 1..n : <<p, i>> \in Slots(c)
  <2> SUFFICES ASSUME NEW i \in 1..n PROVE <<p, i>> \in Slots(c)
    OBVIOUS
  <2>1. p \in DOMAIN c
    BY <1>1
  <2> QED
    BY <1>1, <2>1, SlotsAre
<1>4. gone \subseteq Slots(c)
  BY <1>3
<1>5. Slots(d) = Slots(c) \ gone
  <2>1. ASSUME NEW y \in Slots(d) PROVE y \in Slots(c) \ gone
    <3>1. PICK q, i : q \in DOMAIN d /\ i \in DOMAIN d[q].rx_queue /\ y = <<q, i>>
      BY SlotsAre
    <3>2. q # p /\ q \in DOMAIN c /\ d[q] = c[q]
      BY <3>1
    <3> QED
      BY <3>1, <3>2, SlotsAre
  <2>2. ASSUME NEW y \in Slots(c), y \notin gone PROVE y \in Slots(d)
    <3>1. PICK q, i : q \in DOMAIN c /\ i \in DOMAIN c[q].rx_queue /\ y = <<q, i>>
      BY SlotsAre
    <3>2. q # p
      BY <1>1, <2>2, <3>1
    <3>3. q \in DOMAIN d /\ d[q] = c[q]
      BY <3>1, <3>2
    <3> QED
      BY <3>1, <3>3, SlotsAre
  <2> QED
    BY <2>1, <2>2
<1>6. IsFiniteSet(Slots(c))
  BY DEF Table
<1> HIDE DEF gone
<1>7. Slots(c) \cap gone = gone
  BY <1>4
<1>8. /\ IsFiniteSet(Slots(c) \ gone)
      /\ Cardinality(Slots(c) \ gone) = Cardinality(Slots(c)) - Cardinality(Slots(c) \cap gone)
  BY <1>6, FS_Difference
<1>9. Cardinality(gone) <= Cardinality(Slots(c))
  BY <1>4, <1>6, FS_Subset
<1> QED
  BY <1>1, <1>2, <1>5, <1>7, <1>8, <1>9 DEF n

-----------------------------------------------------------------------------
(* What is done to a table of connections. *)

(* Elements of sequences that grow at the end and shrink at the front. *)
LEMMA AppendIs ==
    ASSUME NEW S, NEW q \in Seq(S), NEW d \in S
    PROVE  /\ Append(q, d) \in Seq(S)
           /\ Len(q) \in Nat /\ DOMAIN q = 1..Len(q)
           /\ Len(Append(q, d)) = Len(q) + 1
           /\ DOMAIN Append(q, d) = 1..(Len(q) + 1)
           /\ \A i \in 1..Len(q) : Append(q, d)[i] = q[i]
           /\ Append(q, d)[Len(q) + 1] = d
  OBVIOUS

(* The same for the front. *)
LEMMA TailIs ==
    ASSUME NEW S, NEW q \in Seq(S), q # <<>>
    PROVE  /\ Tail(q) \in Seq(S)
           /\ Head(q) \in S /\ Head(q) = q[1]
           /\ Len(q) \in Nat /\ Len(q) > 0 /\ DOMAIN q = 1..Len(q)
           /\ Len(Tail(q)) = Len(q) - 1
           /\ DOMAIN Tail(q) = 1..(Len(q) - 1)
           /\ \A i \in 1..(Len(q) - 1) : Tail(q)[i] = q[i + 1]
  OBVIOUS

(* Filing a datagram: the table stays within its limits and one place is taken. *)
LEMMA PushedTable ==
    ASSUME Table(conn), NEW d \in Datagram, NEW acc \in BOOLEAN,
           Len(QueueOf(d.peer)) # Q_SIZE,
           d.peer \in DOMAIN conn \/ Cardinality(DOMAIN conn) # MAX_NR_CONN
    PROVE  /\ Table(Pushed(d, acc))
           /\ Cardinality(Slots(Pushed(d, acc))) = Cardinality(Slots(conn)) + 1
<1> DEFINE p == d.peer
           c == Pushed(d, acc)
           q == QueueOf(p)
<1>1. p \in Peers
  BY DEF Datagram
<1>2. q \in Seq(Datagram) /\ Len(q) = Length(conn, p) /\ Len(q) <= Q_SIZE
  BY ConstAssumption DEF QueueOf, Length, Table, Conn
<1>3. /\ DOMAIN c = DOMAIN conn \cup {p}
      /\ c[p] = [rx_queue |-> Append(q, d), accepted |-> acc]
      /\ \A x \in DOMAIN conn \ {p} : c[x] = conn[x]
  BY DEF Pushed
<1> HIDE DEF p, c, q
<1>4. /\ Append(q, d) \in Seq(Datagram) /\ Len(q) \in Nat
      /\ Len(Append(q, d)) = Len(q) + 1 /\ DOMAIN Append(q, d) = 1..(Len(q) + 1)
  BY <1>2, AppendIs
<1>5. c[p] \in Conn /\ c[p].rx_queue = Append(q, d)
  BY <1>3, <1>4 DEF Conn
<1>6. IsFiniteSet(Slots(c)) /\ Cardinality(Slots(c)) = Cardinality(Slots(conn)) + 1
  BY <1>2, <1>3, <1>4, <1>5, SlotsGrow
<1>7. IsFiniteSet(DOMAIN c) /\ Cardinality(DOMAIN c) <= MAX_NR_CONN
  <2>1. /\ IsFiniteSet(DOMAIN conn) /\ Cardinality(DOMAIN conn) \in Nat
        /\ Cardinality(DOMAIN conn) <= MAX_NR_CONN
    BY FS_CardinalityType DEF Table
  <2>2. /\ IsFiniteSet(DOMAIN conn \cup {p})
        /\ Cardinality(DOMAIN conn \cup {p}) =
              IF p \in DOMAIN conn THEN Cardinality(DOMAIN conn) ELSE Cardinality(DOMAIN conn) + 1
    BY <2>1, FS_AddElement
  <2> QED
    BY <1>3, <2>1, <2>2, ConstAssumption DEF p
<1>8. \A x \in DOMAIN c : c[x] \in Conn /\ Len(c[x].rx_queue) <= Q_SIZE
  <2> SUFFICES ASSUME NEW x \in DOMAIN c PROVE c[x] \in Conn /\ Len(c[x].rx_queue) <= Q_SIZE
    OBVIOUS
  <2>1. CASE x = p
    <3>1. Len(q) + 1 <= Q_SIZE
      BY <1>2, <1>4, ConstAssumption DEF q, p
    <3> QED
      BY <1>4, <1>5, <2>1, <3>1
  <2>2. CASE x # p
    BY <1>3, <2>2 DEF Table
  <2> QED
    BY <2>1, <2>2
<1>9. DOMAIN c \subseteq Peers
  BY <1>1, <1>3 DEF Table
<1> QED
  BY <1>6, <1>7, <1>8, <1>9 DEF Table, c

(* Removing a connection. *)
LEMMA WithoutTable ==
    ASSUME Table(conn), NEW p
    PROVE  /\ Table(Without(p))
           /\ Length(conn, p) \in Nat /\ Length(conn, p) = Len(QueueOf(p))
           /\ Length(conn, p) <= Cardinality(Slots(conn))
           /\ Cardinality(Slots(Without(p))) = Cardinality(Slots(conn)) - Length(conn, p)
<1> DEFINE c == Without(p)
<1>1. c = [q \in DOMAIN conn \ {p} |-> conn[q]]
  BY DEF Without
<1>2. DOMAIN c = DOMAIN conn \ {p} /\ \A x \in DOMAIN c : c[x] = conn[x]
  BY <1>1
<1> HIDE DEF c
<1>3. /\ IsFiniteSet(Slots(c)) /\ Length(conn, p) \in Nat
      /\ Length(conn, p) <= Cardinality(Slots(conn))
      /\ Cardinality(Slots(c)) = Cardinality(Slots(conn)) - Length(conn, p)
  BY <1>1, SlotsWithout
<1>4. IsFiniteSet(DOMAIN c) /\ Cardinality(DOMAIN c) <= MAX_NR_CONN
  <2>1. IsFiniteSet(DOMAIN conn) /\ Cardinality(DOMAIN conn) <= MAX_NR_CONN
    BY DEF Table
  <2>2. IsFiniteSet(DOMAIN c) /\ Cardinality(DOMAIN c) <= Cardinality(DOMAIN conn)
    BY <1>2, <2>1, FS_Subset
  <2>3. Cardinality(DOMAIN conn) \in Nat /\ Cardinality(DOMAIN c) \in Nat
    BY <2>1, <2>2, FS_CardinalityType
  <2> QED
    BY <2>1, <2>2, <2>3, ConstAssumption
<1>5. Table(c)
  BY <1>2, <1>3, <1>4 DEF Table
<1>6. Length(conn, p) = Len(QueueOf(p))
  BY DEF Length, QueueOf
<1> QED
  BY <1>3, <1>5, <1>6 DEF c

(* Taking the first datagram of a queue. *)
LEMMA PoppedTable ==
    ASSUME NEW c, Table(c), NEW p \in DOMAIN c, c[p].rx_queue # <<>>,
           NEW d, d = [c EXCEPT ![p].rx_queue = Tail(c[p].rx_queue)]
    PROVE  /\ Table(d)
           /\ DOMAIN d = DOMAIN c
           /\ d[p].rx_queue = Tail(c[p].rx_queue) /\ d[p].accepted = c[p].accepted
           /\ \A x \in DOMAIN c \ {p} : d[x] = c[x]
           /\ Cardinality(Slots(c)) > 0
           /\ Cardinality(Slots(d)) = Cardinality(Slots(c)) - 1
<1> DEFINE q == c[p].rx_queue
<1>1. c[p] \in Conn /\ q \in Seq(Datagram) /\ Len(q) <= Q_SIZE /\ Length(c, p) = Len(q)
  BY DEF Table, Conn, Length
<1>2. DOMAIN d = DOMAIN c /\ d[p] = [c[p] EXCEPT !.rx_queue = Tail(q)]
      /\ \A x \in DOMAIN c \ {p} : d[x] = c[x]
  OBVIOUS
<1>3. /\ Tail(q) \in Seq(Datagram) /\ Len(q) \in Nat /\ Len(q) > 0
      /\ Len(Tail(q)) = Len(q) - 1 /\ DOMAIN Tail(q) = 1..(Len(q) - 1)
  BY <1>1, TailIs
<1>4. d[p].rx_queue = Tail(q) /\ d[p] \in Conn /\ d[p].accepted = c[p].accepted
  BY <1>1, <1>2, <1>3 DEF Conn
<1> HIDE DEF q
<1>5. /\ IsFiniteSet(Slots(d)) /\ Cardinality(Slots(c)) > 0
      /\ Cardinality(Slots(d)) = Cardinality(Slots(c)) - 1
  BY <1>1, <1>2, <1>3, <1>4, SlotsShrink
<1>6. Len(d[p].rx_queue) <= Q_SIZE
  BY <1>1, <1>3, <1>4, ConstAssumption
<1>7. Table(d)
  BY <1>2, <1>4, <1>5, <1>6 DEF Table
<1> QED
  BY <1>2, <1>4, <1>5, <1>7 DEF q

(* Marking a connection as accepted. *)
LEMMA AcceptedTable ==
    ASSUME NEW c, Table(c), NEW p \in DOMAIN c,
           NEW d, d = [c EXCEPT ![p].accepted = TRUE]
    PROVE  /\ Table(d)
           /\ DOMAIN d = DOMAIN c
           /\ \A x \in DOMAIN c : d[x].rx_queue = c[x].rx_queue
           /\ d[p].accepted
           /\ \A x \in DOMAIN c \ {p} : d[x] = c[x]
           /\ Slots(d) = Slots(c)
<1>1. c[p] \in Conn
  BY DEF Table
<1>2. DOMAIN d = DOMAIN c /\ d[p] = [c[p] EXCEPT !.accepted = TRUE]
      /\ \A x \in DOMAIN c \ {p} : d[x] = c[x]
  OBVIOUS
<1>3. d[p] \in Conn /\ d[p].rx_queue = c[p].rx_queue /\ d[p].accepted
  BY <1>1, <1>2 DEF Conn
<1>4. \A x \in DOMAIN c : d[x].rx_queue = c[x].rx_queue
  BY <1>2, <1>3
<1>5. Slots(d) = Slots(c)
  BY <1>2, <1>4, SlotsSame
<1> QED
  BY <1>2, <1>3, <1>4, <1>5 DEF Table

-----------------------------------------------------------------------------
(* The order of datagrams. *)

(* Reading a datagram off the socket and dropping it, and dropping connections. *)
LEMMA DroppedOrder ==
    ASSUME sock \in Seq(Datagram), sock # <<>>, NEW l, NEW n, Ordered(sock, conn, l, n)
    PROVE  Ordered(Tail(sock), conn, l, n)
<1> DEFINE k == Tail(sock)
<1>1. /\ Len(sock) \in Nat /\ DOMAIN sock = 1..Len(sock) /\ DOMAIN k = 1..(Len(sock) - 1)
      /\ \A i \in DOMAIN k : k[i] = sock[i + 1]
  BY TailIs
<1>2. \A i \in DOMAIN k : i \in Nat /\ i + 1 \in DOMAIN sock
  BY <1>1
<1> HIDE DEF k
<1> QED
  BY <1>1, <1>2 DEF Ordered, k

(* Removing connections. *)
LEMMA WithoutOrder ==
    ASSUME NEW k, NEW l, NEW n, NEW p, Ordered(k, conn, l, n)
    PROVE  Ordered(k, Without(p), l, n)
<1>1. DOMAIN Without(p) \subseteq DOMAIN conn
      /\ \A x \in DOMAIN Without(p) : Without(p)[x] = conn[x]
  BY DEF Without
<1> QED
  BY <1>1 DEF Ordered

(* Tables with the same queues. *)
LEMMA SameOrder ==
    ASSUME NEW k, NEW c, NEW d, NEW l, NEW n, Ordered(k, c, l, n),
           DOMAIN d = DOMAIN c, \A x \in DOMAIN c : d[x].rx_queue = c[x].rx_queue
    PROVE  Ordered(k, d, l, n)
  BY DEF Ordered

(* Moving the first datagram of the socket to the end of its peer's queue. *)
LEMMA PushedOrder ==
    ASSUME sock \in Seq(Datagram), sock # <<>>, Table(conn), NEW acc \in BOOLEAN,
           Ordered(sock, conn, last, sent)
    PROVE  Ordered(Tail(sock), Pushed(Head(sock), acc), last, sent)
<1> DEFINE k == Tail(sock)
           d == Head(sock)
           p == d.peer
           c == Pushed(d, acc)
           q == QueueOf(p)
<1>1. /\ Len(sock) \in Nat /\ DOMAIN sock = 1..Len(sock) /\ DOMAIN k = 1..(Len(sock) - 1)
      /\ Len(sock) > 0 /\ d \in Datagram /\ d = sock[1]
      /\ \A i \in DOMAIN k : k[i] = sock[i + 1]
  BY TailIs
<1>2. /\ 1 \in DOMAIN sock
      /\ \A i \in DOMAIN k : i \in Nat /\ i + 1 \in DOMAIN sock /\ 1 < i + 1
  BY <1>1
<1>3. q \in Seq(Datagram) /\ p \in Peers
  BY <1>1 DEF QueueOf, Table, Conn, Datagram
<1>4. /\ DOMAIN c = DOMAIN conn \cup {p}
      /\ c[p].rx_queue = Append(q, d)
      /\ \A x \in DOMAIN conn \ {p} : c[x] = conn[x]
  BY DEF Pushed
<1>5. /\ Len(q) \in Nat /\ DOMAIN q = 1..Len(q)
      /\ DOMAIN Append(q, d) = 1..(Len(q) + 1)
      /\ \A i \in DOMAIN q : Append(q, d)[i] = q[i]
      /\ Append(q, d)[Len(q) + 1] = d
  BY <1>1, <1>3, AppendIs
<1>6. /\ \A i \in DOMAIN q : last[p] < q[i].no /\ q[i].no <= sent[p]
      /\ \A i, j \in DOMAIN q : i < j => q[i].no < q[j].no
      /\ \A i \in DOMAIN q, j \in DOMAIN sock : sock[j].peer = p => q[i].no < sock[j].no
  <2>1. CASE p \in DOMAIN conn
    BY <2>1 DEF QueueOf, Ordered
  <2>2. CASE p \notin DOMAIN conn
    <3>1. q = <<>>
      BY <2>2 DEF QueueOf
    <3>2. DOMAIN q = {}
      BY <3>1
    <3> QED
      BY <3>2
  <2> QED
    BY <2>1, <2>2
<1> HIDE DEF k, d, p, c, q
<1>7. /\ last[p] < d.no /\ d.no <= sent[p]
      /\ \A i \in DOMAIN q : q[i].no < d.no
      /\ \A j \in DOMAIN k : k[j].peer = p => d.no < k[j].no
  BY <1>1, <1>2, <1>6 DEF Ordered, p
<1>8. Ordered(k, conn, last, sent)
  BY DroppedOrder DEF k
<1> DEFINE a == Append(q, d)
<1>9. \A i \in DOMAIN a : \/ i \in DOMAIN q /\ a[i] = q[i]
                          \/ i = Len(q) + 1 /\ a[i] = d
  BY <1>5
<1>10. \A i \in DOMAIN q : i \in Nat /\ i < Len(q) + 1 /\ i <= Len(q)
  BY <1>5
<1> HIDE DEF a
<1>11. /\ \A i \in DOMAIN a : last[p] < a[i].no /\ a[i].no <= sent[p]
       /\ \A i \in DOMAIN a, j \in DOMAIN k : k[j].peer = p => a[i].no < k[j].no
  <2>1. \A i \in DOMAIN q, j \in DOMAIN k : k[j].peer = p => q[i].no < k[j].no
    BY <1>1, <1>2, <1>6
  <2> QED
    BY <1>6, <1>7, <1>9, <2>1
<1>12. ASSUME NEW i \in DOMAIN a, NEW j \in DOMAIN a, i < j PROVE a[i].no < a[j].no
  <2>1. CASE j \in DOMAIN q /\ a[j] = q[j]
    <3>1. i \in DOMAIN q /\ a[i] = q[i]
      BY <1>5, <1>9, <1>10, <1>12, <2>1
    <3> QED
      BY <1>6, <1>12, <2>1, <3>1
  <2>2. CASE j = Len(q) + 1 /\ a[j] = d
    <3>1. i \in DOMAIN q /\ a[i] = q[i]
      BY <1>5, <1>9, <1>12, <2>2
    <3> QED
      BY <1>7, <2>2, <3>1
  <2> QED
    BY <1>9, <2>1, <2>2
<1>13. \A x \in DOMAIN c : LET y == c[x].rx_queue IN
          /\ \A i \in DOMAIN y : last[x] < y[i].no /\ y[i].no <= sent[x]
          /\ \A i, j \in DOMAIN y : i < j => y[i].no < y[j].no
          /\ \A i \in DOMAIN y, j \in DOMAIN k : k[j].peer = x => y[i].no < k[j].no
  <2> SUFFICES ASSUME NEW x \in DOMAIN c, NEW y, y = c[x].rx_queue
               PROVE  /\ \A i \in DOMAIN y : last[x] < y[i].no /\ y[i].no <= sent[x]
                      /\ \A i, j \in DOMAIN y : i < j => y[i].no < y[j].no
                      /\ \A i \in DOMAIN y, j \in DOMAIN k : k[j].peer = x => y[i].no < k[j].no
    OBVIOUS
  <2>1. CASE x = p
    BY <1>4, <1>11, <1>12, <2>1 DEF a
  <2>2. CASE x # p
    BY <1>4, <1>8, <2>2 DEF Ordered
  <2> QED
    BY <2>1, <2>2
<1> QED
  BY <1>8, <1>13 DEF Ordered, k, c, d

(* Delivering the first datagram of a queue: it is later than the last one. *)
LEMMA PoppedOrder ==
    ASSUME NEW k \in Seq(Datagram), NEW c, Table(c), NEW p \in DOMAIN c, c[p].rx_queue # <<>>,
           NEW d, DOMAIN d = DOMAIN c, d[p].rx_queue = Tail(c[p].rx_queue),
           \A x \in DOMAIN c \ {p} : d[x] = c[x],
           last \in [Peers -> 0..MaxSent],
           \A x \in Peers : last[x] <= sent[x],
           Ordered(k, c, last, sent),
           NEW l, l = [last EXCEPT ![p] = Head(c[p].rx_queue).no]
    PROVE  /\ Head(c[p].rx_queue).no > last[p]
           /\ l \in [Peers -> 0..MaxSent]
           /\ \A x \in Peers : l[x] <= sent[x]
           /\ Ordered(k, d, l, sent)
<1> DEFINE q == c[p].rx_queue
           y == Tail(q)
<1>1. p \in Peers /\ q \in Seq(Datagram)
  BY DEF Table, Conn
<1>2. /\ Len(q) \in Nat /\ Len(q) > 0 /\ DOMAIN q = 1..Len(q) /\ DOMAIN y = 1..(Len(q) - 1)
      /\ Head(q) \in Datagram /\ Head(q) = q[1]
      /\ \A i \in DOMAIN y : y[i] = q[i + 1]
  BY <1>1, TailIs
<1>3. 1 \in DOMAIN q /\ \A i \in DOMAIN y : i \in Nat /\ i + 1 \in DOMAIN q /\ 1 < i + 1
  BY <1>2
<1>4. Head(q).no \in 1..MaxSent /\ Head(q).no \in 0..MaxSent
  BY <1>2, ConstAssumption DEF Datagram
<1>5. last[p] \in 0..MaxSent /\ MaxSent \in Nat
  BY <1>1, ConstAssumption
<1>6. last[p] < Head(q).no
  BY <1>2, <1>3 DEF Ordered
<1>7. l \in [Peers -> 0..MaxSent] /\ l[p] = Head(q).no /\ \A x \in Peers \ {p} : l[x] = last[x]
  BY <1>1, <1>4
<1>8. \A i \in DOMAIN k : k[i].peer \in Peers
  <2>1. \A i \in DOMAIN k : k[i] \in Datagram
    OBVIOUS
  <2> QED
    BY <2>1 DEF Datagram
<1> HIDE DEF q
<1>9. \A i \in DOMAIN k : l[k[i].peer] < k[i].no /\ k[i].no <= sent[k[i].peer]
  <2> SUFFICES ASSUME NEW i \in DOMAIN k
               PROVE  l[k[i].peer] < k[i].no /\ k[i].no <= sent[k[i].peer]
    OBVIOUS
  <2>1. CASE k[i].peer = p
    BY <1>2, <1>3, <1>7, <2>1 DEF Ordered, q
  <2>2. CASE k[i].peer # p
    BY <1>7, <1>8, <2>2 DEF Ordered
  <2> QED
    BY <2>1, <2>2
<1>10. /\ \A i \in DOMAIN y : l[p] < y[i].no /\ y[i].no <= sent[p]
       /\ \A i, j \in DOMAIN y : i < j => y[i].no < y[j].no
       /\ \A i \in DOMAIN y, j \in DOMAIN k : k[j].peer = p => y[i].no < k[j].no
  <2>1. /\ \A i \in DOMAIN q : q[i].no <= sent[p]
        /\ \A i, j \in DOMAIN q : i < j => q[i].no < q[j].no
        /\ \A i \in DOMAIN q, j \in DOMAIN k : k[j].peer = p => q[i].no < k[j].no
    BY DEF Ordered, q
  <2> HIDE DEF y
  <2>2. \A i \in DOMAIN y : l[p] < y[i].no
    BY <1>2, <1>3, <1>7, <2>1
  <2>3. \A i, j \in DOMAIN y : i < j => i + 1 < j + 1
    BY <1>3
  <2> QED
    BY <1>2, <1>3, <2>1, <2>2, <2>3
<1>11. Ordered(k, d, l, sent)
  <2> SUFFICES ASSUME NEW x \in DOMAIN d, NEW z, z = d[x].rx_queue
               PROVE  /\ \A i \in DOMAIN z : l[x] < z[i].no /\ z[i].no <= sent[x]
                      /\ \A i, j \in DOMAIN z : i < j => z[i].no < z[j].no
                      /\ \A i \in DOMAIN z, j \in DOMAIN k : k[j].peer = x => z[i].no < k[j].no
    BY <1>9 DEF Ordered
  <2>1. CASE x = p
    BY <1>10, <2>1 DEF q
  <2>2. CASE x # p
    <3>1. l[x] = last[x]
      BY <1>7, <2>2 DEF Table
    <3> QED
      BY <2>2, <3>1 DEF Ordered
  <2> QED
    BY <2>1, <2>2
<1>12. Head(q).no <= sent[p]
  BY <1>2, <1>3 DEF Ordered, q
<1> QED
  BY <1>4, <1>5, <1>6, <1>7, <1>11, <1>12 DEF q

(* A new datagram is the latest of its peer. *)
LEMMA ArriveOrder ==
    ASSUME sock \in Seq(Datagram), Table(conn), NEW p \in Peers, NEW d \in Datagram,
           d.peer = p, d.no = sent[p] + 1,
           sent \in [Peers -> 0..MaxSent], last \in [Peers -> 0..MaxSent],
           last[p] <= sent[p],
           NEW n, n = [sent EXCEPT ![p] = sent[p] + 1],
           Ordered(sock, conn, last, sent)
    PROVE  Ordered(Append(sock, d), conn, last, n)
<1> DEFINE k == Append(sock, d)
<1>1. /\ Len(sock) \in Nat /\ DOMAIN sock = 1..Len(sock) /\ DOMAIN k = 1..(Len(sock) + 1)
      /\ \A i \in DOMAIN sock : k[i] = sock[i]
      /\ k[Len(sock) + 1] = d
  BY AppendIs
<1>2. \A i \in DOMAIN k : \/ i \in DOMAIN sock /\ k[i] = sock[i]
                          \/ i = Len(sock) + 1 /\ k[i] = d
  BY <1>1
<1>3. \A i \in DOMAIN sock : i \in Nat /\ i < Len(sock) + 1
  BY <1>1
<1>4. /\ \A x \in Peers : sent[x] \in Nat /\ last[x] \in Nat /\ sent[x] <= n[x]
      /\ n[p] = sent[p] + 1
  BY ConstAssumption
<1>5. \A i \in DOMAIN sock : sock[i] \in Datagram
  OBVIOUS
<1>6. \A i \in DOMAIN sock : sock[i].peer \in Peers /\ sock[i].no \in Nat
  BY <1>5, ConstAssumption DEF Datagram
<1>7. \A x \in DOMAIN conn : x \in Peers /\ conn[x].rx_queue \in Seq(Datagram)
  BY DEF Table, Conn
<1>8. \A x \in DOMAIN conn : \A i \in DOMAIN conn[x].rx_queue : conn[x].rx_queue[i] \in Datagram
  BY <1>7
<1>9. \A x \in DOMAIN conn : \A i \in DOMAIN conn[x].rx_queue : conn[x].rx_queue[i].no \in Nat
  BY <1>8, ConstAssumption DEF Datagram
<1> HIDE DEF k
<1>10. \A i \in DOMAIN k : last[k[i].peer] < k[i].no /\ k[i].no <= n[k[i].peer]
  <2> SUFFICES ASSUME NEW i \in DOMAIN k
               PROVE  last[k[i].peer] < k[i].no /\ k[i].no <= n[k[i].peer]
    OBVIOUS
  <2>1. CASE i \in DOMAIN sock /\ k[i] = sock[i]
    BY <1>4, <1>6, <2>1 DEF Ordered
  <2>2. CASE k[i] = d
    BY <1>4, <2>2
  <2> QED
    BY <1>2, <2>1, <2>2
<1>11. ASSUME NEW i \in DOMAIN k, NEW j \in DOMAIN k, i < j, k[i].peer = k[j].peer
       PROVE  k[i].no < k[j].no
  <2>1. i \in DOMAIN sock /\ k[i] = sock[i]
    BY <1>1, <1>11
  <2>2. CASE j \in DOMAIN sock /\ k[j] = sock[j]
    BY <1>11, <2>1, <2>2 DEF Ordered
  <2>3. CASE k[j] = d
    <3>1. sock[i].no <= sent[p]
      BY <1>11, <2>1, <2>3 DEF Ordered
    <3> QED
      BY <1>4, <1>6, <2>1, <2>3, <3>1
  <2> QED
    BY <1>2, <2>2, <2>3
<1>12. ASSUME NEW x \in DOMAIN conn, NEW y, y = conn[x].rx_queue
       PROVE  /\ \A i \in DOMAIN y : last[x] < y[i].no /\ y[i].no <= n[x]
              /\ \A i, j \in DOMAIN y : i < j => y[i].no < y[j].no
              /\ \A i \in DOMAIN y, j \in DOMAIN k : k[j].peer = x => y[i].no < k[j].no
  <2>1. /\ \A i \in DOMAIN y : last[x] < y[i].no /\ y[i].no <= sent[x]
        /\ \A i, j \in DOMAIN y : i < j => y[i].no < y[j].no
        /\ \A i \in DOMAIN y, j \in DOMAIN sock : sock[j].peer = x => y[i].no < sock[j].no
    BY <1>12 DEF Ordered
  <2>2. x \in Peers /\ \A i \in DOMAIN y : y[i].no \in Nat
    BY <1>7, <1>9, <1>12
  <2>3. \A i \in DOMAIN y : y[i].no <= n[x]
    BY <1>4, <2>1, <2>2
  <2>4. ASSUME NEW i \in DOMAIN y, NEW j \in DOMAIN k, k[j].peer = x PROVE y[i].no < k[j].no
    <3>1. CASE j \in DOMAIN sock /\ k[j] = sock[j]
      BY <2>1, <2>4, <3>1
    <3>2. CASE k[j] = d
      BY <1>4, <2>1, <2>2, <2>4, <3>2
    <3> QED
      BY <1>2, <3>1, <3>2
  <2> QED
    BY <2>1, <2>3, <2>4
<1> QED
  BY <1>10, <1>11, <1>12 DEF Ordered, k

-----------------------------------------------------------------------------
(* try_recv. *)

\* The four ways in which a read ends: nothing to read; a datagram that is dropped;
\* one that finds its queue full and takes the connection with it; one that is filed.
Blocked(r) ==
    /\ r.ok = TRUE /\ r.sock = sock /\ r.conn = conn /\ r.nr = nr
    /\ r.notify = FALSE /\ r.panic = FALSE /\ r.ready = FALSE
Dropped(r) ==
    /\ r.ok = FALSE /\ r.sock = Tail(sock) /\ r.conn = conn /\ r.nr = nr
    /\ r.notify = FALSE /\ r.panic = FALSE /\ r.ready = ready
    /\ sock # <<>>
    /\ Head(sock).sized => Cardinality(DOMAIN conn) = MAX_NR_CONN /\ Head(sock).peer \notin DOMAIN conn
Overflown(r) ==
    /\ r.ok = FALSE /\ r.sock = Tail(sock) /\ r.conn = Without(Head(sock).peer) /\ r.nr = nr
    /\ r.notify = FALSE /\ r.panic = FALSE /\ r.ready = ready
    /\ sock # <<>>
    /\ Len(QueueOf(Head(sock).peer)) = Q_SIZE
Filed(r) ==
    LET d        == Head(sock)
        accepted == d.peer \in DOMAIN conn /\ conn[d.peer].accepted
    IN  /\ r.ok = TRUE /\ r.sock = Tail(sock) /\ r.conn = Pushed(d, accepted) /\ r.nr = nr + 1
        /\ r.notify = ~accepted /\ r.panic = (nr + 1 > MAX_NR_CONN * Q_SIZE) /\ r.ready = ready
        /\ sock # <<>>
        /\ Len(QueueOf(d.peer)) # Q_SIZE
        /\ d.peer \in DOMAIN conn \/ Cardinality(DOMAIN conn) # MAX_NR_CONN

(* There are no others. *)
LEMMA TryRecvCases ==
    ASSUME ready \in BOOLEAN, NEW r, r = try_recv, sock \in Seq(Datagram), Table(conn)
    PROVE  Blocked(r) \/ Dropped(r) \/ Overflown(r) \/ Filed(r)
<1> DEFINE d        == Head(sock)
           accepted == d.peer \in DOMAIN conn /\ conn[d.peer].accepted
<1>1. CASE ~ready \/ sock = <<>>
  BY <1>1 DEF try_recv, Blocked
<1>2. CASE ready /\ sock # <<>> /\ ~d.sized
  BY <1>2 DEF try_recv, Dropped
<1>3. CASE ready /\ sock # <<>> /\ d.sized /\ Len(QueueOf(d.peer)) = Q_SIZE
  <2>1. Len(<<>>) = 0 /\ Q_SIZE # 0
    BY ConstAssumption
  <2>2. d.peer \in DOMAIN conn
    BY <1>3, <2>1 DEF QueueOf
  <2> QED
    BY <1>3, <2>2 DEF try_recv, Overflown
<1>4. CASE /\ ready /\ sock # <<>> /\ d.sized /\ Len(QueueOf(d.peer)) # Q_SIZE
           /\ d.peer \notin DOMAIN conn /\ Cardinality(DOMAIN conn) = MAX_NR_CONN
  BY <1>4 DEF try_recv, Dropped
<1>5. CASE /\ ready /\ sock # <<>> /\ d.sized /\ Len(QueueOf(d.peer)) # Q_SIZE
           /\ d.peer \in DOMAIN conn \/ Cardinality(DOMAIN conn) # MAX_NR_CONN
  BY <1>5 DEF try_recv, Filed
<1> QED
  BY <1>1, <1>2, <1>3, <1>4, <1>5

(* Whoever calls it, try_recv keeps the table within its limits, counts what it *)
(* files, and files it in order.                                                *)
LEMMA TryRecvKeeps ==
    ASSUME IndInv, NEW r, r = try_recv
    PROVE  /\ Kept(r.sock, r.conn, r.nr)
           /\ r.ready \in BOOLEAN /\ r.notify \in BOOLEAN /\ r.panic \in BOOLEAN
<1>0. /\ sock \in Seq(Datagram) /\ Table(conn) /\ nr \in Nat /\ nr >= Cardinality(Slots(conn))
      /\ Ordered(sock, conn, last, sent) /\ ready \in BOOLEAN
      /\ Cardinality(Slots(conn)) \in Nat
  BY FS_CardinalityType DEF IndInv, Kept, Counted, Shapes, Table
<1>1. CASE Blocked(r)
  BY <1>0, <1>1 DEF Blocked, Kept, Counted
<1>2. CASE Dropped(r)
  <2>1. Ordered(Tail(sock), conn, last, sent) /\ Tail(sock) \in Seq(Datagram)
    BY <1>0, <1>2, DroppedOrder, TailIs DEF Dropped
  <2> QED
    BY <1>0, <1>2, <2>1 DEF Dropped, Kept, Counted
<1>3. CASE Overflown(r)
  <2> DEFINE p == Head(sock).peer
  <2>1. /\ Table(Without(p)) /\ Length(conn, p) \in Nat
        /\ Cardinality(Slots(Without(p))) = Cardinality(Slots(conn)) - Length(conn, p)
    BY <1>0, WithoutTable
  <2>2. Counted(Without(p), nr)
    BY <1>0, <2>1 DEF Counted
  <2>3. Ordered(Tail(sock), Without(p), last, sent) /\ Tail(sock) \in Seq(Datagram)
    BY <1>0, <1>3, DroppedOrder, WithoutOrder, TailIs DEF Overflown
  <2> QED
    BY <1>0, <1>3, <2>1, <2>2, <2>3 DEF Overflown, Kept
<1>4. CASE Filed(r)
  <2>1. PICK acc \in BOOLEAN :
          /\ r.conn = Pushed(Head(sock), acc) /\ r.sock = Tail(sock) /\ r.nr = nr + 1
          /\ r.notify = ~acc /\ r.panic \in BOOLEAN /\ r.ready = ready
          /\ sock # <<>> /\ Len(QueueOf(Head(sock).peer)) # Q_SIZE
          /\ Head(sock).peer \in DOMAIN conn \/ Cardinality(DOMAIN conn) # MAX_NR_CONN
    <3> DEFINE acc == Head(sock).peer \in DOMAIN conn /\ conn[Head(sock).peer].accepted
    <3>1. acc \in BOOLEAN
      BY <1>0 DEF Table, Conn
    <3>2. /\ r.conn = Pushed(Head(sock), acc) /\ r.sock = Tail(sock) /\ r.nr = nr + 1
          /\ r.notify = ~acc /\ r.panic \in BOOLEAN /\ r.ready = ready
          /\ sock # <<>> /\ Len(QueueOf(Head(sock).peer)) # Q_SIZE
          /\ Head(sock).peer \in DOMAIN conn \/ Cardinality(DOMAIN conn) # MAX_NR_CONN
      BY <1>4 DEF Filed
    <3> HIDE DEF acc
    <3> QED
      BY <3>1, <3>2
  <2>2. Head(sock) \in Datagram /\ Tail(sock) \in Seq(Datagram)
    BY <1>0, <2>1, TailIs
  <2>3. Table(r.conn) /\ Cardinality(Slots(r.conn)) = Cardinality(Slots(conn)) + 1
    BY <1>0, <2>1, <2>2, PushedTable
  <2>4. Ordered(r.sock, r.conn, last, sent)
    BY <1>0, <2>1, PushedOrder
  <2>5. Counted(r.conn, r.nr)
    BY <1>0, <2>1, <2>3 DEF Counted
  <2> QED
    BY <1>0, <2>1, <2>2, <2>3, <2>4, <2>5 DEF Kept
<1> QED
  BY <1>0, <1>1, <1>2, <1>3, <1>4, TryRecvCases

-----------------------------------------------------------------------------
(* Preservation. *)

(* Where a task stands is its own business. *)
LEMMA GotoIs ==
    ASSUME sess \in [Sessions -> SessionStates], NEW s \in Sessions,
           NEW pc \in {"closed", "idle", "lock", "select", "try", "closing"}, Goto(s, pc)
    PROVE  /\ sess' \in [Sessions -> SessionStates]
           /\ sess'[s].pc = pc /\ sess'[s].peer = sess[s].peer
           /\ \A t \in Sessions \ {s} : sess'[t] = sess[t]
<1>1. sess[s] \in SessionStates
  OBVIOUS
<1>2. [sess[s] EXCEPT !.pc = pc] \in SessionStates
  <2>1. sess[s].peer \in Peers /\ sess[s] = [peer |-> sess[s].peer, pc |-> sess[s].pc]
    BY <1>1 DEF SessionStates
  <2>2. [sess[s] EXCEPT !.pc = pc] = [peer |-> sess[s].peer, pc |-> pc]
    BY <2>1
  <2> QED
    BY <2>1, <2>2 DEF SessionStates
<1>3. sess' = [sess EXCEPT ![s] = [sess[s] EXCEPT !.pc = pc]]
  BY DEF Goto
<1> QED
  BY <1>1, <1>2, <1>3 DEF SessionStates

(* A datagram arrives. *)
LEMMA ArriveStep ==
    ASSUME IndInv, NEW p \in Peers, NEW sized \in Sizes, Arrive(p, sized)
    PROVE  IndInv'
<1> DEFINE d == [peer |-> p, no |-> sent[p] + 1, sized |-> sized]
<1>1. /\ sock \in Seq(Datagram) /\ Table(conn) /\ Ordered(sock, conn, last, sent)
      /\ sent \in [Peers -> 0..MaxSent] /\ last \in [Peers -> 0..MaxSent] /\ last[p] <= sent[p]
      /\ sent[p] < MaxSent
  BY DEF IndInv, Kept, Shapes, Arrive
<1>2. sent[p] + 1 \in 1..MaxSent /\ sent[p] + 1 \in 0..MaxSent /\ sent[p] \in Nat
  BY <1>1, ConstAssumption
<1>3. d \in Datagram
  BY <1>2 DEF Datagram
<1>4. sock' = Append(sock, d) /\ sent' = [sent EXCEPT ![p] = sent[p] + 1] /\ edge' = TRUE
      /\ UNCHANGED <<ready, conn, nr, acceptSig, recvSig, acceptor, sess, last, panicked>>
  BY DEF Arrive
<1>5. Ordered(sock', conn, last, sent')
  BY <1>1, <1>3, <1>4, ArriveOrder
<1>6. sent' \in [Peers -> 0..MaxSent] /\ \A x \in Peers : last[x] <= sent'[x]
  <2>1. \A x \in Peers : sent[x] \in Nat /\ last[x] \in Nat
    BY <1>1, ConstAssumption
  <2>2. \A x \in Peers : last[x] <= sent[x]
    BY DEF IndInv, Shapes
  <2> QED
    BY <1>1, <1>2, <1>4, <2>1, <2>2
<1>7. sock' \in Seq(Datagram)
  BY <1>1, <1>3, <1>4, AppendIs
<1> QED
  BY <1>4, <1>5, <1>6, <1>7 DEF IndInv, Kept, Counted, Shapes

(* Steps that touch neither socket, table nor counter. *)
LEMMA QuietStep ==
    ASSUME IndInv, UNCHANGED <<sock, conn, nr, sent, last>>, Shapes'
    PROVE  IndInv'
  BY DEF IndInv, Kept, Counted

(* accept takes over what try_recv left behind, and may accept a connection. *)
LEMMA TryAcceptStep ==
    ASSUME IndInv, TryAccept
    PROVE  IndInv'
<1>1. PICK r : r = try_recv
  OBVIOUS
<1>2. /\ Socket(r) /\ nr' = r.nr /\ acceptor' = "wait" /\ UNCHANGED last
      /\ \/ conn' = r.conn /\ UNCHANGED sess
         \/ \E p \in Unaccepted(r.conn), s \in Sessions :
               /\ conn' = [r.conn EXCEPT ![p].accepted = TRUE]
               /\ sess' = [sess EXCEPT ![s] = [peer |-> p, pc |-> "idle"]]
      /\ recvSig' \in {recvSig, recvSig \/ r.notify, recvSig \/ r.notify \/ r.nr > 0}
  BY <1>1 DEF TryAccept
<1>3. /\ Kept(r.sock, r.conn, r.nr)
      /\ r.ready \in BOOLEAN /\ r.notify \in BOOLEAN /\ r.panic \in BOOLEAN
  BY <1>1, TryRecvKeeps
<1>4. /\ sock' = r.sock /\ ready' = r.ready /\ panicked' = r.panic /\ UNCHANGED <<edge, sent>>
      /\ acceptSig' = (acceptSig \/ r.notify)
  BY <1>2 DEF Socket
<1>5. Kept(r.sock, conn', r.nr) /\ sess' \in [Sessions -> SessionStates]
  <2>1. CASE conn' = r.conn /\ UNCHANGED sess
    BY <1>3, <2>1 DEF IndInv, Shapes
  <2>2. CASE \E p \in Unaccepted(r.conn), s \in Sessions :
               /\ conn' = [r.conn EXCEPT ![p].accepted = TRUE]
               /\ sess' = [sess EXCEPT ![s] = [peer |-> p, pc |-> "idle"]]
    <3>1. PICK p \in Unaccepted(r.conn), s \in Sessions :
               /\ conn' = [r.conn EXCEPT ![p].accepted = TRUE]
               /\ sess' = [sess EXCEPT ![s] = [peer |-> p, pc |-> "idle"]]
      BY <2>2
    <3>2. Table(r.conn) /\ p \in DOMAIN r.conn /\ p \in Peers
      BY <1>3 DEF Kept, Table, Unaccepted
    <3>3. /\ Table(conn') /\ DOMAIN conn' = DOMAIN r.conn
          /\ \A x \in DOMAIN r.conn : conn'[x].rx_queue = r.conn[x].rx_queue
          /\ Slots(conn') = Slots(r.conn)
      BY <3>1, <3>2, AcceptedTable
    <3>4. Ordered(r.sock, conn', last, sent)
      BY <1>3, <3>3, SameOrder DEF Kept
    <3>5. [peer |-> p, pc |-> "idle"] \in SessionStates
      BY <3>2 DEF SessionStates
    <3> QED
      BY <1>3, <3>1, <3>3, <3>4, <3>5 DEF Kept, Counted, IndInv, Shapes
  <2> QED
    BY <1>2, <2>1, <2>2
<1>6. recvSig' \in BOOLEAN /\ acceptSig' \in BOOLEAN
  BY <1>2, <1>3, <1>4 DEF IndInv, Shapes
<1>7. Shapes'
  BY <1>2, <1>3, <1>4, <1>5, <1>6 DEF IndInv, Shapes
<1>8. Kept(sock, conn, nr)'
  BY <1>2, <1>4, <1>5 DEF Kept, Counted
<1> QED
  BY <1>7, <1>8 DEF IndInv

(* recv_from takes over what try_recv left behind, and the first datagram of its *)
(* own queue: one that is later than any that was delivered before.              *)
LEMMA TryRecvFromStep ==
    ASSUME IndInv, NEW s \in Sessions, TryRecvFrom(s)
    PROVE  /\ IndInv'
           /\ sess'[s].pc = "idle" => last'[sess[s].peer] > last[sess[s].peer]
           /\ \A t \in Sessions \ {s} : sess'[t] = sess[t]
<1> DEFINE p == sess[s].peer
<1>1. PICK r : r = try_recv
  OBVIOUS
<1> DEFINE q == IF p \in DOMAIN r.conn THEN r.conn[p].rx_queue ELSE <<>>
<1>2. /\ Socket(r) /\ UNCHANGED acceptor
      /\ \/ /\ Goto(s, "closing") /\ conn' = r.conn /\ nr' = r.nr
            /\ UNCHANGED <<recvSig, last>>
         \/ /\ q # <<>> /\ Goto(s, "idle")
            /\ conn' = [r.conn EXCEPT ![p].rx_queue = Tail(q)]
            /\ nr' = r.nr - 1
            /\ recvSig' = (recvSig \/ r.notify \/ nr' > 0)
            /\ last' = [last EXCEPT ![p] = Head(q).no]
         \/ /\ Goto(s, "lock") /\ conn' = r.conn /\ nr' = r.nr
            /\ recvSig' = (recvSig \/ r.notify \/ nr' > 0) /\ UNCHANGED last
  BY <1>1 DEF TryRecvFrom
<1>3. /\ Kept(r.sock, r.conn, r.nr)
      /\ r.ready \in BOOLEAN /\ r.notify \in BOOLEAN /\ r.panic \in BOOLEAN
  BY <1>1, TryRecvKeeps
<1>4. /\ sock' = r.sock /\ ready' = r.ready /\ panicked' = r.panic /\ UNCHANGED <<edge, sent>>
      /\ acceptSig' = (acceptSig \/ r.notify)
  BY <1>2 DEF Socket
<1>5. /\ sess \in [Sessions -> SessionStates] /\ last \in [Peers -> 0..MaxSent]
      /\ \A x \in Peers : last[x] <= sent[x]
      /\ p \in Peers
  BY DEF IndInv, Shapes, SessionStates
<1> HIDE DEF p, q
<1>6. CASE UNCHANGED last /\ conn' = r.conn /\ nr' = r.nr
           /\ \E pc \in {"closing", "lock"} : Goto(s, pc)
           /\ recvSig' \in {recvSig, recvSig \/ r.notify \/ nr' > 0}
  <2>1. Kept(sock, conn, nr)'
    BY <1>3, <1>4, <1>6 DEF Kept, Counted
  <2>2. /\ sess' \in [Sessions -> SessionStates] /\ sess'[s].pc # "idle"
        /\ \A t \in Sessions \ {s} : sess'[t] = sess[t]
    BY <1>5, <1>6, GotoIs
  <2>3. Shapes'
    BY <1>2, <1>3, <1>4, <1>6, <2>2 DEF IndInv, Shapes
  <2> QED
    BY <2>1, <2>2, <2>3 DEF IndInv
<1>7. CASE /\ q # <<>> /\ Goto(s, "idle")
           /\ conn' = [r.conn EXCEPT ![p].rx_queue = Tail(q)]
           /\ nr' = r.nr - 1
           /\ recvSig' = (recvSig \/ r.notify \/ nr' > 0)
           /\ last' = [last EXCEPT ![p] = Head(q).no]
  <2>1. p \in DOMAIN r.conn /\ q = r.conn[p].rx_queue
    BY <1>7 DEF q
  <2>2. /\ r.sock \in Seq(Datagram) /\ Table(r.conn) /\ Ordered(r.sock, r.conn, last, sent)
        /\ r.nr \in Nat /\ r.nr >= Cardinality(Slots(r.conn))
        /\ Cardinality(Slots(r.conn)) \in Nat
    BY <1>3, FS_CardinalityType DEF Kept, Counted, Table
  <2>3. /\ Table(conn') /\ DOMAIN conn' = DOMAIN r.conn
        /\ conn'[p].rx_queue = Tail(r.conn[p].rx_queue)
        /\ \A x \in DOMAIN r.conn \ {p} : conn'[x] = r.conn[x]
        /\ Cardinality(Slots(r.conn)) > 0
        /\ Cardinality(Slots(conn')) = Cardinality(Slots(r.conn)) - 1
    BY <1>7, <2>1, <2>2, PoppedTable
  <2>4. /\ Head(q).no > last[p]
        /\ last' \in [Peers -> 0..MaxSent]
        /\ \A x \in Peers : last'[x] <= sent[x]
        /\ Ordered(r.sock, conn', last', sent)
    <3>1. last' = [last EXCEPT ![p] = Head(r.conn[p].rx_queue).no] /\ r.conn[p].rx_queue # <<>>
      BY <1>7, <2>1
    <3> QED
      BY <1>5, <2>1, <2>2, <2>3, <3>1, PoppedOrder
  <2>5. Counted(conn', nr')
    BY <1>7, <2>2, <2>3 DEF Counted
  <2>6. Kept(sock, conn, nr)'
    BY <1>4, <2>2, <2>3, <2>4, <2>5 DEF Kept, Counted
  <2>7. /\ sess' \in [Sessions -> SessionStates]
        /\ \A t \in Sessions \ {s} : sess'[t] = sess[t]
    BY <1>5, <1>7, GotoIs
  <2>8. Shapes'
    BY <1>2, <1>3, <1>4, <1>7, <2>4, <2>7 DEF IndInv, Shapes
  <2>9. last'[p] > last[p]
    BY <1>5, <1>7, <2>4
  <2> QED
    BY <2>6, <2>7, <2>8, <2>9 DEF IndInv, p
<1> QED
  BY <1>2, <1>6, <1>7

(* disconnect gives back the places that it empties. *)
LEMMA DisconnectStep ==
    ASSUME IndInv, NEW s \in Sessions, Disconnect(s)
    PROVE  IndInv'
<1> DEFINE p == sess[s].peer
           n == Len(QueueOf(p))
<1>1. /\ nr' = (IF n <= nr THEN nr - n ELSE nr) /\ conn' = Without(p)
      /\ panicked' \in BOOLEAN /\ Goto(s, "closed")
      /\ UNCHANGED <<sock, edge, ready, acceptSig, recvSig, acceptor, sent, last>>
  BY DEF Disconnect
<1>2. /\ Table(conn) /\ nr \in Nat /\ nr >= Cardinality(Slots(conn))
      /\ Cardinality(Slots(conn)) \in Nat /\ Ordered(sock, conn, last, sent)
      /\ sock \in Seq(Datagram) /\ sess \in [Sessions -> SessionStates]
  BY FS_CardinalityType DEF IndInv, Kept, Counted, Table, Shapes
<1>3. /\ Table(Without(p)) /\ n \in Nat /\ n <= Cardinality(Slots(conn))
      /\ Cardinality(Slots(Without(p))) = Cardinality(Slots(conn)) - n
  BY <1>2, WithoutTable
<1> HIDE DEF n
<1>4. Counted(conn', nr')
  BY <1>1, <1>2, <1>3 DEF Counted
<1>5. Ordered(sock, conn', last, sent)
  BY <1>1, <1>2, WithoutOrder
<1>6. sess' \in [Sessions -> SessionStates]
  BY <1>1, <1>2, GotoIs
<1> QED
  BY <1>1, <1>2, <1>3, <1>4, <1>5, <1>6 DEF IndInv, Kept, Counted, Shapes

(* The driver, and tasks on their way to the next read. *)
LEMMA OtherSteps ==
    ASSUME IndInv,
           DriverPoll \/ AcceptWake \/ \E s \in Sessions :
               CallRecv(s) \/ LockWatch(s) \/ RecvWake(s) \/ GiveUp(s)
    PROVE  IndInv'
<1>0. Shapes
  BY DEF IndInv
<1>1. CASE DriverPoll
  BY <1>0, <1>1, QuietStep DEF DriverPoll, Shapes
<1>2. CASE AcceptWake
  BY <1>0, <1>2, QuietStep DEF AcceptWake, Shapes
<1>3. ASSUME NEW s \in Sessions, CallRecv(s) \/ LockWatch(s) \/ RecvWake(s) \/ GiveUp(s)
      PROVE  IndInv'
  <2>1. \E pc \in {"lock", "select", "try", "closing"} : Goto(s, pc)
    BY <1>3 DEF CallRecv, LockWatch, RecvWake, GiveUp
  <2>2. sess' \in [Sessions -> SessionStates]
    BY <1>0, <2>1, GotoIs DEF Shapes
  <2>3. /\ recvSig' \in BOOLEAN
        /\ UNCHANGED <<sock, edge, ready, conn, nr, acceptSig, acceptor, sent, last, panicked>>
    BY <1>0, <1>3 DEF CallRecv, LockWatch, RecvWake, GiveUp, Shapes
  <2> QED
    BY <1>0, <2>2, <2>3, QuietStep DEF Shapes
<1> QED
  BY <1>1, <1>2, <1>3

(* Nothing has arrived. *)
LEMMA InitEstablishes ==
    ASSUME Init
    PROVE  IndInv
<1>1. DOMAIN conn = {} /\ sock = <<>>
  BY DEF Init
<1>2. Slots(conn) = {}
  BY <1>1 DEF Slots
<1>3. Table(conn) /\ Cardinality(Slots(conn)) = 0
  BY <1>1, <1>2, FS_EmptySet, ConstAssumption DEF Table
<1>4. Counted(conn, nr)
  BY <1>3 DEF Init, Counted
<1>5. Ordered(sock, conn, last, sent) /\ sock \in Seq(Datagram)
  <2>1. DOMAIN sock = {}
    BY <1>1
  <2> QED
    BY <1>1, <2>1 DEF Ordered
<1>6. [peer |-> CHOOSE p \in Peers : TRUE, pc |-> "closed"] \in SessionStates
  BY ConstAssumption DEF SessionStates
<1>7. sess \in [Sessions -> SessionStates]
  BY <1>6 DEF Init
<1>8. /\ sent \in [Peers -> 0..MaxSent] /\ last \in [Peers -> 0..MaxSent]
      /\ \A p \in Peers : last[p] <= sent[p]
  BY ConstAssumption DEF Init
<1>9. Shapes
  BY <1>7, <1>8 DEF Init, Shapes
<1> QED
  BY <1>3, <1>4, <1>5, <1>9 DEF IndInv, Kept

(* The invariant of the dispatcher, whatever overflows. *)
THEOREM Invariance == Spec => []IndInv
<1>1. Init => IndInv
  BY InitEstablishes
<1>2. IndInv /\ [Next]_vars => IndInv'
  <2> SUFFICES ASSUME IndInv, [Next]_vars PROVE IndInv'
    OBVIOUS
  <2>1. ASSUME NEW p \in Peers, NEW sized \in Sizes, Arrive(p, sized) PROVE IndInv'
    BY <2>1, ArriveStep
  <2>2. CASE DriverPoll
    BY <2>2, OtherSteps
  <2>3. CASE AcceptTask
    BY <2>3, OtherSteps, TryAcceptStep DEF AcceptTask
  <2>4. ASSUME NEW s \in Sessions, Session(s) PROVE IndInv'
    BY <2>4, OtherSteps, TryRecvFromStep, DisconnectStep DEF Session
  <2>5. CASE UNCHANGED vars
    BY <2>5 DEF vars, IndInv, Shapes, Kept, Counted
  <2> QED
    BY <2>1, <2>2, <2>3, <2>4, <2>5 DEF Next
<1> QED
  BY <1>1, <1>2, PTL DEF Spec

-----------------------------------------------------------------------------
(* Types; that nr_queued_dgrams is a natural number says that no decrement of it *)
(* goes below zero.                                                              *)
THEOREM TypeCorrect == Spec => []TypeOK
<1>1. IndInv => TypeOK
  BY DEF IndInv, Shapes, Kept, Table, Counted, TypeOK, SessionStates
<1> QED
  BY <1>1, Invariance, PTL

(* nr_queued_dgrams never falls below what is queued: a task that goes back to   *)
(* sleep while a datagram is queued for another has notified it.                 *)
THEOREM CounterCovers == Spec => []CounterCoversQueues
<1>1. IndInv => CounterCoversQueues
  BY DEF IndInv, Kept, Counted, CounterCoversQueues, TotalQueued
<1> QED
  BY <1>1, Invariance, PTL

(* The limits that try_recv enforces hold for any number of peers and sessions. *)
THEOREM Limits == Spec => []WithinLimits
<1>1. IndInv => WithinLimits
  BY DEF IndInv, Kept, Table, WithinLimits
<1> QED
  BY <1>1, Invariance, PTL

(* Sessions get a peer's datagrams in the order of arrival and none twice, over   *)
(* all sessions that the peer ever has.                                           *)
THEOREM InOrder == Spec => DeliveredInOrder
<1>1. IndInv /\ [Next]_vars =>
        [\A s \in Sessions : sess[s].pc = "try" /\ sess'[s].pc = "idle" =>
            last'[sess[s].peer] > last[sess[s].peer]]_vars
  <2> SUFFICES ASSUME IndInv, Next, NEW s \in Sessions, sess[s].pc = "try", sess'[s].pc = "idle"
               PROVE  last'[sess[s].peer] > last[sess[s].peer]
    OBVIOUS
  <2>1. sess' # sess
    OBVIOUS
  <2>2. sess \in [Sessions -> SessionStates]
    BY DEF IndInv, Shapes
  <2>3. CASE TryAccept
    <3>1. PICK t \in Sessions : sess[t].pc = "closed" /\ \E p :
                 sess' = [sess EXCEPT ![t] = [peer |-> p, pc |-> "idle"]]
      BY <2>1, <2>3 DEF TryAccept
    <3>2. t # s
      BY <3>1
    <3> QED
      BY <2>2, <3>1, <3>2
  <2>4. ASSUME NEW t \in Sessions, Session(t), ~TryRecvFrom(t) PROVE FALSE
    <3>1. \E pc \in {"closed", "lock", "select", "try", "closing"} : Goto(t, pc)
      BY <2>4 DEF Session, CallRecv, LockWatch, RecvWake, GiveUp, Disconnect
    <3> QED
      BY <2>2, <3>1, GotoIs
  <2>5. ASSUME NEW t \in Sessions, TryRecvFrom(t) PROVE last'[sess[s].peer] > last[sess[s].peer]
    <3>1. CASE t = s
      BY <2>5, <3>1, TryRecvFromStep
    <3>2. CASE t # s
      BY <2>5, <3>2, TryRecvFromStep
    <3> QED
      BY <3>1, <3>2
  <2>6. \E t \in Sessions : Session(t) \/ TryAccept
    BY <2>1 DEF Next, Arrive, DriverPoll, AcceptTask, AcceptWake
  <2> QED
    BY <2>3, <2>4, <2>5, <2>6
<1> QED
  BY <1>1, Invariance, PTL DEF Spec, DeliveredInOrder

-----------------------------------------------------------------------------
(* Without overflow. *)

\* Peers have a queue's length of datagrams under way, and fit into the table.
WithoutOverflow ==
    /\ IsFiniteSet(Peers)
    /\ Cardinality(Peers) <= MAX_NR_CONN
    /\ MaxBurst <= Q_SIZE

\* Datagrams of p in a socket buffer.
OnSocket(k, p) == {i \in DOMAIN k : k[i].peer = p}

\* Then no datagram finds its queue full, and the counter is exact.
Exact(k, c, n) ==
    /\ n = Cardinality(Slots(c))
    /\ \A p \in Peers : Length(c, p) + Cardinality(OnSocket(k, p)) <= Q_SIZE

\* The inductive invariant on top of IndInv.
SafeInv == Exact(sock, conn, nr) /\ NoPanic /\ SessionOwnsConn

(* A socket buffer holds finitely many datagrams of each peer. *)
LEMMA OnSocketFinite ==
    ASSUME NEW k \in Seq(Datagram), NEW p
    PROVE  IsFiniteSet(OnSocket(k, p)) /\ Cardinality(OnSocket(k, p)) \in Nat
<1>1. Len(k) \in Nat /\ DOMAIN k = 1..Len(k)
  OBVIOUS
<1>2. IsFiniteSet(1..Len(k))
  BY <1>1, FS_Interval
<1>3. IsFiniteSet(OnSocket(k, p))
  BY <1>1, <1>2, FS_Subset DEF OnSocket
<1> QED
  BY <1>3, FS_CardinalityType

(* An arriving datagram is one more of its peer. *)
LEMMA OnSocketAppend ==
    ASSUME NEW k \in Seq(Datagram), NEW d \in Datagram, NEW p
    PROVE  Cardinality(OnSocket(Append(k, d), p)) =
              IF d.peer = p THEN Cardinality(OnSocket(k, p)) + 1 ELSE Cardinality(OnSocket(k, p))
<1> DEFINE a == Append(k, d)
<1>1. /\ Len(k) \in Nat /\ DOMAIN k = 1..Len(k) /\ DOMAIN a = (1..Len(k)) \cup {Len(k) + 1}
      /\ \A i \in DOMAIN k : a[i] = k[i]
      /\ a[Len(k) + 1] = d
      /\ Len(k) + 1 \notin DOMAIN k
  BY AppendIs
<1> HIDE DEF a
<1>2. CASE d.peer # p
  <2>1. OnSocket(a, p) = OnSocket(k, p)
    BY <1>1, <1>2 DEF OnSocket
  <2> QED
    BY <1>2, <2>1 DEF a
<1>3. CASE d.peer = p
  <2>1. OnSocket(a, p) = OnSocket(k, p) \cup {Len(k) + 1} /\ Len(k) + 1 \notin OnSocket(k, p)
    BY <1>1, <1>3 DEF OnSocket
  <2>2. Cardinality(OnSocket(k, p) \cup {Len(k) + 1}) = Cardinality(OnSocket(k, p)) + 1
    BY <2>1, OnSocketFinite, FS_AddElement
  <2> QED
    BY <1>3, <2>1, <2>2 DEF a
<1> QED
  BY <1>2, <1>3

(* Reading a datagram leaves one less of its peer. *)
LEMMA OnSocketTail ==
    ASSUME NEW k \in Seq(Datagram), k # <<>>, NEW p
    PROVE  /\ Head(k).peer = p => Cardinality(OnSocket(k, p)) > 0
           /\ Cardinality(OnSocket(Tail(k), p)) =
                 IF Head(k).peer = p THEN Cardinality(OnSocket(k, p)) - 1
                                     ELSE Cardinality(OnSocket(k, p))
<1> DEFINE t == Tail(k)
           A == OnSocket(k, p) \ {1}
           B == OnSocket(t, p)
           f == [i \in B |-> i + 1]
<1>1. /\ t \in Seq(Datagram) /\ Len(k) \in Nat /\ Len(k) > 0 /\ DOMAIN k = 1..Len(k)
      /\ DOMAIN t = 1..(Len(k) - 1) /\ Head(k) = k[1]
      /\ \A i \in DOMAIN t : t[i] = k[i + 1]
  BY TailIs
<1>2. 1 \in DOMAIN k /\ \A i \in DOMAIN k : i \in Int
  BY <1>1
<1>3. \A i \in DOMAIN t : i \in Int /\ i + 1 \in DOMAIN k /\ i + 1 # 1
  BY <1>1
<1>4. \A i \in DOMAIN k : i # 1 => i - 1 \in DOMAIN t /\ (i - 1) + 1 = i
  BY <1>1
<1> HIDE DEF t
<1>5. f \in Bijection(B, A)
  <2>1. f \in [B -> A]
    BY <1>1, <1>3 DEF OnSocket
  <2>2. \A i, j \in B : f[i] = f[j] => i = j
    BY <1>3 DEF OnSocket
  <2>3. \A x \in A : \E i \in B : f[i] = x
    <3> SUFFICES ASSUME NEW x \in A PROVE \E i \in B : f[i] = x
      OBVIOUS
    <3>1. x \in DOMAIN k /\ x # 1 /\ k[x].peer = p
      BY DEF OnSocket
    <3>2. x - 1 \in DOMAIN t /\ (x - 1) + 1 = x /\ t[x - 1] = k[x]
      BY <1>1, <1>4, <3>1
    <3>3. x - 1 \in B
      BY <3>1, <3>2 DEF OnSocket
    <3> QED
      BY <3>2, <3>3
  <2> HIDE DEF f, A, B
  <2> QED
    BY <2>1, <2>2, <2>3 DEF Bijection, Injection, Surjection, IsInjective
<1>6. IsFiniteSet(B)
  BY <1>1, OnSocketFinite
<1> HIDE DEF f, A, B
<1>7. Cardinality(A) = Cardinality(B)
  BY <1>5, <1>6, FS_Bijection DEF ExistsBijection
<1>8. IsFiniteSet(OnSocket(k, p)) /\ Cardinality(OnSocket(k, p)) \in Nat
  BY OnSocketFinite
<1>9. Cardinality(A) = IF 1 \in OnSocket(k, p) THEN Cardinality(OnSocket(k, p)) - 1
                                               ELSE Cardinality(OnSocket(k, p))
  BY <1>8, FS_RemoveElement DEF A
<1>10. 1 \in OnSocket(k, p) <=> Head(k).peer = p
  BY <1>1, <1>2 DEF OnSocket
<1>11. 1 \in OnSocket(k, p) => Cardinality(OnSocket(k, p)) # 0
  BY <1>8, FS_EmptySet
<1> QED
  BY <1>7, <1>8, <1>9, <1>10, <1>11 DEF B, t

(* The places of all queues are at most what the limits allow. *)
LEMMA SlotsBound ==
    ASSUME NEW c, Table(c)
    PROVE  Cardinality(Slots(c)) <= MAX_NR_CONN * Q_SIZE
<1> DEFINE n == Cardinality(DOMAIN c)
           all == (DOMAIN c) \X (1..Q_SIZE)
<1>1. IsFiniteSet(DOMAIN c) /\ n \in Nat /\ n <= MAX_NR_CONN
  BY FS_CardinalityType DEF Table
<1>2. IsFiniteSet(1..Q_SIZE) /\ Cardinality(1..Q_SIZE) = Q_SIZE
  BY FS_Interval, ConstAssumption
<1>3. IsFiniteSet(all) /\ Cardinality(all) = n * Q_SIZE
  BY <1>1, <1>2, FS_Product
<1>4. Slots(c) \subseteq all
  <2> SUFFICES ASSUME NEW x \in Slots(c) PROVE x \in all
    OBVIOUS
  <2>1. PICK p \in DOMAIN c : \E i \in DOMAIN c[p].rx_queue : x = <<p, i>>
    BY SlotsAre
  <2>2. PICK i \in DOMAIN c[p].rx_queue : x = <<p, i>>
    BY <2>1
  <2>3. DOMAIN c[p].rx_queue = 1..Length(c, p) /\ Length(c, p) \in Nat /\ Length(c, p) <= Q_SIZE
    BY PlacesAre DEF Table, Length
  <2>4. i \in 1..Q_SIZE
    BY <2>2, <2>3, ConstAssumption
  <2> QED
    BY <2>2, <2>4
<1>5. Cardinality(Slots(c)) <= n * Q_SIZE
  BY <1>3, <1>4, FS_Subset
<1>6. Cardinality(Slots(c)) \in Nat
  BY FS_CardinalityType DEF Table
<1> HIDE DEF n
<1>7. n * Q_SIZE <= MAX_NR_CONN * Q_SIZE
  BY <1>1, ConstAssumption
<1>8. n * Q_SIZE \in Nat /\ MAX_NR_CONN * Q_SIZE \in Nat
  BY <1>1, ConstAssumption
<1> QED
  BY <1>5, <1>6, <1>7, <1>8

(* try_recv without overflow: the counter stays exact, the assertion on it holds, *)
(* and no connection is removed or changes hands.                                 *)
LEMMA TryRecvExact ==
    ASSUME WithoutOverflow, IndInv, Exact(sock, conn, nr), NEW r, r = try_recv
    PROVE  /\ Exact(r.sock, r.conn, r.nr)
           /\ r.panic = FALSE
           /\ DOMAIN conn \subseteq DOMAIN r.conn
           /\ \A x \in DOMAIN conn : r.conn[x].accepted = conn[x].accepted
<1> DEFINE d == Head(sock)
           p == d.peer
<1>0. /\ sock \in Seq(Datagram) /\ Table(conn) /\ ready \in BOOLEAN
      /\ nr = Cardinality(Slots(conn)) /\ nr \in Nat
  BY DEF IndInv, Kept, Counted, Shapes, Exact
<1>1. ASSUME sock # <<>> PROVE d \in Datagram /\ p \in Peers
  <2>1. d \in Datagram
    BY <1>0, <1>1, TailIs
  <2> QED
    BY <2>1 DEF Datagram
<1>2. \A x \in Peers : Length(conn, x) \in Nat /\ Cardinality(OnSocket(sock, x)) \in Nat
  BY <1>0, PlacesAre, OnSocketFinite DEF Length
<1>3. CASE Blocked(r)
  BY <1>0, <1>3 DEF Blocked, Exact
<1>4. CASE Dropped(r)
  <2>1. \A x \in Peers : Cardinality(OnSocket(Tail(sock), x)) <= Cardinality(OnSocket(sock, x))
                         /\ Cardinality(OnSocket(Tail(sock), x)) \in Nat
    BY <1>0, <1>2, <1>4, OnSocketTail, OnSocketFinite, TailIs DEF Dropped
  <2>2. \A x \in Peers : Length(conn, x) + Cardinality(OnSocket(Tail(sock), x)) <= Q_SIZE
    BY <1>2, <2>1, ConstAssumption DEF Exact
  <2> QED
    BY <1>0, <1>4, <2>2 DEF Dropped, Exact
<1>5. CASE Overflown(r)
  <2>1. p \in Peers /\ Cardinality(OnSocket(sock, p)) > 0
    BY <1>0, <1>1, <1>5, OnSocketTail DEF Overflown
  <2>2. Length(conn, p) = Q_SIZE
    BY <1>0, <1>5, WithoutTable DEF Overflown
  <2>3. Length(conn, p) + Cardinality(OnSocket(sock, p)) <= Q_SIZE
    BY <2>1 DEF Exact
  <2> QED
    BY <1>2, <2>1, <2>2, <2>3, ConstAssumption
<1>6. CASE Filed(r)
  <2>1. PICK acc \in BOOLEAN :
          /\ acc = (p \in DOMAIN conn /\ conn[p].accepted)
          /\ r.conn = Pushed(d, acc) /\ r.sock = Tail(sock) /\ r.nr = nr + 1
          /\ r.panic = (nr + 1 > MAX_NR_CONN * Q_SIZE)
          /\ sock # <<>> /\ Len(QueueOf(p)) # Q_SIZE
          /\ p \in DOMAIN conn \/ Cardinality(DOMAIN conn) # MAX_NR_CONN
    <3> DEFINE acc == p \in DOMAIN conn /\ conn[p].accepted
    <3>1. acc \in BOOLEAN
      BY <1>0 DEF Table, Conn
    <3>2. /\ r.conn = Pushed(d, acc) /\ r.sock = Tail(sock) /\ r.nr = nr + 1
          /\ r.panic = (nr + 1 > MAX_NR_CONN * Q_SIZE)
          /\ sock # <<>> /\ Len(QueueOf(p)) # Q_SIZE
          /\ p \in DOMAIN conn \/ Cardinality(DOMAIN conn) # MAX_NR_CONN
      BY <1>6 DEF Filed
    <3>3. acc = (p \in DOMAIN conn /\ conn[p].accepted)
      OBVIOUS
    <3> HIDE DEF acc
    <3> QED
      BY <3>1, <3>2, <3>3
  <2>2. d \in Datagram /\ p \in Peers
    BY <1>1, <2>1
  <2>3. Table(r.conn) /\ Cardinality(Slots(r.conn)) = Cardinality(Slots(conn)) + 1
    BY <1>0, <2>1, <2>2, PushedTable
  <2>4. r.nr = Cardinality(Slots(r.conn))
    BY <1>0, <2>1, <2>3
  <2>5. r.panic = FALSE
    <3>1. nr + 1 <= MAX_NR_CONN * Q_SIZE
      BY <2>1, <2>3, <2>4, SlotsBound
    <3>2. MAX_NR_CONN * Q_SIZE \in Nat
      BY ConstAssumption
    <3>3. (nr + 1 > MAX_NR_CONN * Q_SIZE) = FALSE
      BY <1>0, <3>1, <3>2
    <3> QED
      BY <2>1, <3>3
  <2>6. /\ DOMAIN r.conn = DOMAIN conn \cup {p}
        /\ r.conn[p] = [rx_queue |-> Append(QueueOf(p), d), accepted |-> acc]
        /\ \A x \in DOMAIN conn \ {p} : r.conn[x] = conn[x]
    BY <2>1 DEF Pushed
  <2>7. \A x \in DOMAIN conn : r.conn[x].accepted = conn[x].accepted
    <3>1. p \in DOMAIN conn => conn[p].accepted \in BOOLEAN
      BY <1>0 DEF Table, Conn
    <3> QED
      BY <2>1, <2>6, <3>1
  <2>8. Length(r.conn, p) = Length(conn, p) + 1
        /\ \A x \in Peers \ {p} : Length(r.conn, x) = Length(conn, x)
    <3>1. QueueOf(p) \in Seq(Datagram) /\ Len(QueueOf(p)) = Length(conn, p)
      BY <1>0 DEF QueueOf, Length, Table, Conn
    <3>2. Len(Append(QueueOf(p), d)) = Len(QueueOf(p)) + 1
      BY <2>2, <3>1, AppendIs
    <3> QED
      BY <2>6, <3>1, <3>2 DEF Length
  <2>9. \A x \in Peers : Length(r.conn, x) + Cardinality(OnSocket(r.sock, x)) <= Q_SIZE
    <3> SUFFICES ASSUME NEW x \in Peers
                 PROVE  Length(r.conn, x) + Cardinality(OnSocket(Tail(sock), x)) <= Q_SIZE
      BY <2>1
    <3>1. Length(conn, x) + Cardinality(OnSocket(sock, x)) <= Q_SIZE
      BY DEF Exact
    <3>2. Cardinality(OnSocket(Tail(sock), x)) = IF p = x THEN Cardinality(OnSocket(sock, x)) - 1
                                                       ELSE Cardinality(OnSocket(sock, x))
      BY <1>0, <2>1, OnSocketTail
    <3> QED
      BY <1>2, <2>8, <3>1, <3>2, ConstAssumption
  <2> QED
    BY <2>4, <2>5, <2>6, <2>7, <2>9 DEF Exact
<1> QED
  BY <1>0, <1>3, <1>4, <1>5, <1>6, TryRecvCases

(* A datagram arrives only if its queue will have room for it. *)
LEMMA ArriveSafe ==
    ASSUME WithoutOverflow, IndInv, SafeInv,
           NEW p \in Peers, NEW sized \in Sizes, Arrive(p, sized)
    PROVE  SafeInv'
<1> DEFINE d == [peer |-> p, no |-> sent[p] + 1, sized |-> sized]
<1>1. /\ sock \in Seq(Datagram) /\ Table(conn) /\ sent[p] + 1 \in 1..MaxSent
      /\ sock' = Append(sock, d)
      /\ UNCHANGED <<conn, nr, sess, panicked>>
  BY ConstAssumption DEF IndInv, Kept, Shapes, Arrive
<1>2. d \in Datagram
  BY <1>1 DEF Datagram
<1>3. \A x \in Peers : Length(conn, x) \in Nat /\ Cardinality(OnSocket(sock, x)) \in Nat
  BY <1>1, PlacesAre, OnSocketFinite DEF Length
<1>4. Length(conn, p) + Cardinality(OnSocket(sock, p)) < Q_SIZE
  <2>1. Length(conn, p) + Cardinality(OnSocket(sock, p)) = Outstanding(p)
    BY DEF Length, OnSocket, Outstanding, QueueOf
  <2>2. Outstanding(p) < MaxBurst /\ MaxBurst <= Q_SIZE
    BY DEF Arrive, WithoutOverflow
  <2> QED
    BY <1>3, <2>1, <2>2, ConstAssumption
<1>5. \A x \in Peers : Length(conn, x) + Cardinality(OnSocket(sock', x)) <= Q_SIZE
  <2> SUFFICES ASSUME NEW x \in Peers
               PROVE  Length(conn, x) + Cardinality(OnSocket(sock', x)) <= Q_SIZE
    OBVIOUS
  <2>1. Cardinality(OnSocket(sock', x)) = IF p = x THEN Cardinality(OnSocket(sock, x)) + 1
                                                  ELSE Cardinality(OnSocket(sock, x))
    BY <1>1, <1>2, OnSocketAppend
  <2>2. Length(conn, x) + Cardinality(OnSocket(sock, x)) <= Q_SIZE
    BY DEF SafeInv, Exact
  <2> QED
    BY <1>3, <1>4, <2>1, <2>2, ConstAssumption
<1>6. Exact(sock', conn', nr')
  BY <1>1, <1>5 DEF SafeInv, Exact, Length
<1> QED
  BY <1>1, <1>6 DEF SafeInv, Exact, NoPanic, SessionOwnsConn, Length

(* accept hands a connection to one session, and only one that has no session. *)
LEMMA TryAcceptSafe ==
    ASSUME WithoutOverflow, IndInv, SafeInv, TryAccept
    PROVE  SafeInv'
<1>1. PICK r : r = try_recv
  OBVIOUS
<1>2. /\ sock' = r.sock /\ panicked' = r.panic /\ nr' = r.nr
      /\ \/ conn' = r.conn /\ UNCHANGED sess
         \/ \E p \in Unaccepted(r.conn), s \in Sessions :
               /\ sess[s].pc = "closed"
               /\ conn' = [r.conn EXCEPT ![p].accepted = TRUE]
               /\ sess' = [sess EXCEPT ![s] = [peer |-> p, pc |-> "idle"]]
  BY <1>1 DEF TryAccept, Socket
<1>3. /\ Exact(r.sock, r.conn, r.nr) /\ r.panic = FALSE
      /\ DOMAIN conn \subseteq DOMAIN r.conn
      /\ \A x \in DOMAIN conn : r.conn[x].accepted = conn[x].accepted
  BY <1>1, TryRecvExact DEF SafeInv
<1>4. Table(r.conn) /\ sess \in [Sessions -> SessionStates]
  BY <1>1, TryRecvKeeps DEF Kept, IndInv, Shapes
<1>5. /\ \A s \in Sessions : sess[s].pc # "closed" =>
            sess[s].peer \in DOMAIN r.conn /\ r.conn[sess[s].peer].accepted
      /\ \A s, t \in Sessions : (s # t /\ sess[s].pc # "closed" /\ sess[t].pc # "closed")
                                => sess[s].peer # sess[t].peer
  BY <1>3 DEF SafeInv, SessionOwnsConn
<1>6. CASE conn' = r.conn /\ UNCHANGED sess
  BY <1>2, <1>3, <1>5, <1>6 DEF SafeInv, Exact, Length, NoPanic, SessionOwnsConn
<1>7. ASSUME NEW p \in Unaccepted(r.conn), NEW s \in Sessions, sess[s].pc = "closed",
             conn' = [r.conn EXCEPT ![p].accepted = TRUE],
             sess' = [sess EXCEPT ![s] = [peer |-> p, pc |-> "idle"]]
      PROVE  SafeInv'
  <2>1. p \in DOMAIN r.conn /\ ~r.conn[p].accepted
    BY DEF Unaccepted
  <2>2. /\ DOMAIN conn' = DOMAIN r.conn
        /\ \A x \in DOMAIN r.conn : conn'[x].rx_queue = r.conn[x].rx_queue
        /\ conn'[p].accepted
        /\ \A x \in DOMAIN r.conn \ {p} : conn'[x] = r.conn[x]
        /\ Slots(conn') = Slots(r.conn)
    BY <1>4, <1>7, <2>1, AcceptedTable
  <2>3. Exact(sock, conn, nr)'
    BY <1>2, <1>3, <2>2 DEF Exact, Length
  <2>4. /\ sess'[s].peer = p /\ sess'[s].pc = "idle"
        /\ \A t \in Sessions \ {s} : sess'[t] = sess[t]
    BY <1>4, <1>7
  <2>5. \A t \in Sessions : sess[t].pc # "closed" => sess[t].peer # p /\ t # s
    BY <1>5, <1>7, <2>1
  <2>6. SessionOwnsConn'
    BY <1>5, <2>1, <2>2, <2>4, <2>5 DEF SessionOwnsConn
  <2> QED
    BY <1>2, <1>3, <2>3, <2>6 DEF SafeInv, NoPanic
<1> QED
  BY <1>2, <1>6, <1>7

(* recv_from. *)
LEMMA TryRecvFromSafe ==
    ASSUME WithoutOverflow, IndInv, SafeInv, NEW s \in Sessions, TryRecvFrom(s)
    PROVE  SafeInv'
<1> DEFINE p == sess[s].peer
<1>1. PICK r : r = try_recv
  OBVIOUS
<1> DEFINE q == IF p \in DOMAIN r.conn THEN r.conn[p].rx_queue ELSE <<>>
<1>2. /\ sock' = r.sock /\ panicked' = r.panic /\ sess[s].pc = "try"
      /\ \/ /\ \E pc \in {"closing", "lock"} : Goto(s, pc)
            /\ conn' = r.conn /\ nr' = r.nr
         \/ /\ q # <<>> /\ Goto(s, "idle")
            /\ conn' = [r.conn EXCEPT ![p].rx_queue = Tail(q)]
            /\ nr' = r.nr - 1
  BY <1>1 DEF TryRecvFrom, Socket
<1>3. /\ Exact(r.sock, r.conn, r.nr) /\ r.panic = FALSE
      /\ DOMAIN conn \subseteq DOMAIN r.conn
      /\ \A x \in DOMAIN conn : r.conn[x].accepted = conn[x].accepted
  BY <1>1, TryRecvExact DEF SafeInv
<1>4. Table(r.conn) /\ r.sock \in Seq(Datagram) /\ sess \in [Sessions -> SessionStates]
  BY <1>1, TryRecvKeeps DEF Kept, IndInv, Shapes
<1> HIDE DEF p, q
<1>5. /\ \A t \in Sessions : sess'[t].peer = sess[t].peer
      /\ \A t \in Sessions : sess'[t].pc # "closed" => sess[t].pc # "closed"
  <2>1. \E pc \in {"closing", "lock", "idle"} : Goto(s, pc)
    BY <1>2
  <2> QED
    BY <1>2, <1>4, <2>1, GotoIs
<1>6. CASE conn' = r.conn /\ nr' = r.nr
  <2>1. Exact(sock, conn, nr)'
    BY <1>2, <1>3, <1>6 DEF Exact, Length
  <2>2. SessionOwnsConn'
    BY <1>3, <1>5, <1>6 DEF SafeInv, SessionOwnsConn
  <2> QED
    BY <1>2, <1>3, <2>1, <2>2 DEF SafeInv, NoPanic
<1>7. CASE q # <<>> /\ conn' = [r.conn EXCEPT ![p].rx_queue = Tail(q)] /\ nr' = r.nr - 1
  <2>1. p \in DOMAIN r.conn /\ q = r.conn[p].rx_queue
    BY <1>7 DEF q
  <2>2. /\ DOMAIN conn' = DOMAIN r.conn
        /\ conn'[p].rx_queue = Tail(q) /\ conn'[p].accepted = r.conn[p].accepted
        /\ \A x \in DOMAIN r.conn \ {p} : conn'[x] = r.conn[x]
        /\ Cardinality(Slots(conn')) = Cardinality(Slots(r.conn)) - 1
    <3>1. conn' = [r.conn EXCEPT ![p].rx_queue = Tail(r.conn[p].rx_queue)]
          /\ r.conn[p].rx_queue # <<>>
      BY <1>7, <2>1
    <3> QED
      BY <1>4, <2>1, <3>1, PoppedTable
  <2>3. q \in Seq(Datagram) /\ p \in Peers
    BY <1>4, <2>1 DEF Table, Conn
  <2>4. Len(Tail(q)) = Len(q) - 1 /\ Len(q) \in Nat
    BY <1>7, <2>3, TailIs
  <2>5. \A x \in Peers : Length(r.conn, x) \in Nat /\ Cardinality(OnSocket(r.sock, x)) \in Nat
    BY <1>4, PlacesAre, OnSocketFinite DEF Length
  <2>6. Length(conn', p) = Length(r.conn, p) - 1
        /\ \A x \in Peers \ {p} : Length(conn', x) = Length(r.conn, x)
    BY <2>1, <2>2, <2>4 DEF Length
  <2>7. \A x \in Peers : Length(conn', x) + Cardinality(OnSocket(r.sock, x)) <= Q_SIZE
    <3>1. \A x \in Peers : Length(r.conn, x) + Cardinality(OnSocket(r.sock, x)) <= Q_SIZE
      BY <1>3 DEF Exact
    <3> QED
      BY <2>5, <2>6, <3>1, ConstAssumption
  <2>8. Exact(sock, conn, nr)'
    BY <1>2, <1>3, <1>7, <2>2, <2>7 DEF Exact, Length
  <2>9. \A x \in DOMAIN r.conn : conn'[x].accepted = r.conn[x].accepted
    BY <2>2
  <2>10. SessionOwnsConn'
    BY <1>3, <1>5, <2>2, <2>9 DEF SafeInv, SessionOwnsConn
  <2> QED
    BY <1>2, <1>3, <2>8, <2>10 DEF SafeInv, NoPanic
<1> QED
  BY <1>2, <1>6, <1>7

(* disconnect: the counter returns to zero with the last connection. *)
LEMMA DisconnectSafe ==
    ASSUME IndInv, SafeInv, NEW s \in Sessions, Disconnect(s)
    PROVE  SafeInv'
<1> DEFINE p == sess[s].peer
           n == Len(QueueOf(p))
<1>1. /\ nr' = (IF n <= nr THEN nr - n ELSE nr) /\ conn' = Without(p)
      /\ panicked' = (n > nr \/ (DOMAIN conn' = {} /\ nr' # 0))
      /\ Goto(s, "closed") /\ UNCHANGED sock /\ sess[s].pc = "closing"
  BY DEF Disconnect
<1>2. /\ Table(conn) /\ nr \in Nat /\ nr = Cardinality(Slots(conn))
      /\ sock \in Seq(Datagram) /\ sess \in [Sessions -> SessionStates]
  BY DEF IndInv, Kept, Counted, Shapes, SafeInv, Exact
<1>3. /\ n \in Nat /\ n <= Cardinality(Slots(conn)) /\ n = Length(conn, p)
      /\ Cardinality(Slots(Without(p))) = Cardinality(Slots(conn)) - n
  BY <1>2, WithoutTable
<1>4. DOMAIN Without(p) = DOMAIN conn \ {p} /\ \A x \in DOMAIN Without(p) : Without(p)[x] = conn[x]
  BY DEF Without
<1> HIDE DEF n, p
<1>5. nr' = Cardinality(Slots(conn')) /\ ~(n > nr)
  BY <1>1, <1>2, <1>3
<1>6. DOMAIN conn' = {} => nr' = 0
  <2> SUFFICES ASSUME DOMAIN conn' = {} PROVE Cardinality(Slots(conn')) = 0
    BY <1>5
  <2>1. Slots(conn') = {}
    BY SlotsAre
  <2> QED
    BY <2>1, FS_EmptySet
<1>7. \A x \in Peers : Length(conn', x) + Cardinality(OnSocket(sock, x)) <= Q_SIZE
  <2>1. \A x \in Peers : Length(conn, x) \in Nat /\ Cardinality(OnSocket(sock, x)) \in Nat
                         /\ Length(conn, x) + Cardinality(OnSocket(sock, x)) <= Q_SIZE
    BY <1>2, PlacesAre, OnSocketFinite DEF Length, SafeInv, Exact
  <2>2. \A x \in Peers : Length(conn', x) = 0 \/ Length(conn', x) = Length(conn, x)
    BY <1>1, <1>4 DEF Length
  <2> QED
    BY <2>1, <2>2, ConstAssumption
<1>8. Exact(sock, conn, nr)'
  BY <1>1, <1>5, <1>7 DEF Exact, Length
<1>9. NoPanic'
  BY <1>1, <1>5, <1>6 DEF NoPanic
<1>10. SessionOwnsConn'
  <2>1. sess'[s].pc = "closed" /\ \A t \in Sessions \ {s} : sess'[t] = sess[t]
    BY <1>1, <1>2, GotoIs
  <2>2. \A t \in Sessions \ {s} : sess[t].pc # "closed" => sess[t].peer # p
    BY <1>1 DEF SafeInv, SessionOwnsConn, p
  <2> QED
    BY <1>1, <1>4, <2>1, <2>2 DEF SafeInv, SessionOwnsConn
<1> QED
  BY <1>8, <1>9, <1>10 DEF SafeInv

(* Steps that touch no connection. *)
LEMMA OtherSafe ==
    ASSUME IndInv, SafeInv,
           DriverPoll \/ AcceptWake \/ (\E s \in Sessions :
               CallRecv(s) \/ LockWatch(s) \/ RecvWake(s) \/ GiveUp(s)) \/ UNCHANGED vars
    PROVE  SafeInv'
<1>1. UNCHANGED <<sock, conn, nr, panicked>>
  BY DEF DriverPoll, AcceptWake, CallRecv, LockWatch, RecvWake, GiveUp, vars
<1>2. \A t \in Sessions : sess'[t].peer = sess[t].peer
                          /\ (sess'[t].pc # "closed" => sess[t].pc # "closed")
  <2>1. CASE sess' = sess
    BY <2>1
  <2>2. ASSUME NEW s \in Sessions, CallRecv(s) \/ LockWatch(s) \/ RecvWake(s) \/ GiveUp(s)
        PROVE  \A t \in Sessions : sess'[t].peer = sess[t].peer
                          /\ (sess'[t].pc # "closed" => sess[t].pc # "closed")
    <3>1. \E pc \in {"lock", "select", "try", "closing"} : Goto(s, pc)
      BY <2>2 DEF CallRecv, LockWatch, RecvWake, GiveUp
    <3>2. sess[s].pc # "closed" /\ sess \in [Sessions -> SessionStates]
      BY <2>2 DEF CallRecv, LockWatch, RecvWake, GiveUp, IndInv, Shapes
    <3> QED
      BY <3>1, <3>2, GotoIs
  <2> QED
    BY <2>1, <2>2 DEF DriverPoll, AcceptWake, vars
<1> QED
  BY <1>1, <1>2 DEF SafeInv, Exact, Length, NoPanic, SessionOwnsConn

(* Without overflow, the invariant of accept, recv_from and disconnect together. *)
THEOREM SafeInvariance == WithoutOverflow => (Spec => []SafeInv)
<1> SUFFICES ASSUME WithoutOverflow PROVE Spec => []SafeInv
  OBVIOUS
<1>1. Init => SafeInv
  <2> SUFFICES ASSUME Init PROVE SafeInv
    OBVIOUS
  <2>1. DOMAIN conn = {} /\ sock = <<>> /\ nr = 0 /\ panicked = FALSE
        /\ \A s \in Sessions : sess[s].pc = "closed"
    BY DEF Init
  <2>2. Slots(conn) = {} /\ \A p \in Peers : OnSocket(sock, p) = {} /\ Length(conn, p) = 0
    BY <2>1, SlotsAre DEF OnSocket, Length
  <2>3. Exact(sock, conn, nr)
    <3>1. Cardinality({}) = 0 /\ 0 + 0 <= Q_SIZE
      BY FS_EmptySet, ConstAssumption
    <3> QED
      BY <2>1, <2>2, <3>1 DEF Exact
  <2> QED
    BY <2>1, <2>3 DEF SafeInv, NoPanic, SessionOwnsConn
<1>2. IndInv /\ SafeInv /\ [Next]_vars => SafeInv'
  BY ArriveSafe, TryAcceptSafe, TryRecvFromSafe, DisconnectSafe, OtherSafe
     DEF Next, AcceptTask, Session
<1> QED
  BY <1>1, <1>2, Invariance, PTL DEF Spec

(* As long as no queue and no table overflows, no assertion of the dispatcher     *)
(* fails, and nr_queued_dgrams does not underflow.                                *)
THEOREM PanicFree == WithoutOverflow => (Spec => []NoPanic)
<1>1. SafeInv => NoPanic
  BY DEF SafeInv
<1> QED
  BY <1>1, SafeInvariance, PTL

(* And every live session has a connection of its own.                            *)
THEOREM OwnedConnections == WithoutOverflow => (Spec => []SessionOwnsConn)
<1>1. SafeInv => SessionOwnsConn
  BY DEF SafeInv
<1> QED
  BY <1>1, SafeInvariance, PTL
=============================================================================
