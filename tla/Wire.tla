-------------------------------- MODULE Wire --------------------------------
(***************************************************************************)
(* The two message formats and how a message of fixed size crosses a byte  *)
(* stream: letmein-fwproto (letmeind to letmeinfwd, unix socket) and       *)
(* letmein-proto (client to letmeind, TCP).  Operators only; Daemons uses  *)
(* them.  Bytes are numbers below 256, a buffer is a sequence of bytes,    *)
(* and an address is a record of its type and its octets.                  *)
(***************************************************************************)
EXTENDS Naturals, Sequences

Byte == 0..255

\* What a parser returns for bytes it refuses.
Refused == [operation |-> "invalid"]

\* The numbers of type u16 and u32.
U16 == {v \in Nat : v < 65536}
U32 == {v \in Nat : v \div 65536 < 65536}

\* Big endian, whatever the host.
serialize_u16(value) == <<value \div 256, value % 256>>
serialize_u32(value) == serialize_u16(value \div 65536) \o serialize_u16(value % 65536)

deserialize_u16(bytes) == 256 * bytes[1] + bytes[2]
deserialize_u32(bytes) ==
    65536 * deserialize_u16(<<bytes[1], bytes[2]>>) + deserialize_u16(<<bytes[3], bytes[4]>>)

\* buf[offs..offs + Len(bytes)].copy_from_slice(bytes)
Put(buf, offs, bytes) ==
    [i \in DOMAIN buf |-> IF i \in (offs + 1)..(offs + Len(bytes))
                          THEN bytes[i - offs] ELSE buf[i]]

\* buf[offs..offs + n]
Slice(buf, offs, n) == SubSeq(buf, offs + 1, offs + n)

Zeros(n) == [i \in 1..n |-> 0]

\* A repr(u16) or repr(u32) enum as the sequence of its variants: the number of
\* a variant is its place, and try_from refuses all other numbers.
NumberOf(enum, variant) == (CHOOSE i \in DOMAIN enum : enum[i] = variant) - 1
TryFrom(enum, value)    == IF value < Len(enum) THEN enum[value + 1] ELSE "invalid"
Variants(enum)          == {enum[i] : i \in DOMAIN enum}

-----------------------------------------------------------------------------
(***************************************************************************)
(* letmein-fwproto: FirewallMessage.                                       *)
(***************************************************************************)
FirewallOperation == <<"Nack", "Ack", "Open", "Close">>
PortType          == <<"Tcp", "Udp", "TcpUdp">>
AddrType          == <<"Ipv6", "Ipv4">>

ADDR_SIZE  == 16
FWMSG_SIZE == 8 + ADDR_SIZE
FWMSG_OFFS == [operation |-> 0, port_type |-> 2, port |-> 4, addr_type |-> 6, addr |-> 8]

\* std::net::IpAddr.
IpAddr == [type : {"Ipv4"}, octets : [1..4 -> Byte]]
              \cup [type : {"Ipv6"}, octets : [1..ADDR_SIZE -> Byte]]

\* An IPv4 address is right-aligned in the 16 octets of the message.
addr_to_octets(addr) ==
    IF addr.type = "Ipv4" THEN Zeros(ADDR_SIZE - 4) \o addr.octets ELSE addr.octets

octets_to_addr(type, octets) ==
    [type |-> type, octets |-> IF type = "Ipv4" THEN Slice(octets, 12, 4) ELSE octets]

Unspecified == [type |-> "Ipv6", octets |-> Zeros(ADDR_SIZE)]

\* new_open and new_close; Ack and Nack carry the defaults of the other fields.
FirewallMessage(operation, addr, port_type, port) ==
    [operation |-> operation, port_type |-> port_type, port |-> port, addr |-> addr]

Answer(operation) == FirewallMessage(operation, Unspecified, "Tcp", 0)

fw_serialize(m) ==
    LET b1 == Put(Zeros(FWMSG_SIZE), FWMSG_OFFS.operation,
                  serialize_u16(NumberOf(FirewallOperation, m.operation)))
        b2 == Put(b1, FWMSG_OFFS.port_type, serialize_u16(NumberOf(PortType, m.port_type)))
        b3 == Put(b2, FWMSG_OFFS.port, serialize_u16(m.port))
        b4 == Put(b3, FWMSG_OFFS.addr_type, serialize_u16(NumberOf(AddrType, m.addr.type)))
    IN  Put(b4, FWMSG_OFFS.addr, addr_to_octets(m.addr))

fw_deserialize(buf) ==
    LET u16(offs)  == deserialize_u16(Slice(buf, offs, 2))
        operation  == TryFrom(FirewallOperation, u16(FWMSG_OFFS.operation))
        port_type  == TryFrom(PortType, u16(FWMSG_OFFS.port_type))
        addr_type  == TryFrom(AddrType, u16(FWMSG_OFFS.addr_type))
        addr       == Slice(buf, FWMSG_OFFS.addr, ADDR_SIZE)
    IN  IF \/ Len(buf) # FWMSG_SIZE
           \/ "invalid" \in {operation, port_type, addr_type}
        THEN Refused
        ELSE FirewallMessage(operation, octets_to_addr(addr_type, addr), port_type,
                             u16(FWMSG_OFFS.port))

-----------------------------------------------------------------------------
(***************************************************************************)
(* letmein-proto: Message. Salt and authentication token are opaque bytes  *)
(* here; what they prove is the subject of Protocol.                       *)
(***************************************************************************)
Operation == <<"Knock", "Challenge", "Response", "ComeIn", "GoAway", "Close">>

MAGIC     == 991672089
SALT_SIZE == 8
AUTH_SIZE == 32
MSG_SIZE  == 16 + SALT_SIZE + AUTH_SIZE
MSG_OFFS  == [magic |-> 0, operation |-> 4, user |-> 8, resource |-> 12, salt |-> 16, auth |-> 24]

Message == [magic : U32, operation : Variants(Operation), user : U32, resource : U32,
            salt : [1..SALT_SIZE -> Byte], auth : [1..AUTH_SIZE -> Byte]]

msg_serialize(m) ==
    LET b1 == Put(Zeros(MSG_SIZE), MSG_OFFS.magic, serialize_u32(m.magic))
        b2 == Put(b1, MSG_OFFS.operation, serialize_u32(NumberOf(Operation, m.operation)))
        b3 == Put(b2, MSG_OFFS.user, serialize_u32(m.user))
        b4 == Put(b3, MSG_OFFS.resource, serialize_u32(m.resource))
        b5 == Put(b4, MSG_OFFS.salt, m.salt)
    IN  Put(b5, MSG_OFFS.auth, m.auth)

msg_deserialize(buf) ==
    LET u32(offs)  == deserialize_u32(Slice(buf, offs, 4))
        operation  == TryFrom(Operation, u32(MSG_OFFS.operation))
    IN  IF \/ Len(buf) # MSG_SIZE
           \/ u32(MSG_OFFS.magic) # MAGIC
           \/ operation = "invalid"
        THEN Refused
        ELSE [magic |-> MAGIC, operation |-> operation, user |-> u32(MSG_OFFS.user),
              resource |-> u32(MSG_OFFS.resource), salt |-> Slice(buf, MSG_OFFS.salt, SALT_SIZE),
              auth |-> Slice(buf, MSG_OFFS.auth, AUTH_SIZE)]

-----------------------------------------------------------------------------
(***************************************************************************)
(* Piecemeal transfer. The send and recv loops keep a count of the bytes   *)
(* done; a write or a read moves it on by at least one byte.               *)
(***************************************************************************)

\* The receive buffer after count bytes: the rest still has its initial zeros.
Received(bytes, count) == [i \in DOMAIN bytes |-> IF i <= count THEN bytes[i] ELSE 0]

\* Mutant of Advance: the count grows by the space in the buffer, not by what was read.
AdvanceByRequest(count, limit, cuts) == {n \in cuts \cup {limit} : count < n}

\* The counts that one write or read can lead to, if limit bytes can be moved.
\* cuts are the places at which the kernel may split the stream.
Advance(count, limit, cuts) ==
    {n \in cuts \cup {limit} : count < n /\ n <= limit}
=============================================================================
