----------------------------- MODULE WireProofs -----------------------------
(***************************************************************************)
(* Both message formats are read back as they were written, whatever the   *)
(* values of their fields.                                                 *)
(***************************************************************************)
EXTENDS Wire, SequenceTheorems, TLAPS

-----------------------------------------------------------------------------
(* Numbers. *)

\* A u16 takes two bytes, from which it is read back.
LEMMA U16Bytes ==
    ASSUME NEW v \in U16
    PROVE  /\ serialize_u16(v) \in Seq(Byte)
           /\ Len(serialize_u16(v)) = 2
           /\ deserialize_u16(serialize_u16(v)) = v
    <1>1. v \div 256 \in Byte /\ v % 256 \in Byte /\ 256 * (v \div 256) + (v % 256) = v
        BY DEF U16, Byte
    <1> QED BY <1>1 DEF serialize_u16, deserialize_u16

\* A u32 takes four bytes, from which it is read back.
LEMMA U32Bytes ==
    ASSUME NEW v \in U32
    PROVE  /\ serialize_u32(v) \in Seq(Byte)
           /\ Len(serialize_u32(v)) = 4
           /\ deserialize_u32(serialize_u32(v)) = v
    <1> DEFINE h == v \div 65536  l == v % 65536
    <1>0. v \in Nat /\ h \in U16
        BY DEF U16, U32
    <1>1. h \in U16 /\ l \in U16 /\ 65536 * h + l = v
        <2>1. l \in U16
            BY <1>0 DEF U16
        <2>2. 65536 * h + l = v
            BY <1>0
        <2> QED BY <1>0, <2>1, <2>2
    <1>2. /\ serialize_u16(h) \in Seq(Byte) /\ Len(serialize_u16(h)) = 2
          /\ serialize_u16(l) \in Seq(Byte) /\ Len(serialize_u16(l)) = 2
        BY <1>1, U16Bytes
    <1>3. /\ deserialize_u16(serialize_u16(h)) = h
          /\ deserialize_u16(serialize_u16(l)) = l
        BY <1>1, U16Bytes
    <1>4. DEFINE s == serialize_u32(v)
    <1>5. /\ s \in Seq(Byte) /\ Len(s) = 4
          /\ s[1] = serialize_u16(h)[1] /\ s[2] = serialize_u16(h)[2]
          /\ s[3] = serialize_u16(l)[1] /\ s[4] = serialize_u16(l)[2]
        BY <1>2, ConcatProperties DEF serialize_u32
    <1>6. deserialize_u32(s) = 65536 * h + l
        BY <1>3, <1>5 DEF deserialize_u32, deserialize_u16
    <1> QED BY <1>1, <1>5, <1>6


-----------------------------------------------------------------------------
(* Buffers. *)

\* Buffers are sequences of a fixed length.
LEMMA Buffers ==
    ASSUME NEW n \in Nat
    PROVE  /\ \A s \in [1..n -> Byte] : s \in Seq(Byte) /\ Len(s) = n
           /\ \A s \in Seq(Byte) : Len(s) = n => s \in [1..n -> Byte]
           /\ Zeros(n) \in [1..n -> Byte]
    <1>1. \A s \in [1..n -> Byte] : s \in Seq(Byte) /\ Len(s) = n
        OBVIOUS
    <1>2. \A s \in Seq(Byte) : Len(s) = n => s \in [1..n -> Byte]
        BY LenProperties
    <1>3. Zeros(n) \in [1..n -> Byte]
        BY DEF Zeros, Byte
    <1> QED BY <1>1, <1>2, <1>3

\* A buffer is the bytes of one, then those of another.
LEMMA ConcatBytes ==
    ASSUME NEW n \in Nat, NEW k \in Nat, NEW s \in [1..n -> Byte], NEW t \in [1..k -> Byte]
    PROVE  /\ s \o t \in [1..(n + k) -> Byte]
           /\ \A i \in 1..k : (s \o t)[n + i] = t[i]
    <1>1. s \in Seq(Byte) /\ Len(s) = n /\ t \in Seq(Byte) /\ Len(t) = k
        BY Buffers
    <1>2. s \o t \in Seq(Byte) /\ Len(s \o t) = n + k
        BY <1>1, ConcatProperties
    <1>3. \A i \in 1..k : (s \o t)[n + i] = t[i]
        BY <1>1
    <1>4. s \o t \in [1..(n + k) -> Byte]
        <2>1. n + k \in Nat
            OBVIOUS
        <2> QED BY <1>2, <2>1, Buffers
    <1> QED BY <1>3, <1>4

\* What copy_from_slice leaves in a buffer.
LEMMA PutBytes ==
    ASSUME NEW n \in Nat, NEW buf \in [1..n -> Byte], NEW offs \in Nat, NEW bytes \in Seq(Byte),
           offs + Len(bytes) <= n
    PROVE  /\ Put(buf, offs, bytes) \in [1..n -> Byte]
           /\ \A i \in 1..Len(bytes) : Put(buf, offs, bytes)[offs + i] = bytes[i]
           /\ \A i \in 1..n : i <= offs \/ i > offs + Len(bytes) =>
                 Put(buf, offs, bytes)[i] = buf[i]
    <1>1. \A i \in (offs + 1)..(offs + Len(bytes)) : i - offs \in 1..Len(bytes)
        OBVIOUS
    <1>2. \A i \in 1..Len(bytes) : bytes[i] \in Byte
        OBVIOUS
    <1>3. Put(buf, offs, bytes) \in [1..n -> Byte]
        BY <1>1, <1>2 DEF Put
    <1>4. ASSUME NEW i \in 1..Len(bytes) PROVE Put(buf, offs, bytes)[offs + i] = bytes[i]
        <2>1. offs + i \in 1..n /\ offs + i \in (offs + 1)..(offs + Len(bytes)) /\ (offs + i) - offs = i
            OBVIOUS
        <2> QED BY <2>1 DEF Put
    <1>5. ASSUME NEW i \in 1..n, i <= offs \/ i > offs + Len(bytes)
          PROVE  Put(buf, offs, bytes)[i] = buf[i]
        <2>1. i \notin (offs + 1)..(offs + Len(bytes))
            BY <1>5
        <2> QED BY <2>1 DEF Put
    <1> QED BY <1>3, <1>4, <1>5

\* What a slice of a buffer holds.
LEMMA SliceBytes ==
    ASSUME NEW n \in Nat, NEW buf \in [1..n -> Byte], NEW offs \in Nat, NEW k \in Nat,
           offs + k <= n
    PROVE  /\ Slice(buf, offs, k) \in [1..k -> Byte]
           /\ \A i \in 1..k : Slice(buf, offs, k)[i] = buf[offs + i]
    <1>1. buf \in Seq(Byte) /\ Len(buf) = n
        OBVIOUS
    <1>2. CASE k = 0
        BY <1>1, <1>2 DEF Slice
    <1>3. CASE k > 0
        <2> DEFINE s == SubSeq(buf, offs + 1, offs + k)
        <2>1. \A i \in (offs + 1)..(offs + k) : buf[i] \in Byte
            OBVIOUS
        <2>2. /\ s \in Seq(Byte)
              /\ Len(s) = (offs + k) - (offs + 1) + 1
              /\ \A i \in 1..((offs + k) - (offs + 1) + 1) : s[i] = buf[(offs + 1) + i - 1]
            BY <1>3, <2>1, SubSeqProperties
        <2>3. Len(s) = k /\ \A i \in 1..k : s[i] = buf[offs + i]
            BY <2>2
        <2>4. s \in [1..k -> Byte]
            <3> HIDE DEF s
            <3> QED BY <2>2, <2>3
        <2> QED BY <2>3, <2>4 DEF Slice
    <1> QED BY <1>2, <1>3

\* A field is read back as it was written, and the fields before it are left alone.
Written(n, buf, offs, k, bytes) ==
    LET b == Put(buf, offs, bytes) IN
    /\ b \in [1..n -> Byte]
    /\ Slice(b, offs, k) = bytes
    /\ \A other, size \in Nat : other + size <= offs => Slice(b, other, size) = Slice(buf, other, size)

\* copy_from_slice writes a field.
LEMMA FieldWritten ==
    ASSUME NEW n \in Nat, NEW k \in Nat, NEW buf \in [1..n -> Byte], NEW offs \in Nat,
           NEW bytes \in [1..k -> Byte], offs + k <= n
    PROVE  Written(n, buf, offs, k, bytes)
    <1> DEFINE b == Put(buf, offs, bytes)
    <1>1. bytes \in Seq(Byte) /\ Len(bytes) = k
        BY Buffers
    <1>2. /\ b \in [1..n -> Byte]
          /\ \A i \in 1..k : b[offs + i] = bytes[i]
          /\ \A i \in 1..n : i <= offs => b[i] = buf[i]
        BY <1>1, PutBytes
    <1> HIDE DEF b
    <1>3. /\ Slice(b, offs, k) \in [1..k -> Byte]
          /\ \A i \in 1..k : Slice(b, offs, k)[i] = b[offs + i]
        BY <1>2, SliceBytes
    <1>4. Slice(b, offs, k) = bytes
        BY <1>2, <1>3
    <1>5. ASSUME NEW other \in Nat, NEW size \in Nat, other + size <= offs
          PROVE  Slice(b, other, size) = Slice(buf, other, size)
        <2> DEFINE x == Slice(b, other, size)  y == Slice(buf, other, size)
        <2>1. other + size <= n
            BY <1>5
        <2>2. x \in [1..size -> Byte] /\ \A i \in 1..size : x[i] = b[other + i]
            <3>1. b \in [1..n -> Byte]
                BY <1>2
            <3> QED BY <2>1, <3>1, SliceBytes, ZenonT(30)
        <2>3. y \in [1..size -> Byte] /\ \A i \in 1..size : y[i] = buf[other + i]
            BY <2>1, SliceBytes, ZenonT(30)
        <2>4. \A i \in 1..size : b[other + i] = buf[other + i]
            BY <1>2, <1>5, <2>1
        <2> HIDE DEF x, y
        <2>5. \A i \in 1..size : x[i] = y[i]
            BY <2>2, <2>3, <2>4
        <2>6. x = y
            BY <2>2, <2>3, <2>5
        <2> QED BY <2>6 DEF x, y
    <1> QED BY <1>2, <1>4, <1>5 DEF b, Written

\* A buffer that is full holds the message.
LEMMA ReceivedAll ==
    ASSUME NEW n \in Nat, NEW buf \in [1..n -> Byte]
    PROVE  Received(buf, n) = buf
    BY DEF Received

\* A variant of an enum is read back from its number.
LEMMA EnumNumbers ==
    ASSUME NEW enum, NEW size \in Nat, DOMAIN enum = 1..size, Len(enum) = size,
           NEW variant \in Variants(enum)
    PROVE  /\ NumberOf(enum, variant) \in Nat
           /\ NumberOf(enum, variant) < size
           /\ TryFrom(enum, NumberOf(enum, variant)) = variant
    <1> DEFINE j == CHOOSE i \in DOMAIN enum : enum[i] = variant
    <1>1. j \in DOMAIN enum /\ enum[j] = variant
        BY DEF Variants
    <1> HIDE DEF j
    <1>2. j \in 1..size /\ j - 1 \in Nat /\ j - 1 < size /\ (j - 1) + 1 = j
        BY <1>1
    <1>3. NumberOf(enum, variant) = j - 1
        BY DEF NumberOf, j
    <1> QED BY <1>1, <1>2, <1>3 DEF TryFrom

-----------------------------------------------------------------------------
(* FirewallMessage. *)

\* What new_open, new_close, new_ack and new_nack can return.
FwMessages == {FirewallMessage(o, a, t, p) :
    o \in Variants(FirewallOperation), a \in IpAddr, t \in Variants(PortType), p \in U16}

\* The octets of an address fill their field, and are read back from it.
LEMMA AddrOctets ==
    ASSUME NEW addr \in IpAddr
    PROVE  /\ addr_to_octets(addr) \in [1..16 -> Byte]
           /\ octets_to_addr(addr.type, addr_to_octets(addr)) = addr
    <1>1. CASE addr.type = "Ipv4"
        <2> DEFINE z == Zeros(12)  o == addr.octets  s == addr_to_octets(addr)
        <2>1. addr = [type |-> "Ipv4", octets |-> o] /\ o \in [1..4 -> Byte]
            BY <1>1 DEF IpAddr
        <2>2. z \in [1..12 -> Byte]
            BY Buffers
        <2>3. s = z \o o
            BY <1>1 DEF addr_to_octets, ADDR_SIZE
        <2> HIDE DEF z, o, s
        <2>4. s \in [1..(12 + 4) -> Byte] /\ \A i \in 1..4 : s[12 + i] = o[i]
            <3>1. 12 \in Nat /\ 4 \in Nat
                OBVIOUS
            <3> QED BY <3>1, <2>1, <2>2, <2>3, ConcatBytes
        <2>5. s \in [1..16 -> Byte]
            BY <2>4
        <2>6. Slice(s, 12, 4) \in [1..4 -> Byte] /\ \A i \in 1..4 : Slice(s, 12, 4)[i] = s[12 + i]
            <3>1. 16 \in Nat /\ 12 \in Nat /\ 4 \in Nat /\ 12 + 4 <= 16
                OBVIOUS
            <3> QED BY <3>1, <2>5, SliceBytes
        <2>7. Slice(s, 12, 4) = o
            BY <2>1, <2>4, <2>6
        <2>8. octets_to_addr("Ipv4", s) = [type |-> "Ipv4", octets |-> o]
            BY <2>7 DEF octets_to_addr
        <2> QED BY <1>1, <2>1, <2>5, <2>8 DEF s
    <1>2. CASE addr.type # "Ipv4"
        BY <1>2 DEF IpAddr, addr_to_octets, octets_to_addr, ADDR_SIZE
    <1> QED BY <1>1, <1>2

\* Numbers of enums in a u16.
LEMMA FwNumbers ==
    /\ \A v \in Variants(FirewallOperation) :
          /\ NumberOf(FirewallOperation, v) \in U16
          /\ TryFrom(FirewallOperation, NumberOf(FirewallOperation, v)) = v
          /\ v # "invalid"
    /\ \A v \in Variants(PortType) :
          /\ NumberOf(PortType, v) \in U16
          /\ TryFrom(PortType, NumberOf(PortType, v)) = v
          /\ v # "invalid"
    /\ \A v \in Variants(AddrType) :
          /\ NumberOf(AddrType, v) \in U16
          /\ TryFrom(AddrType, NumberOf(AddrType, v)) = v
          /\ v # "invalid"
    <1>1. \A k \in Nat : k < 4 \/ k < 3 \/ k < 2 => k \in U16
        BY DEF U16
    <1>2. /\ 4 \in Nat /\ DOMAIN FirewallOperation = 1..4 /\ Len(FirewallOperation) = 4
          /\ \A v \in Variants(FirewallOperation) : v # "invalid"
        <2>1. DOMAIN FirewallOperation = 1..4 /\ Len(FirewallOperation) = 4
            BY DEF FirewallOperation
        <2>2. FirewallOperation[1] # "invalid" /\ FirewallOperation[2] # "invalid" /\ FirewallOperation[3] # "invalid" /\ FirewallOperation[4] # "invalid"
            BY DEF FirewallOperation
        <2> QED BY <2>1, <2>2 DEF Variants
    <1>3. /\ 3 \in Nat /\ DOMAIN PortType = 1..3 /\ Len(PortType) = 3
          /\ \A v \in Variants(PortType) : v # "invalid"
        <2>1. DOMAIN PortType = 1..3 /\ Len(PortType) = 3
            BY DEF PortType
        <2>2. PortType[1] # "invalid" /\ PortType[2] # "invalid" /\ PortType[3] # "invalid"
            BY DEF PortType
        <2> QED BY <2>1, <2>2 DEF Variants
    <1>4. /\ 2 \in Nat /\ DOMAIN AddrType = 1..2 /\ Len(AddrType) = 2
          /\ \A v \in Variants(AddrType) : v # "invalid"
        <2>1. DOMAIN AddrType = 1..2 /\ Len(AddrType) = 2
            BY DEF AddrType
        <2>2. AddrType[1] # "invalid" /\ AddrType[2] # "invalid"
            BY DEF AddrType
        <2> QED BY <2>1, <2>2 DEF Variants
    <1>5. \A v \in Variants(FirewallOperation) :
              /\ NumberOf(FirewallOperation, v) \in U16
              /\ TryFrom(FirewallOperation, NumberOf(FirewallOperation, v)) = v
        BY <1>1, <1>2, EnumNumbers
    <1>6. \A v \in Variants(PortType) :
              /\ NumberOf(PortType, v) \in U16
              /\ TryFrom(PortType, NumberOf(PortType, v)) = v
        BY <1>1, <1>3, EnumNumbers
    <1>7. \A v \in Variants(AddrType) :
              /\ NumberOf(AddrType, v) \in U16
              /\ TryFrom(AddrType, NumberOf(AddrType, v)) = v
        BY <1>1, <1>4, EnumNumbers
    <1> QED BY <1>2, <1>3, <1>4, <1>5, <1>6, <1>7

\* Every address is of one of the types.
LEMMA AddrTypes ==
    \A addr \in IpAddr : addr.type \in Variants(AddrType)
    <1>1. /\ 1 \in DOMAIN AddrType /\ AddrType[1] = "Ipv6"
          /\ 2 \in DOMAIN AddrType /\ AddrType[2] = "Ipv4"
        BY DEF AddrType
    <1>2. \A addr \in IpAddr : addr.type \in {"Ipv4", "Ipv6"}
        BY DEF IpAddr
    <1> QED BY <1>1, <1>2 DEF Variants

\* FirewallMessage::msg_serialize writes every field in its place.
LEMMA FwFields ==
    ASSUME NEW m \in FwMessages
    PROVE  LET b == fw_serialize(m) IN
           /\ b \in [1..24 -> Byte]
           /\ Slice(b, 0, 2) = serialize_u16(NumberOf(FirewallOperation, m.operation))
           /\ Slice(b, 2, 2) = serialize_u16(NumberOf(PortType, m.port_type))
           /\ Slice(b, 4, 2) = serialize_u16(m.port)
           /\ Slice(b, 6, 2) = serialize_u16(NumberOf(AddrType, m.addr.type))
           /\ Slice(b, 8, 16) = addr_to_octets(m.addr)
    <1> DEFINE o == serialize_u16(NumberOf(FirewallOperation, m.operation))
               t == serialize_u16(NumberOf(PortType, m.port_type))
               p == serialize_u16(m.port)
               a == serialize_u16(NumberOf(AddrType, m.addr.type))
               x == addr_to_octets(m.addr)
               z == Zeros(24)
               b1 == Put(z, 0, o)
               b2 == Put(b1, 2, t)
               b3 == Put(b2, 4, p)
               b4 == Put(b3, 6, a)
               b5 == Put(b4, 8, x)
    <1>m. /\ m.operation \in Variants(FirewallOperation) /\ m.port_type \in Variants(PortType)
          /\ m.port \in U16 /\ m.addr \in IpAddr
        BY DEF FwMessages, FirewallMessage
    <1>v. m.addr.type \in Variants(AddrType)
        BY <1>m, AddrTypes
    <1>0. /\ o \in [1..2 -> Byte] /\ t \in [1..2 -> Byte] /\ p \in [1..2 -> Byte]
          /\ a \in [1..2 -> Byte] /\ x \in [1..16 -> Byte]
        <2>1. \A v \in U16 : serialize_u16(v) \in [1..2 -> Byte]
            <3>1. 2 \in Nat
                OBVIOUS
            <3> QED BY <3>1, U16Bytes, Buffers
        <2> QED BY <1>m, <1>v, <2>1, FwNumbers, AddrOctets
    <1>z. z \in [1..24 -> Byte]
        <2>1. 24 \in Nat
            OBVIOUS
        <2> QED BY <2>1, Buffers
    <1>s. fw_serialize(m) = b5
        BY DEF fw_serialize, FWMSG_OFFS, FWMSG_SIZE, ADDR_SIZE
    <1> HIDE DEF o, t, p, a, x, z, b1, b2, b3, b4, b5
    <1>b1. /\ b1 \in [1..24 -> Byte]
          /\ Slice(b1, 0, 2) = o
        <2>1. 24 \in Nat /\ 2 \in Nat /\ 0 \in Nat /\ 0 + 2 <= 24
            OBVIOUS
        <2>2. o \in [1..2 -> Byte] /\ z \in [1..24 -> Byte]
            BY <1>0, <1>z
        <2>3. Written(24, z, 0, 2, o)
            BY <2>1, <2>2, FieldWritten, Zenon
        <2> QED BY <2>3 DEF Written, b1
    <1>b2. /\ b2 \in [1..24 -> Byte]
          /\ Slice(b2, 0, 2) = o
          /\ Slice(b2, 2, 2) = t
        <2>1. 24 \in Nat /\ 2 \in Nat /\ 2 + 2 <= 24
            OBVIOUS
        <2>2. t \in [1..2 -> Byte] /\ b1 \in [1..24 -> Byte]
            BY <1>0, <1>b1
        <2>3. Written(24, b1, 2, 2, t)
            BY <2>1, <2>2, FieldWritten, Zenon
        <2>4. /\ Slice(b2, 0, 2) = Slice(b1, 0, 2)
            BY <2>3 DEF Written, b2
        <2> QED BY <2>3, <2>4, <1>b1 DEF Written, b2
    <1>b3. /\ b3 \in [1..24 -> Byte]
          /\ Slice(b3, 0, 2) = o
          /\ Slice(b3, 2, 2) = t
          /\ Slice(b3, 4, 2) = p
        <2>1. 24 \in Nat /\ 2 \in Nat /\ 4 \in Nat /\ 4 + 2 <= 24
            OBVIOUS
        <2>2. p \in [1..2 -> Byte] /\ b2 \in [1..24 -> Byte]
            BY <1>0, <1>b2
        <2>3. Written(24, b2, 4, 2, p)
            BY <2>1, <2>2, FieldWritten, Zenon
        <2>4. /\ Slice(b3, 0, 2) = Slice(b2, 0, 2)
              /\ Slice(b3, 2, 2) = Slice(b2, 2, 2)
            BY <2>3 DEF Written, b3
        <2> QED BY <2>3, <2>4, <1>b2 DEF Written, b3
    <1>b4. /\ b4 \in [1..24 -> Byte]
          /\ Slice(b4, 0, 2) = o
          /\ Slice(b4, 2, 2) = t
          /\ Slice(b4, 4, 2) = p
          /\ Slice(b4, 6, 2) = a
        <2>1. 24 \in Nat /\ 2 \in Nat /\ 6 \in Nat /\ 6 + 2 <= 24
            OBVIOUS
        <2>2. a \in [1..2 -> Byte] /\ b3 \in [1..24 -> Byte]
            BY <1>0, <1>b3
        <2>3. Written(24, b3, 6, 2, a)
            BY <2>1, <2>2, FieldWritten, Zenon
        <2>4. /\ Slice(b4, 0, 2) = Slice(b3, 0, 2)
              /\ Slice(b4, 2, 2) = Slice(b3, 2, 2)
              /\ Slice(b4, 4, 2) = Slice(b3, 4, 2)
            BY <2>3 DEF Written, b4
        <2> QED BY <2>3, <2>4, <1>b3 DEF Written, b4
    <1>b5. /\ b5 \in [1..24 -> Byte]
          /\ Slice(b5, 0, 2) = o
          /\ Slice(b5, 2, 2) = t
          /\ Slice(b5, 4, 2) = p
          /\ Slice(b5, 6, 2) = a
          /\ Slice(b5, 8, 16) = x
        <2>1. 24 \in Nat /\ 16 \in Nat /\ 8 \in Nat /\ 8 + 16 <= 24
            OBVIOUS
        <2>2. x \in [1..16 -> Byte] /\ b4 \in [1..24 -> Byte]
            BY <1>0, <1>b4
        <2>3. Written(24, b4, 8, 16, x)
            BY <2>1, <2>2, FieldWritten, Zenon
        <2>4. /\ Slice(b5, 0, 2) = Slice(b4, 0, 2)
              /\ Slice(b5, 2, 2) = Slice(b4, 2, 2)
              /\ Slice(b5, 4, 2) = Slice(b4, 4, 2)
              /\ Slice(b5, 6, 2) = Slice(b4, 6, 2)
            BY <2>3 DEF Written, b5
        <2> QED BY <2>3, <2>4, <1>b4 DEF Written, b5
    <1> QED BY <1>s, <1>b5 DEF o, t, p, a, x

\* Every message letmeind and letmeinfwd exchange is understood as it was meant:
\* try_msg_deserialize returns what msg_serialize was given, for all addresses, port
\* types and ports.
THEOREM FwReadBack ==
    \A m \in FwMessages : fw_deserialize(Received(fw_serialize(m), FWMSG_SIZE)) = m
    <1> SUFFICES ASSUME NEW m \in FwMessages
                 PROVE  fw_deserialize(Received(fw_serialize(m), FWMSG_SIZE)) = m
        OBVIOUS
    <1> DEFINE b == fw_serialize(m)
    <1>1. /\ m.operation \in Variants(FirewallOperation) /\ m.port_type \in Variants(PortType)
          /\ m.port \in U16 /\ m.addr \in IpAddr
          /\ m = FirewallMessage(m.operation, m.addr, m.port_type, m.port)
        BY DEF FwMessages, FirewallMessage
    <1>2. m.addr.type \in Variants(AddrType)
        BY <1>1, AddrTypes
    <1>3. /\ b \in [1..24 -> Byte]
          /\ Slice(b, 0, 2) = serialize_u16(NumberOf(FirewallOperation, m.operation))
          /\ Slice(b, 2, 2) = serialize_u16(NumberOf(PortType, m.port_type))
          /\ Slice(b, 4, 2) = serialize_u16(m.port)
          /\ Slice(b, 6, 2) = serialize_u16(NumberOf(AddrType, m.addr.type))
          /\ Slice(b, 8, 16) = addr_to_octets(m.addr)
        BY FwFields
    <1> HIDE DEF b
    <1>4. /\ TryFrom(FirewallOperation, deserialize_u16(Slice(b, 0, 2))) = m.operation
          /\ TryFrom(PortType, deserialize_u16(Slice(b, 2, 2))) = m.port_type
          /\ deserialize_u16(Slice(b, 4, 2)) = m.port
          /\ TryFrom(AddrType, deserialize_u16(Slice(b, 6, 2))) = m.addr.type
          /\ "invalid" \notin {m.operation, m.port_type, m.addr.type}
        BY <1>1, <1>2, <1>3, U16Bytes, FwNumbers
    <1>5. octets_to_addr(m.addr.type, Slice(b, 8, 16)) = m.addr
        BY <1>1, <1>3, AddrOctets
    <1>6. Len(b) = 24 /\ Received(b, 24) = b
        <2>1. 24 \in Nat
            OBVIOUS
        <2> QED BY <1>3, <2>1, Buffers, ReceivedAll, Zenon
    <1>7. fw_deserialize(b) = m
        BY <1>1, <1>4, <1>5, <1>6 DEF fw_deserialize, FWMSG_OFFS, FWMSG_SIZE, ADDR_SIZE
    <1> QED BY <1>6, <1>7 DEF b, FWMSG_SIZE, ADDR_SIZE

-----------------------------------------------------------------------------
(* Message. *)

\* Numbers of operations in a u32.
LEMMA MsgNumbers ==
    \A v \in Variants(Operation) :
        /\ NumberOf(Operation, v) \in U32
        /\ TryFrom(Operation, NumberOf(Operation, v)) = v
        /\ v # "invalid"
    <1>1. \A k \in Nat : k < 6 => k \in U32
        BY DEF U32
    <1>2. 6 \in Nat /\ DOMAIN Operation = 1..6 /\ Len(Operation) = 6
        BY DEF Operation
    <1>3. \A i \in 1..6 : Operation[i] # "invalid"
        <2>1. /\ Operation[1] # "invalid" /\ Operation[2] # "invalid" /\ Operation[3] # "invalid"
              /\ Operation[4] # "invalid" /\ Operation[5] # "invalid" /\ Operation[6] # "invalid"
            BY DEF Operation
        <2>2. \A i \in 1..6 : i \in {1, 2, 3, 4, 5, 6}
            OBVIOUS
        <2> QED BY <2>1, <2>2
    <1>4. \A v \in Variants(Operation) :
              NumberOf(Operation, v) \in U32 /\ TryFrom(Operation, NumberOf(Operation, v)) = v
        BY <1>1, <1>2, EnumNumbers
    <1>5. \A v \in Variants(Operation) : v # "invalid"
        BY <1>2, <1>3 DEF Variants
    <1> QED BY <1>4, <1>5

\* Message::msg_serialize writes every field in its place.
LEMMA MsgFields ==
    ASSUME NEW m \in Message
    PROVE  LET b == msg_serialize(m) IN
           /\ b \in [1..56 -> Byte]
           /\ Slice(b, 0, 4) = serialize_u32(m.magic)
           /\ Slice(b, 4, 4) = serialize_u32(NumberOf(Operation, m.operation))
           /\ Slice(b, 8, 4) = serialize_u32(m.user)
           /\ Slice(b, 12, 4) = serialize_u32(m.resource)
           /\ Slice(b, 16, 8) = m.salt
           /\ Slice(b, 24, 32) = m.auth
    <1> DEFINE g == serialize_u32(m.magic)
               o == serialize_u32(NumberOf(Operation, m.operation))
               u == serialize_u32(m.user)
               r == serialize_u32(m.resource)
               s == m.salt
               a == m.auth
               z == Zeros(56)
               b1 == Put(z, 0, g)
               b2 == Put(b1, 4, o)
               b3 == Put(b2, 8, u)
               b4 == Put(b3, 12, r)
               b5 == Put(b4, 16, s)
               b6 == Put(b5, 24, a)
    <1>m. /\ m.magic \in U32 /\ m.operation \in Variants(Operation)
          /\ m.user \in U32 /\ m.resource \in U32
          /\ m.salt \in [1..8 -> Byte] /\ m.auth \in [1..32 -> Byte]
        BY DEF Message, SALT_SIZE, AUTH_SIZE
    <1>0. /\ g \in [1..4 -> Byte] /\ o \in [1..4 -> Byte] /\ u \in [1..4 -> Byte]
          /\ r \in [1..4 -> Byte] /\ s \in [1..8 -> Byte] /\ a \in [1..32 -> Byte]
        <2>1. \A v \in U32 : serialize_u32(v) \in [1..4 -> Byte]
            <3>1. 4 \in Nat
                OBVIOUS
            <3> QED BY <3>1, U32Bytes, Buffers
        <2> QED BY <1>m, <2>1, MsgNumbers
    <1>z. z \in [1..56 -> Byte]
        <2>1. 56 \in Nat
            OBVIOUS
        <2> QED BY <2>1, Buffers
    <1>s. msg_serialize(m) = b6
        BY DEF msg_serialize, MSG_OFFS, MSG_SIZE, SALT_SIZE, AUTH_SIZE
    <1> HIDE DEF g, o, u, r, s, a, z, b1, b2, b3, b4, b5, b6
    <1>b1. /\ b1 \in [1..56 -> Byte]
          /\ Slice(b1, 0, 4) = g
        <2>1. 56 \in Nat /\ 4 \in Nat /\ 0 \in Nat /\ 0 + 4 <= 56
            OBVIOUS
        <2>2. g \in [1..4 -> Byte] /\ z \in [1..56 -> Byte]
            BY <1>0, <1>z
        <2>3. Written(56, z, 0, 4, g)
            BY <2>1, <2>2, FieldWritten, Zenon
        <2> QED BY <2>3 DEF Written, b1
    <1>b2. /\ b2 \in [1..56 -> Byte]
          /\ Slice(b2, 0, 4) = g
          /\ Slice(b2, 4, 4) = o
        <2>1. 56 \in Nat /\ 4 \in Nat /\ 4 + 4 <= 56
            OBVIOUS
        <2>2. o \in [1..4 -> Byte] /\ b1 \in [1..56 -> Byte]
            BY <1>0, <1>b1
        <2>3. Written(56, b1, 4, 4, o)
            BY <2>1, <2>2, FieldWritten, Zenon
        <2>4. /\ Slice(b2, 0, 4) = Slice(b1, 0, 4)
            BY <2>3 DEF Written, b2
        <2> QED BY <2>3, <2>4, <1>b1 DEF Written, b2
    <1>b3. /\ b3 \in [1..56 -> Byte]
          /\ Slice(b3, 0, 4) = g
          /\ Slice(b3, 4, 4) = o
          /\ Slice(b3, 8, 4) = u
        <2>1. 56 \in Nat /\ 4 \in Nat /\ 8 \in Nat /\ 8 + 4 <= 56
            OBVIOUS
        <2>2. u \in [1..4 -> Byte] /\ b2 \in [1..56 -> Byte]
            BY <1>0, <1>b2
        <2>3. Written(56, b2, 8, 4, u)
            BY <2>1, <2>2, FieldWritten, Zenon
        <2>4. /\ Slice(b3, 0, 4) = Slice(b2, 0, 4)
              /\ Slice(b3, 4, 4) = Slice(b2, 4, 4)
            BY <2>3 DEF Written, b3
        <2> QED BY <2>3, <2>4, <1>b2 DEF Written, b3
    <1>b4. /\ b4 \in [1..56 -> Byte]
          /\ Slice(b4, 0, 4) = g
          /\ Slice(b4, 4, 4) = o
          /\ Slice(b4, 8, 4) = u
          /\ Slice(b4, 12, 4) = r
        <2>1. 56 \in Nat /\ 4 \in Nat /\ 12 \in Nat /\ 12 + 4 <= 56
            OBVIOUS
        <2>2. r \in [1..4 -> Byte] /\ b3 \in [1..56 -> Byte]
            BY <1>0, <1>b3
        <2>3. Written(56, b3, 12, 4, r)
            BY <2>1, <2>2, FieldWritten, Zenon
        <2>4. /\ Slice(b4, 0, 4) = Slice(b3, 0, 4)
              /\ Slice(b4, 4, 4) = Slice(b3, 4, 4)
              /\ Slice(b4, 8, 4) = Slice(b3, 8, 4)
            BY <2>3 DEF Written, b4
        <2> QED BY <2>3, <2>4, <1>b3 DEF Written, b4
    <1>b5. /\ b5 \in [1..56 -> Byte]
          /\ Slice(b5, 0, 4) = g
          /\ Slice(b5, 4, 4) = o
          /\ Slice(b5, 8, 4) = u
          /\ Slice(b5, 12, 4) = r
          /\ Slice(b5, 16, 8) = s
        <2>1. 56 \in Nat /\ 8 \in Nat /\ 16 \in Nat /\ 16 + 8 <= 56
            OBVIOUS
        <2>2. s \in [1..8 -> Byte] /\ b4 \in [1..56 -> Byte]
            BY <1>0, <1>b4
        <2>3. Written(56, b4, 16, 8, s)
            BY <2>1, <2>2, FieldWritten, Zenon
        <2>4. /\ Slice(b5, 0, 4) = Slice(b4, 0, 4)
              /\ Slice(b5, 4, 4) = Slice(b4, 4, 4)
              /\ Slice(b5, 8, 4) = Slice(b4, 8, 4)
              /\ Slice(b5, 12, 4) = Slice(b4, 12, 4)
            BY <2>3 DEF Written, b5
        <2> QED BY <2>3, <2>4, <1>b4 DEF Written, b5
    <1>b6. /\ b6 \in [1..56 -> Byte]
          /\ Slice(b6, 0, 4) = g
          /\ Slice(b6, 4, 4) = o
          /\ Slice(b6, 8, 4) = u
          /\ Slice(b6, 12, 4) = r
          /\ Slice(b6, 16, 8) = s
          /\ Slice(b6, 24, 32) = a
        <2>1. 56 \in Nat /\ 32 \in Nat /\ 24 \in Nat /\ 24 + 32 <= 56
            OBVIOUS
        <2>2. a \in [1..32 -> Byte] /\ b5 \in [1..56 -> Byte]
            BY <1>0, <1>b5
        <2>3. Written(56, b5, 24, 32, a)
            BY <2>1, <2>2, FieldWritten, Zenon
        <2>4. /\ Slice(b6, 0, 4) = Slice(b5, 0, 4)
              /\ Slice(b6, 4, 4) = Slice(b5, 4, 4)
              /\ Slice(b6, 8, 4) = Slice(b5, 8, 4)
              /\ Slice(b6, 12, 4) = Slice(b5, 12, 4)
              /\ Slice(b6, 16, 8) = Slice(b5, 16, 8)
            BY <2>3 DEF Written, b6
        <2> QED BY <2>3, <2>4, <1>b5 DEF Written, b6
    <1> QED BY <1>s, <1>b6 DEF g, o, u, r, s, a

\* letmeind understands every message of a client as it was meant, and refuses what
\* does not begin with the magic number.
THEOREM MsgReadBack ==
    \A m \in Message :
        msg_deserialize(Received(msg_serialize(m), MSG_SIZE))
            = IF m.magic = MAGIC THEN m ELSE Refused
    <1> SUFFICES ASSUME NEW m \in Message
                 PROVE  msg_deserialize(Received(msg_serialize(m), MSG_SIZE))
                            = IF m.magic = MAGIC THEN m ELSE Refused
        OBVIOUS
    <1> DEFINE b == msg_serialize(m)
    <1>1. /\ m.magic \in U32 /\ m.operation \in Variants(Operation)
          /\ m.user \in U32 /\ m.resource \in U32
          /\ m = [magic |-> m.magic, operation |-> m.operation, user |-> m.user,
                  resource |-> m.resource, salt |-> m.salt, auth |-> m.auth]
        BY DEF Message
    <1>2. /\ b \in [1..56 -> Byte]
          /\ Slice(b, 0, 4) = serialize_u32(m.magic)
          /\ Slice(b, 4, 4) = serialize_u32(NumberOf(Operation, m.operation))
          /\ Slice(b, 8, 4) = serialize_u32(m.user)
          /\ Slice(b, 12, 4) = serialize_u32(m.resource)
          /\ Slice(b, 16, 8) = m.salt
          /\ Slice(b, 24, 32) = m.auth
        BY MsgFields
    <1> HIDE DEF b
    <1>3. /\ deserialize_u32(Slice(b, 0, 4)) = m.magic
          /\ TryFrom(Operation, deserialize_u32(Slice(b, 4, 4))) = m.operation
          /\ deserialize_u32(Slice(b, 8, 4)) = m.user
          /\ deserialize_u32(Slice(b, 12, 4)) = m.resource
          /\ m.operation # "invalid"
        BY <1>1, <1>2, U32Bytes, MsgNumbers
    <1>4. Len(b) = 56 /\ Received(b, 56) = b
        <2>1. 56 \in Nat
            OBVIOUS
        <2> QED BY <1>2, <2>1, Buffers, ReceivedAll, Zenon
    <1>5. msg_deserialize(b) = IF m.magic = MAGIC THEN m ELSE Refused
        BY <1>1, <1>2, <1>3, <1>4 DEF msg_deserialize, MSG_OFFS, MSG_SIZE, SALT_SIZE, AUTH_SIZE
    <1> QED BY <1>4, <1>5 DEF b, MSG_SIZE, SALT_SIZE, AUTH_SIZE

=============================================================================
