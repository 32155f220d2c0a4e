----------------------------- MODULE MCDaemons ------------------------------
(***************************************************************************)
(* Values for the constants of Daemons: a client that knocks over IPv4,    *)
(* and one over IPv6 that closes, speaks another protocol or starts in     *)
(* the middle. All bytes that could be mixed up are different.             *)
(***************************************************************************)
EXTENDS Daemons

MCClients  == {1, 2}
MCSpeeches == {"knock", "close", "alien", "response"}

MCMessage(magic, operation, resource) ==
    [magic |-> magic, operation |-> operation, user |-> 65539, resource |-> resource,
     salt |-> [i \in 1..SALT_SIZE |-> 100 + i], auth |-> [i \in 1..AUTH_SIZE |-> 200 + i]]

MCMsg == [s \in MCSpeeches |->
    CASE s = "knock"    -> MCMessage(MAGIC, "Knock", 258)
      [] s = "close"    -> MCMessage(MAGIC, "Close", 16909060)
      [] s = "alien"    -> MCMessage(1, "Knock", 258)
      [] s = "response" -> MCMessage(MAGIC, "Response", 258)]

MCSpeaks == [c \in MCClients |-> IF c = 1 THEN {"knock"} ELSE {"close", "alien", "response"}]
MCAddrOf == [c \in MCClients |->
    IF c = 1 THEN [type |-> "Ipv4", octets |-> <<192, 0, 2, 1>>]
             ELSE [type |-> "Ipv6", octets |-> [i \in 1..ADDR_SIZE |-> 16 + i]]]
MCPortOf == [r \in {258, 16909060} |->
    IF r = 258 THEN [type |-> "TcpUdp", port |-> 22] ELSE [type |-> "Udp", port |-> 51820]]
=============================================================================
