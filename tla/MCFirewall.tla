----------------------------- MODULE MCFirewall -----------------------------
(***************************************************************************)
(* Values for the constants of Firewall. Port 1 is a TCP resource, port 2  *)
(* a TCP and UDP resource, port 3 is not configured, and port 9 is the     *)
(* control port, for which letmeind.conf also has a resource (nothing in   *)
(* the configuration parser forbids that).                                 *)
(***************************************************************************)
EXTENDS Firewall

LOCAL T == INSTANCE TLC

MCPorts      == {1, 2, 3, 9}
MCConfigured == {1, 2, 9}

\* One resource per port, so one port type per port.
MCTypesOf == [p \in MCPorts |-> IF p = 2 THEN {"TcpUdp"} ELSE {"Tcp"}]

\* letmeind was restarted with an edited configuration while letmeinfwd was
\* not: port 1 is requested as TCP by the one and as TCP and UDP by the other.
MCTypesOfEdited == [p \in MCPorts |-> CASE p = 1 -> {"Tcp", "TcpUdp"}
                                         [] p = 2 -> {"TcpUdp"}
                                         [] OTHER -> {}]

\* The addresses that can get a lease differ in nothing but their name. Used with
\* safety properties only.
MCSymmetry == T!Permutations(ValidAddrs \cap Matchable)

MCAllFaults   == Kinds
MCCloseWorks  == Kinds \ {"close"}
MCCloseFaults == {"close"}
=============================================================================
