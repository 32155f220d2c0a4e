----------------------------- MODULE MCProtocol -----------------------------
(***************************************************************************)
(* Values for the constants of Protocol. Users 1 and 2 are known, user 3   *)
(* is not. Resource "ssh" is for user 1, "web" for everybody, "ctrl" is    *)
(* the control port, "gone" is not in letmeind.conf.                       *)
(***************************************************************************)
EXTENDS Protocol

MCKeyOf   == <<"key1", "key2">>
MCUsersOf == [ssh |-> {1}, web |-> {}, ctrl |-> {}]

Req(op, user, key, res) == [op |-> op, user |-> user, res |-> res, key |-> key]

\* One request of each kind that Protocol::run tells apart.
MCRequests ==
    { Req("Knock", 1, "key1", "ssh"),   \* authorised
      Req("Close", 2, "key2", "web"),   \* authorised, unrestricted resource
      Req("Knock", 1, "key2", "ssh"),   \* wrong key
      Req("Knock", 3, "key1", "web"),   \* unknown user
      Req("Knock", 2, "key2", "ssh"),   \* not a user of the resource
      Req("Close", 1, "key1", "ctrl"),  \* the control port
      Req("Knock", 1, "key1", "gone") } \* unknown resource

MCPolicies == {"Always", "BasicAuth", "FullAuth"}

\* Everything may go wrong, or nothing.
MCFaultSets == {AllFaults, {}}
=============================================================================
