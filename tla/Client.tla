------------------------------- MODULE Client -------------------------------
(***************************************************************************)
(* The commands `letmein knock` and `letmein close`, run one after the     *)
(* other by a user with the same options: loading the configuration, the   *)
(* lookup of key and resource, and the sequences over IPv6 and IPv4 that   *)
(* the address mode asks for.                                              *)
(*                                                                         *)
(* A single sequence is what Knocking promises: if the client is told of   *)
(* success, the server has done what was asked; if not, it may have done   *)
(* it all the same. Opened ports do not time out here: a command takes     *)
(* seconds, a lease minutes.                                               *)
(***************************************************************************)
EXTENDS Config

CONSTANTS
    Cases,       \* pairs of a configuration file and the options of the user
    NoUser,      \* no --user option
    MaxRuns      \* bound on the commands

Families == {"Ipv6", "Ipv4"}

\* The host is "Ipv4" or "Ipv6" (a raw address) or "name".
Options ==
    [host : Families \cup {"name"}, port : Ports, user : Users \cup {NoUser},
     ipv4 : BOOLEAN, ipv6 : BOOLEAN, tcp : BOOLEAN, udp : BOOLEAN]

ASSUME ClientAssumption == Cases \subseteq File \X Options /\ MaxRuns \in Nat

VARIABLES
    file,        \* the configuration file
    opts,        \* host, port and options on the command line
    cmd,         \* the command that runs or ran last
    pc,          \* "idle", "loaded" or "run"
    conf,        \* the configuration that the command has loaded
    resource,    \* the resource that it asks for
    outcome,     \* result of the sequence over each address family
    exit,        \* how the command ended
    open,        \* pairs of a family and a resource that the server has open
    opened,      \* those that the last knock has opened, told so or not
    runs

vars == <<file, opts, cmd, pc, conf, resource, outcome, exit, open, opened, runs>>

Untried == [f \in Families |-> "untried"]

Init ==
    /\ \E c \in Cases : file = c[1] /\ opts = c[2]
    /\ cmd = "none" /\ pc = "idle" /\ exit = "none"
    /\ conf = NewConfig /\ resource = NoResource
    /\ outcome = Untried
    /\ open = {} /\ opened = {} /\ runs = 0

-----------------------------------------------------------------------------
(* The options *)

\* The address mode that --ipv4 and --ipv6 select.
AddrMode ==
    CASE ~opts.ipv4 /\ ~opts.ipv6 -> "TryBoth"
      [] opts.ipv4 /\ opts.ipv6 -> "Both"
      [] ~opts.ipv4 /\ opts.ipv6 -> "Ipv6"
      [] opts.ipv4 /\ ~opts.ipv6 -> "Ipv4"

\* Mutant of to_control_port: both protocols may be left.
to_control_port_both(protos) ==
    CASE opts.tcp -> {"tcp"}
      [] ~opts.tcp /\ opts.udp -> {"udp"}
      [] ~opts.tcp /\ ~opts.udp -> protos

\* --server-port-tcp overrides --server-port-udp, either overrides the file.
to_control_port(protos) ==
    CASE opts.tcp -> {"tcp"}
      [] ~opts.tcp /\ opts.udp -> {"udp"}
      [] ~opts.tcp /\ ~opts.udp -> IF "tcp" \in protos THEN {"tcp"} ELSE protos

\* resolve: a raw address of the other family is an error, and a host name
\* may or may not have a record.
Resolvable(f) == opts.host \in {"name", f}

-----------------------------------------------------------------------------
(* Which family comes next, and what the command returns *)

\* Mutant of knock_wants: IPv4 only as a fallback.
knock_wants_fallback(f) ==
    CASE AddrMode = "TryBoth" -> \/ opts.host = f
                                 \/ opts.host = "name" /\ (f = "Ipv4" => outcome["Ipv6"] = "err")
      [] AddrMode = "Both" -> f = "Ipv4" => outcome["Ipv6"] = "ok"
      [] OTHER -> AddrMode = f

knock_wants(f) ==
    CASE AddrMode = "TryBoth" -> \/ opts.host = f
                                 \/ opts.host = "name" /\ (f = "Ipv4" => outcome["Ipv6"] # "untried")
      [] AddrMode = "Both" -> f = "Ipv4" => outcome["Ipv6"] = "ok"
      [] OTHER -> AddrMode = f

\* Mutant of close_wants: IPv4 is a fallback also if both are asked for.
close_wants_fallback(f) ==
    CASE AddrMode = "TryBoth" /\ opts.host # "name" -> opts.host = f
      [] AddrMode \in {"TryBoth", "Both"} -> f = "Ipv4" => outcome["Ipv6"] = "err"
      [] OTHER -> AddrMode = f

close_wants(f) ==
    CASE AddrMode = "TryBoth" -> \/ opts.host = f
                                 \/ opts.host = "name" /\ (f = "Ipv4" => outcome["Ipv6"] = "err")
      [] AddrMode = "Both" -> f = "Ipv4" => outcome["Ipv6"] = "ok"
      [] OTHER -> AddrMode = f

Wanted(f) ==
    /\ outcome[f] = "untried"
    /\ IF cmd = "Knock" THEN knock_wants(f) ELSE close_wants(f)

AllFailed == \A f \in Families : outcome[f] # "ok"
OneFailed == \E f \in Families : outcome[f] = "err"

\* Mutant of Result: a failure over either family is an error.
ResultStrict == IF OneFailed THEN "err" ELSE "ok"

\* With TryBoth a host name needs one success; any other failure is returned.
Result ==
    IF (IF AddrMode = "TryBoth" /\ opts.host = "name" THEN AllFailed ELSE OneFailed)
    THEN "err" ELSE "ok"

-----------------------------------------------------------------------------
(* The steps of a command *)

Exit(e) == pc' = "idle" /\ exit' = e

Start(c) ==
    /\ pc = "idle" /\ runs < MaxRuns
    /\ cmd' = c /\ runs' = runs + 1
    /\ outcome' = Untried /\ resource' = NoResource
    /\ opened' = IF c = "Knock" THEN {} ELSE opened
    /\ \E l \in load(file, "Client") :
          \/ /\ ~l.ok
             /\ conf' = NewConfig
             /\ Exit("err")
          \/ /\ l.ok
             /\ conf' = l.val
             /\ pc' = "loaded" /\ exit' = "none"
    /\ UNCHANGED <<file, opts, open>>

User == IF opts.user = NoUser THEN conf.user ELSE opts.user

\* No sequence is run without a key of the user and a resource for the port.
Lookup ==
    /\ pc = "loaded"
    /\ \E r \in resource_id_by_port(conf, opts.port, User) :
          \/ /\ User \notin DOMAIN conf.keys \/ r = NoResource
             /\ Exit("err")
             /\ UNCHANGED resource
          \/ /\ User \in DOMAIN conf.keys /\ r # NoResource
             /\ resource' = r
             /\ pc' = "run" /\ UNCHANGED exit
    /\ UNCHANGED <<file, opts, cmd, conf, outcome, open, opened, runs>>

\* The server does what it was asked for over one family.
Done(f) ==
    IF cmd = "Knock"
    THEN /\ open' = open \cup {<<f, resource>>}
         /\ opened' = opened \cup {<<f, resource>>}
    ELSE /\ open' = open \ {<<f, resource>>}
         /\ UNCHANGED opened

\* One sequence. Client::new asserts that exactly one protocol is selected.
Attempt(f) ==
    /\ pc = "run" /\ Wanted(f)
    /\ \/ /\ Resolvable(f)
          /\ to_control_port(conf.port) \notin {{"tcp"}, {"udp"}}
          /\ Exit("panic")
          /\ UNCHANGED <<outcome, open, opened>>
       \/ /\ Resolvable(f)
          /\ to_control_port(conf.port) \in {{"tcp"}, {"udp"}}
          /\ \E r \in {"ok", "err"} : outcome' = [outcome EXCEPT ![f] = r]
          /\ Done(f)
          /\ UNCHANGED <<pc, exit>>
       \/ /\ Resolvable(f) => to_control_port(conf.port) \in {{"tcp"}, {"udp"}}
          /\ outcome' = [outcome EXCEPT ![f] = "err"]
          /\ UNCHANGED <<open, opened, pc, exit>>
    /\ UNCHANGED <<file, opts, cmd, conf, resource, runs>>

Finish ==
    /\ pc = "run" /\ \A f \in Families : ~Wanted(f)
    /\ Exit(Result)
    /\ UNCHANGED <<file, opts, cmd, conf, resource, outcome, open, opened, runs>>

Next ==
    \/ \E c \in {"Knock", "Close"} : Start(c)
    \/ Lookup
    \/ \E f \in Families : Attempt(f)
    \/ Finish

Spec == Init /\ [][Next]_vars

-----------------------------------------------------------------------------
(* Properties *)

\* Types; in particular a loaded configuration has a protocol for the control
\* port, and only identifiers as keys of its maps.
TypeOK ==
    /\ cmd \in {"none", "Knock", "Close"}
    /\ pc \in {"idle", "loaded", "run"}
    /\ exit \in {"none", "ok", "err", "panic"}
    /\ conf.port \in (SUBSET {"tcp", "udp"}) \ {{}}
    /\ conf.user \in Users
    /\ DOMAIN conf.keys \subseteq Users /\ DOMAIN conf.resources \subseteq Resources
    /\ resource \in Resources \cup {NoResource}
    /\ outcome \in [Families -> {"untried", "ok", "err"}]
    /\ open \subseteq Families \X Resources /\ opened \subseteq Families \X Resources
    /\ runs \in 0..MaxRuns

\* Whether a file is accepted, and what it means, does not depend on the order
\* in which a hash map hands out its options, on a client or on a server.
OrderIndependent ==
    \A v \in {"Client", "Server"} : \A l, m \in load(file, v) : l = m

\* In a file that was accepted a port belongs to one resource at most, so that the
\* lookup by port finds the same one whichever resource it meets first.
PortUnambiguous ==
    \A p \in Ports : \A r, s \in WithPort(conf.resources, p) : r = s

\* The assertions of Client::new hold for every combination of the port
\* setting in the file and the options on the command line.
NoClientPanic == exit # "panic"

Ran == pc = "idle" /\ resource # NoResource

\* The help of --ipv4 and --ipv6: without them an error is shown only if
\* nothing worked, with both of them if anything failed.
ExitAsDocumented ==
    Ran => CASE AddrMode = "TryBoth" -> exit = "err" <=> AllFailed
             [] AddrMode = "Both" -> exit = "err" <=> \E f \in Families : outcome[f] # "ok"
             [] OTHER -> exit = "err" <=> outcome[AddrMode] # "ok"

\* A close that reports success has closed everything that the last knock with the
\* same options opened, over either family and also if that knock failed half way.
\* Only for a host name without --ipv4 or --ipv6 may something be left, over a family
\* whose own close failed or, since run_close then stops after a success over IPv6,
\* was not tried.
CloseUndoesKnock ==
    Ran /\ cmd = "Close" /\ exit = "ok" =>
        \A p \in open \cap opened :
            AddrMode = "TryBoth" /\ opts.host = "name" /\ outcome[p[1]] # "ok"

\* A knock that reports success has opened the port: over both families with --ipv4
\* and --ipv6, over the one with one of them or with a raw address. For a host name
\* without them it is open over every family except those whose own sequence failed,
\* of which no error is shown, and over one of them at least.
KnockOpens ==
    Ran /\ cmd = "Knock" /\ exit = "ok" =>
        /\ \E f \in Families : <<f, resource>> \in open
        /\ \A f \in Families :
              \/ <<f, resource>> \in open
              \/ AddrMode \in Families \ {f}
              \/ AddrMode = "TryBoth" /\ opts.host \in Families \ {f}
              \/ AddrMode = "TryBoth" /\ opts.host = "name" /\ outcome[f] = "err"
=============================================================================
