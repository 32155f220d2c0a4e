------------------------------ MODULE Firewall ------------------------------
(***************************************************************************)
(* The firewall daemon letmeinfwd: the lease map of NftFirewall, the       *)
(* nftables chain in the kernel that has to agree with it, and the life of *)
(* the daemon around them (start, unix socket requests, periodic           *)
(* maintenance, signals, shutdown, crash, restart by systemd).             *)
(*                                                                         *)
(* Every operation on the firewall takes the tokio mutex around            *)
(* NftFirewall and awaits an nft child process while it holds it.  An      *)
(* operation is therefore two steps: Begin... takes the mutex and does     *)
(* what the code does before the await, Finish... is the completion of the *)
(* nft process and what the code does with its result.  The clock, signals *)
(* and crashes come in between; other operations do not.                   *)
(***************************************************************************)
EXTENDS Naturals, FiniteSets

CONSTANTS
    Addrs,       \* source addresses named in requests
    ValidAddrs,  \* the ones addr_check accepts (not all zeros, not all ones)
    Matchable,   \* the ones the configured nftables family can match
    Any,         \* the address of a rule without a source match
    Ports,       \* port numbers named in requests
    Configured,  \* ports of the resources in letmeind.conf
    CtrlPort,    \* the port letmeind listens on
    CtrlProtos,  \* the protocols it listens on
    TypesOf,     \* port -> the port types letmeind requests that port with
    Timeout,     \* nft_timeout, in units of the clock
    Debug,       \* conf.debug()
    NftFaults,   \* the kinds of operation whose nft process may fail
    MaxCopies    \* bound: how often one rule can be in the chain

Protos    == {"tcp", "udp"}
PortTypes == {"Tcp", "Udp", "TcpUdp"}
Kinds     == {"open", "close", "maintain", "rebuild", "shutdown", "init"}

ASSUME ConstAssumption ==
    /\ ValidAddrs \subseteq Addrs
    /\ Matchable \subseteq Addrs
    /\ Any \notin Addrs
    /\ Configured \subseteq Ports
    /\ CtrlPort \in Ports
    /\ CtrlProtos \subseteq Protos
    /\ TypesOf \in [Ports -> SUBSET PortTypes]
    /\ Timeout \in Nat
    /\ Debug \in BOOLEAN
    /\ NftFaults \subseteq Kinds
    /\ MaxCopies \in Nat \ {0}

\* enum LeasePort as the protocols a lease opens.
LeaseProtos(type) ==
    {t \in Protos : \/ type = "TcpUdp"
                    \/ type = "Tcp" /\ t = "tcp"
                    \/ type = "Udp" /\ t = "udp"}

\* The key of the lease map, (IpAddr, LeasePort), for what letmeind requests.
LeaseIds == {id \in [addr : Addrs, type : PortTypes, port : Ports] :
                id.type \in TypesOf[id.port]}

\* The rules letmeinfwd can put in its chain. The comment generated for a rule
\* is a rendering of exactly these three fields.
Rules == [addr : Addrs \cup {Any}, proto : Protos, port : Ports]

\* The rules of one lease.
RulesOf(id) == {[addr |-> id.addr, proto |-> t, port |-> id.port] :
                    t \in LeaseProtos(id.type)}

\* Both daemons read the same letmeind.conf, and get_resources refuses a second
\* resource for a port: letmeind asks for a port with one port type only. The
\* theorems assume this; letmeinfwd itself does not check the port type, and after
\* an edit of the file and a restart of letmeind it is not so.
OneType(p)     == \A s, t \in TypesOf[p] : s = t
OneTypePerPort == \A p \in Ports : OneType(p)

\* The rules that open letmeind's own port for everybody.
CtrlRules == {[addr |-> Any, proto |-> t, port |-> CtrlPort] : t \in CtrlProtos}

LeaseRules == {r \in Rules : r.addr \in Addrs}

-----------------------------------------------------------------------------
VARIABLES
    daemon,    \* process state of letmeinfwd
    cause,     \* why its main loop ended
    shutdown,  \* NftFirewall.shutdown
    leases,    \* NftFirewall.leases: lease id -> time left until its timeout
    op,        \* the operation that holds the mutex and awaits nft
    kernel,    \* the chain: how many copies of each rule it holds
    reply      \* the answer sent on the unix socket by the last step

vars == <<daemon, cause, shutdown, leases, op, kernel, reply>>

NoOp        == [kind |-> "none", ids |-> {}, ttl |-> 0]
NoLeases    == [id \in {} |-> 0]
EmptyChain  == [r \in Rules |-> 0]

\* Types: a lease has at most Timeout left, no rule is deleted that is not there, and
\* only operations of NftFirewall hold the mutex.
TypeOK ==
    /\ daemon \in {"exited", "failed", "init", "setup", "running", "exiting"}
    /\ cause \in {"none", "sigterm", "sigint", "socket", "maintain", "startup", "crash"}
    /\ shutdown \in BOOLEAN
    /\ DOMAIN leases \subseteq LeaseIds
    /\ leases \in [DOMAIN leases -> 0..Timeout]
    /\ op \in [kind : Kinds \cup {"none"}, ids : SUBSET LeaseIds, ttl : 0..Timeout]
    /\ kernel \in [Rules -> Nat]
    /\ reply \in {"none", "Ack", "Nack"}

Init ==
    /\ daemon = "exited"
    /\ cause = "none"
    /\ shutdown = FALSE
    /\ leases = NoLeases
    /\ op = NoOp
    /\ kernel = EmptyChain
    /\ reply = "none"

-----------------------------------------------------------------------------
(***************************************************************************)
(* What the batch of an operation does to the chain when nft accepts it.   *)
(***************************************************************************)

\* nftables_add_lease: append the rules of the lease.
Added(ids) ==
    [r \in Rules |-> IF \E id \in ids : r \in RulesOf(id) THEN kernel[r] + 1
                                                          ELSE kernel[r]]

\* Mutant of Removed: the delete command is generated although find_handle has
\* found nothing.
RemovedBlindly(ids) ==
    [r \in Rules |-> IF \E id \in ids : r \in RulesOf(id) THEN kernel[r] - 1 ELSE kernel[r]]

\* Mutant of Removed: only the TCP rule of a TCP and UDP lease is deleted.
RemovedTcpOnly(ids) ==
    [r \in Rules |-> IF /\ kernel[r] > 0 /\ r.proto = "tcp"
                        /\ \E id \in ids : r \in RulesOf(id)
                     THEN kernel[r] - 1
                     ELSE kernel[r]]

\* nftables_remove_leases: find_handle picks the first rule with the comment, so
\* one copy of each rule goes; a rule that is not there generates no command.
Removed(ids) ==
    [r \in Rules |-> IF kernel[r] > 0 /\ \E id \in ids : r \in RulesOf(id)
                     THEN kernel[r] - 1
                     ELSE kernel[r]]

\* Two leases of one batch resolve to the same handle: the second delete names a
\* rule the first has deleted, and the kernel refuses the whole batch.
HandleClash(ids) ==
    \E i, j \in ids : /\ i # j
                      /\ \E r \in RulesOf(i) \cap RulesOf(j) : kernel[r] > 0

\* Mutant of Rebuilt: the flush command is missing from the batch.
RebuiltWithoutFlush(ids) ==
    [r \in Rules |-> kernel[r] + IF r \in CtrlRules
                                THEN 1
                                ELSE Cardinality({id \in ids : r \in RulesOf(id)})]

\* Mutant of Rebuilt: the leases are not restored after the flush.
RebuiltControlOnly(ids) == [r \in Rules |-> IF r \in CtrlRules THEN 1 ELSE 0]

\* nftables_full_rebuild: flush, then the control port and every lease.
Rebuilt(ids) ==
    [r \in Rules |-> IF r \in CtrlRules
                     THEN 1
                     ELSE Cardinality({id \in ids : r \in RulesOf(id)})]

\* Mutant of Effect: NftFirewall::new only adds the control port rules.
EffectInitKeeps ==
    CASE op.kind = "open"     -> Added(op.ids)
      [] op.kind \in {"close", "maintain"} -> Removed(op.ids)
      [] op.kind = "rebuild"  -> Rebuilt(DOMAIN leases)
      [] op.kind = "init"     -> [r \in Rules |-> IF r \in CtrlRules THEN 1 ELSE kernel[r]]
      [] op.kind = "shutdown" -> EmptyChain
      [] OTHER                -> kernel

Effect ==
    CASE op.kind = "open"     -> Added(op.ids)
      [] op.kind = "close"    -> Removed(op.ids)
      [] op.kind = "maintain" -> Removed(op.ids)
      [] op.kind = "rebuild"  -> Rebuilt(DOMAIN leases)
      [] op.kind = "init"     -> Rebuilt({})
      [] op.kind = "shutdown" -> EmptyChain
      [] OTHER                -> kernel

\* nftables_apply_batch (and the listing before a delete). The kernel applies
\* all of a batch or none of it.
NftOk   == /\ op.kind = "maintain" => ~HandleClash(op.ids)
           /\ kernel' = Effect
NftFail == /\ \/ op.kind \in NftFaults
              \/ op.kind = "maintain" /\ HandleClash(op.ids)
           /\ kernel' = kernel

\* The mutex is free, and the process that owns it alive.
CanLock == daemon \in {"running", "exiting"} /\ op = NoOp

-----------------------------------------------------------------------------
(***************************************************************************)
(* Requests on the unix socket: FirewallConnection::handle_message.        *)
(***************************************************************************)

addr_check(addr) == addr \in ValidAddrs

\* Mutant of Acceptable: the control port is not refused.
AcceptableAnyPort(id) == addr_check(id.addr) /\ id.port \in Configured

Acceptable(id) ==
    /\ addr_check(id.addr)
    /\ id.port \in Configured
    /\ id.port # CtrlPort

\* A request that fails the checks is answered without taking the mutex.
RejectRequest(id) ==
    /\ daemon \in {"running", "exiting"}
    /\ ~Acceptable(id)
    /\ reply' = "Nack"
    /\ UNCHANGED <<daemon, cause, shutdown, leases, op, kernel>>

\* open_port for an address that has the lease: only its timeout is reset.
RefreshLease(id) ==
    /\ CanLock
    /\ Acceptable(id)
    /\ id \in DOMAIN leases
    /\ leases' = [leases EXCEPT ![id] = Timeout]
    /\ reply' = "Ack"
    /\ UNCHANGED <<daemon, cause, shutdown, op, kernel>>

\* open_port for a new lease. The lease is created, its timeout running, before
\* the await; it enters the map after it.
BeginOpen(id) ==
    /\ CanLock
    /\ Acceptable(id)
    /\ id \notin DOMAIN leases
    /\ id.addr \in Matchable
    /\ \A r \in RulesOf(id) : kernel[r] < MaxCopies
    /\ op' = [kind |-> "open", ids |-> {id}, ttl |-> Timeout]
    /\ reply' = "none"
    /\ UNCHANGED <<daemon, cause, shutdown, leases, kernel>>

\* statement_match_saddr refuses the address, no nft process is started.
OpenUnmatchable(id) ==
    /\ CanLock
    /\ Acceptable(id)
    /\ id \notin DOMAIN leases
    /\ id.addr \notin Matchable
    /\ reply' = "Nack"
    /\ UNCHANGED <<daemon, cause, shutdown, leases, op, kernel>>

\* Mutant of FinishOpen: the lease enters the map whatever nft says.
FinishOpenAlways ==
    /\ op.kind = "open"
    /\ \/ NftOk /\ reply' = "Ack"
       \/ NftFail /\ reply' = "Nack"
    /\ leases' = [id \in DOMAIN leases \cup op.ids |->
                      IF id \in op.ids THEN op.ttl ELSE leases[id]]
    /\ op' = NoOp
    /\ UNCHANGED <<daemon, cause, shutdown>>

FinishOpen ==
    /\ op.kind = "open"
    /\ \/ /\ NftOk
          /\ leases' = [id \in DOMAIN leases \cup op.ids |->
                            IF id \in op.ids THEN op.ttl ELSE leases[id]]
          /\ reply' = "Ack"
       \/ /\ NftFail
          /\ leases' = leases
          /\ reply' = "Nack"
    /\ op' = NoOp
    /\ UNCHANGED <<daemon, cause, shutdown>>

\* close_port: the lease leaves the map first. Without a lease the same removal
\* is tried with a made-up one.
BeginClose(id) ==
    /\ CanLock
    /\ Acceptable(id)
    /\ leases' = [i \in DOMAIN leases \ {id} |-> leases[i]]
    /\ op' = [kind |-> "close", ids |-> {id}, ttl |-> 0]
    /\ reply' = "none"
    /\ UNCHANGED <<daemon, cause, shutdown, kernel>>

\* With conf.debug() a failed removal is reported as a success.
FinishClose ==
    /\ op.kind = "close"
    /\ \/ NftOk /\ reply' = "Ack"
       \/ NftFail /\ reply' = IF Debug THEN "Ack" ELSE "Nack"
    /\ op' = NoOp
    /\ UNCHANGED <<daemon, cause, shutdown, leases>>

-----------------------------------------------------------------------------
(***************************************************************************)
(* Periodic maintenance: the firewall task of async_main.                  *)
(***************************************************************************)

\* Mutant of Expired: leases are pruned a unit of time early.
ExpiredEarly == {id \in DOMAIN leases : leases[id] <= 1}

\* prune_all_lease_timeouts, which compares now >= timeout.
Expired == {id \in DOMAIN leases : leases[id] = 0}

BeginMaintain ==
    /\ CanLock
    /\ cause # "maintain"
    /\ Expired # {}
    /\ leases' = [id \in DOMAIN leases \ Expired |-> leases[id]]
    /\ op' = [kind |-> "maintain", ids |-> Expired, ttl |-> 0]
    /\ reply' = "none"
    /\ UNCHANGED <<daemon, cause, shutdown, kernel>>

\* Mutant of FinishMaintain: no rebuild after a failed removal.
FinishMaintainNoRebuild ==
    /\ op.kind = "maintain"
    /\ NftOk \/ NftFail
    /\ op' = NoOp
    /\ reply' = "none"
    /\ UNCHANGED <<daemon, cause, shutdown, leases>>

\* A failed removal is followed by a full rebuild, still under the mutex; with
\* conf.debug() it counts as a success.
FinishMaintain ==
    /\ op.kind = "maintain"
    /\ \/ NftOk /\ op' = NoOp
       \/ NftFail /\ op' = IF Debug THEN NoOp ELSE [op EXCEPT !.kind = "rebuild"]
    /\ reply' = "none"
    /\ UNCHANGED <<daemon, cause, shutdown, leases>>

\* A failed rebuild ends the task and, through exit_fw_tx, the main loop.
FinishRebuild ==
    /\ op.kind = "rebuild"
    /\ \/ NftOk /\ UNCHANGED <<daemon, cause>>
       \/ /\ NftFail
          /\ daemon' = "exiting"
          /\ cause' = IF daemon = "running" THEN "maintain" ELSE cause
    /\ op' = NoOp
    /\ reply' = "none"
    /\ UNCHANGED <<shutdown, leases>>

\* Instant::now() moves on, whatever the daemon is doing.
Tick ==
    /\ \/ \E id \in DOMAIN leases : leases[id] > 0
       \/ op.ttl > 0
    /\ leases' = [id \in DOMAIN leases |-> IF leases[id] > 0 THEN leases[id] - 1 ELSE 0]
    /\ op' = [op EXCEPT !.ttl = IF @ > 0 THEN @ - 1 ELSE 0]
    /\ reply' = "none"
    /\ UNCHANGED <<daemon, cause, shutdown, kernel>>

-----------------------------------------------------------------------------
(***************************************************************************)
(* The life of the daemon: async_main, and systemd around it.              *)
(***************************************************************************)

\* NftFirewall::new flushes whatever an earlier process left in the chain.
Start ==
    /\ daemon \in {"exited", "failed"}
    /\ daemon' = "init"
    /\ cause' = "none"
    /\ shutdown' = FALSE
    /\ leases' = NoLeases
    /\ op' = [kind |-> "init", ids |-> {}, ttl |-> 0]
    /\ reply' = "none"
    /\ UNCHANGED kernel

FinishInit ==
    /\ op.kind = "init"
    /\ \/ NftOk /\ daemon' = "setup" /\ UNCHANGED cause
       \/ NftFail /\ daemon' = "failed" /\ cause' = "startup"
    /\ op' = NoOp
    /\ reply' = "none"
    /\ UNCHANGED <<shutdown, leases>>

\* FirewallServer::new, the PID file and the seccomp filter come after the rules
\* are in the chain; an error there leaves without shutdown.
Setup ==
    /\ daemon = "setup"
    /\ \/ daemon' = "running" /\ UNCHANGED cause
       \/ daemon' = "failed" /\ cause' = "startup"
    /\ reply' = "none"
    /\ UNCHANGED <<shutdown, leases, op, kernel>>

\* The main loop ends: SIGTERM, SIGINT or a failed accept (exit_sock_tx).
EndMainLoop(why) ==
    /\ daemon = "running"
    /\ daemon' = "exiting"
    /\ cause' = why
    /\ reply' = "none"
    /\ UNCHANGED <<shutdown, leases, op, kernel>>

BeginShutdown ==
    /\ daemon = "exiting"
    /\ op = NoOp
    /\ shutdown' = TRUE
    /\ leases' = NoLeases
    /\ op' = [kind |-> "shutdown", ids |-> {}, ttl |-> 0]
    /\ reply' = "none"
    /\ UNCHANGED <<daemon, cause, kernel>>

\* The process ends without another await. Its exit code is Ok only after
\* SIGTERM and a successful flush.
FinishShutdown ==
    /\ op.kind = "shutdown"
    /\ \/ NftOk /\ daemon' = IF cause = "sigterm" THEN "exited" ELSE "failed"
       \/ NftFail /\ daemon' = "failed"
    /\ op' = NoOp
    /\ reply' = "none"
    /\ UNCHANGED <<cause, shutdown, leases>>

\* SIGKILL or a panic (the release profile aborts): the lease map is lost, and
\* the nft process under way has taken effect or has not.
Crash ==
    /\ daemon \in {"init", "setup", "running", "exiting"}
    /\ daemon' = "failed"
    /\ cause' = "crash"
    /\ leases' = NoLeases
    /\ op' = NoOp
    /\ kernel' \in IF op.kind = "maintain" /\ HandleClash(op.ids)
                   THEN {kernel} ELSE {kernel, Effect}
    /\ reply' = "none"
    /\ UNCHANGED shutdown

-----------------------------------------------------------------------------
Request == \E id \in LeaseIds :
    \/ RejectRequest(id)
    \/ RefreshLease(id)
    \/ BeginOpen(id)
    \/ OpenUnmatchable(id)
    \/ BeginClose(id)

Finish ==
    \/ FinishOpen
    \/ FinishClose
    \/ FinishMaintain
    \/ FinishRebuild
    \/ FinishInit
    \/ FinishShutdown

Next ==
    \/ Request
    \/ Finish
    \/ BeginMaintain
    \/ Tick
    \/ Start
    \/ Setup
    \/ \E why \in {"sigterm", "sigint", "socket"} : EndMainLoop(why)
    \/ BeginShutdown
    \/ Crash

Spec == Init /\ [][Next]_vars

\* letmeinfwd.service says Restart=on-failure; a unit that was told to stop is
\* not restarted.
Restart == daemon = "failed" /\ cause # "sigterm" /\ Start

\* Time passes and nft processes end. The tokio mutex is a FIFO lock, so the
\* maintenance task and the shutdown get it however many requests there are.
\* nft and the rest of the startup succeed if they are tried again and again.
Fairness ==
    /\ WF_vars(Tick)
    /\ WF_vars(Finish)
    /\ SF_vars(BeginMaintain)
    /\ SF_vars(BeginShutdown)
    /\ WF_vars(Restart)
    /\ SF_vars(FinishInit /\ daemon' = "setup")
    /\ SF_vars(Setup /\ daemon' = "running")

FairSpec == Spec /\ Fairness

-----------------------------------------------------------------------------
(***************************************************************************)
(* Properties.                                                             *)
(***************************************************************************)

\* While letmeinfwd works, the port of every lease in its map is open in the
\* kernel: no failed nft call, refresh, neighbouring close or rebuild leaves a
\* client with a lease (so that its next knock only resets the timeout, see
\* open_port) but without the rule.
LeasedPortsAreOpen ==
    \A id \in DOMAIN leases : \A r \in RulesOf(id) : kernel[r] > 0

\* From the end of NftFirewall::new until shutdown flushes the chain, letmeind's
\* own port is open, through exactly one rule per protocol: no removal, rebuild
\* or failure loses or doubles it.
ControlPortOpen ==
    daemon \in {"setup", "running", "exiting"} =>
        \A r \in CtrlRules : kernel[r] = 1

\* While the daemon runs, every address-specific rule in the chain belongs to a
\* lease in the map, or to one that the operation in progress is removing. A
\* rule without a lease would never time out (maintain looks at leases only).
NoOrphanRules ==
    daemon = "running" =>
        \A r \in LeaseRules : kernel[r] > 0 =>
            \E id \in DOMAIN leases \cup op.ids : r \in RulesOf(id)

\* The assertions at the head of open_port, close_port and maintain, and the one
\* in Lease::new: nobody gets the mutex once shutdown has run, and no lease is
\* ever made for the control port.
FirewallAssertions ==
    op.kind \in {"open", "close", "maintain", "rebuild"} =>
        /\ ~shutdown
        /\ \A id \in op.ids : id.port # CtrlPort

\* What letmeind is told is true when it is told, for a port that is requested with
\* one port type. After the Ack of an open its rules are in the kernel and the lease
\* in the map, also if open_port had the lease already and has only reset its timeout;
\* after the Nack of an open and after the Ack of a close the kernel of the running
\* daemon has no rule of that lease left.
RepliesAreTrue ==
    [][/\ \A id \in LeaseIds : RefreshLease(id) /\ OneType(id.port) =>
              \A r \in RulesOf(id) : kernel'[r] > 0
       /\ daemon = "running" /\ op' = NoOp =>
          /\ op.kind = "open" /\ reply' = "Ack" =>
                /\ op.ids \subseteq DOMAIN leases'
                /\ \A id \in op.ids : \A r \in RulesOf(id) : kernel'[r] > 0
          /\ \/ op.kind = "open" /\ reply' = "Nack"
             \/ op.kind = "close" /\ reply' = "Ack"
             => \A id \in op.ids : OneType(id.port) =>
                    \A r \in RulesOf(id) : kernel'[r] = 0]_vars

\* A client is never cut off early: a lease with time left stays in the map, its
\* rules in the kernel, until that lease is closed by a request or the daemon
\* goes down. Neither maintenance, nor the rebuild after a failed removal, nor
\* the close of another lease touches it.
NeverClosedEarly ==
    [][\A id \in DOMAIN leases : leases[id] > 0 =>
          \/ /\ id \in DOMAIN leases'
             /\ \A r \in RulesOf(id) : kernel'[r] > 0
          \/ op'.kind = "close" /\ id \in op'.ids
          \/ shutdown'
          \/ daemon' = "failed"]_vars

\* Whatever nft calls fail and whenever the daemon dies, is stopped or restarted,
\* letmeinfwd keeps the promises of Leases: a port opens only by a granted lease,
\* stays open for as long as the lease runs, and only a request, the end of its
\* time or an outage takes a lease away.
LeaseSpec == INSTANCE Leases WITH
    Ids   <- {id \in LeaseIds : Acceptable(id)},
    Doors <- [id \in LeaseIds |-> RulesOf(id)],
    owed  <- leases,
    open  <- {r \in LeaseRules : kernel[r] > 0}

ImplementsLeases == LeaseSpec!Spec

\* Knocked-open ports are closed again: over and over, each rule is absent, or
\* was just knocked for (a lease refreshed or one being opened), or the operator
\* has stopped the unit.
KnockedPortsCloseAgain ==
    \A r \in LeaseRules : []<>(
        \/ kernel[r] = 0
        \/ \E id \in DOMAIN leases : r \in RulesOf(id) /\ leases[id] = Timeout
        \/ op.ttl = Timeout /\ \E id \in op.ids : r \in RulesOf(id)
        \/ daemon \in {"exited", "failed"} /\ cause = "sigterm")
=============================================================================
