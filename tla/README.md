# letmein: models, checks and proofs

letmein is an authenticated port knocker. A client (`letmein`) asks a server
(`letmeind`) over TCP or UDP to open or to close a port for its address; the
server authenticates it with a challenge and passes the request over a unix
socket to a privileged daemon (`letmeinfwd`), which adds or removes a rule in an
nftables chain and removes opened ports again after a timeout.

## Inventory

| part | state | operations | talks to |
|---|---|---|---|
| `letmeinfwd` firewall (`firewall.rs`, `firewall/nftables.rs`) | lease map, `shutdown` flag; the kernel chain | open, close, maintain, rebuild, shutdown | `nft` processes, awaited under a tokio mutex |
| `letmeinfwd` daemon and socket server (`main.rs`, `server.rs`) | tasks, main loop, unix socket | start, accept, handle a request, signals, exit | `letmeind`, systemd |
| UDP dispatcher (`letmein-proto/socket.rs`) | connection table with receive queues, a counter of queued datagrams, two watch channels | try_recv, accept, recv_from, disconnect | one socket shared by the accept task and all sessions |
| TCP sockets (`letmein-proto/socket.rs`) | a stream, a count of bytes done, a closed flag | send, recv, close | |
| messages (`letmein-proto/lib.rs`) | none | authenticate, challenge, serialise | |
| control protocol (`letmeind/protocol.rs`, `firewall_client.rs`) | user, resource, authentication state and challenge of a session | the message sequence, error policy, requests to `letmeinfwd` | client, `letmeinfwd` |
| `letmeind` daemon (`main.rs`, `server.rs`) | listeners, PID file, connection semaphore, sessions | start, accept, spawn and close sessions, signals | systemd; `letmeinfwd` reads the PID file |
| client (`letmein/client.rs`, `command/knock.rs`, `command/close.rs`) | position in the sequence | knock, close, address modes | `letmeind` |
| configuration (`letmein-conf`) | keys, resources, policy, timeouts | parse, look up | read by all three programs |
| firewall messages (`letmein-fwproto`) | count of bytes done | serialise, send, recv | unix stream between the daemons |
| seccomp, systemd, uid/gid, gen-key, resolver, verify | none or constant | wrappers around the system | |

What is hard here, and what a model checker reaches and a test does not:

* an `nft` process fails, or `letmeinfwd` dies, between the change of the lease
  map and the change of the kernel chain;
* requests, periodic maintenance, the clock, signals and shutdown compete for
  one mutex;
* several tasks read one UDP socket on each other's behalf and must wake each
  other; queues and the connection table overflow;
* datagrams are lost, delayed and duplicated, clients and sessions time out at
  different moments, and either daemon restarts in the middle;
* messages cross two byte streams in pieces, and a peer dies between two pieces;
* `letmeinfwd` checks connections against a PID file that is truncated, rewritten
  and removed by another process, and treats a failed check as fatal, while
  sessions of `letmeind` wait for it without a timeout.

`PROJECT.json` lists these as hazards with their lines. What makes each part
correct:

* firewall: it behaves as a lease service should; lease map and kernel agree; the
  control port stays open; nothing that was knocked open stays open; nobody is
  cut off early; for a port that is requested with one port type, replies are true;
* daemons: what a client said is what is carried out, byte formats and broken
  streams notwithstanding; no session of `letmeind` waits for ever for a `letmeinfwd`
  that rejects, stops or dies, and `letmeinfwd` never rejects (and so never stops
  because of) the `letmeind` that is running;
* dispatcher: the counter is exact, limits hold, datagrams reach the right
  session once and in order, no wake-up is lost;
* configuration and client: a file means the same in whatever order its options
  are read; exit status and help text agree; a knock that reports success has opened
  the port; a close undoes a knock;
* protocol: only authorised requests reach the firewall, once each; success is
  only reported when it happened; errors are only told to those who may know;
  everything ends.

## Modules

| module | models |
|---|---|
| `Firewall` | `NftFirewall`, the kernel chain, `handle_message`, `letmeinfwd`'s tasks and life cycle |
| `Leases` | abstract specification of `letmeinfwd` as a lease service |
| `FirewallProofs` | TLAPS proofs of the invariants of `Firewall` |
| `LeaseProofs` | TLAPS proof that `Firewall` implements `Leases` |
| `UdpProofs`, `ProtocolProofs`, `WireProofs`, `DaemonsProofs`, `ConfigProofs`, `ClientProofs` | TLAPS proofs about the module of that name (`UdpDispatcher` for the first) |
| `Wire` | both message formats byte by byte, and the progress of a send or receive loop (operators) |
| `Daemons` | both daemons as processes: start, PID file, accept tasks, semaphores, sessions, handlers, end and restart, with the streams between client, `letmeind` and `letmeinfwd`; uses `Wire` |
| `UdpDispatcher` | `UdpDispatcher`, `UdpDispatcherRx`, `NetSocketUdp` |
| `Knocking` | abstract specification of the control protocol |
| `Protocol` | client sequences, network, `Protocol::run`, requests to `letmeinfwd`; implements `Knocking` |
| `Config` | `Ini`, the getters, `Config::load`, the lookup by port |
| `Client` | `letmein knock` and `letmein close`: options, address modes, exit status; uses `Config` |
| `MCFirewall`, `MCUdpDispatcher`, `MCProtocol`, `MCClient`, `MCDaemons` | values of constants for TLC |

### Firewall

`leases` is the lease map, with the time left in place of an `Instant`; `kernel`
counts the copies of each rule in the chain (a rule is address, protocol and
port, which is what its comment spells out and how `find_handle` finds it);
`op` is the operation that holds the mutex and awaits `nft`. Each operation is
two actions. `Begin...` is the code before the await: `open_port` has created
the lease (its time runs), `close_port` and `maintain` have already taken
theirs out of the map. `Finish...` is the end of the `nft` process, successful
or not, and the code after it, up to the reply. The clock (`Tick`), signals
(`EndMainLoop`) and crashes come between the two.

`NftFaults` says which operations may fail in `nft`. Besides, the kernel refuses
a maintenance batch that deletes one handle twice, which happens when two
leases share a rule (`HandleClash`). After a refused maintenance batch comes the
full rebuild, a step of its own under the same mutex. A crash loses the map and
may or may not have let the running `nft` process finish; the next start
flushes the chain.

Mutual exclusion by the mutex, the atomicity of an `nft` batch and systemd's
`Restart=on-failure` are taken as given.

`Leases` is what all this amounts to for a client: `Grant` opens the doors of a
lease, `Cancel` and `Expire` end the claim to them, `Shut` closes doors nobody has a
claim to, and `Outage` cancels everything at once. `ImplementsLeases` maps the lease
map to `owed` and the address-specific rules with at least one copy in the chain to
`open`. `Leases` promises no more than the code keeps with failing `nft` calls: doors
without a claim may stay open. That they do not is `NoOrphanRules` and
`KnockedPortsCloseAgain`, which need more.

### Daemons and Wire

`Wire` transcribes the two serialisers and parsers, with buffers as sequences of
bytes, and `Received`, the receive buffer of a loop that has `count` bytes so far.
`U16`, `U32`, `IpAddr` and `Message` are the types of the fields; the assumption of
`Daemons` on its constants says that messages, addresses and ports have them.

`Daemons` puts a client, a session of `letmeind`, the unix stream and its handler in
`letmeinfwd` in a row, for each client. Writers and readers move on in steps of
at least one byte (`Advance`), so that a message is seen in pieces on both hops.
`letmeind` starts in three steps, because `make_pidfile` truncates the file before it
writes it; `letmeinfwd` reads the file whenever it accepts. Either process may end
at any step (`LmdDies`, `FwdCrashes`, signals), which closes its streams, and the
listening socket with its backlog unless systemd holds it. The end of `letmeind`'s main
loop (`LmdMainLoopEnds`) also drops the sessions in progress; `aborted` says that the
assertion of `Connection::drop` met one that was not closed. An error of `accept`
ends the accept task and then the daemon, in both. The permit of the semaphore
is dropped where the code drops it, at the end of the `if let`.
What a session does between the first message and the firewall is `Protocol`'s
subject, here it succeeds or fails; what `letmeinfwd` does with a request is
`Firewall`'s, here it is done or refused.

### UdpDispatcher

The runtime is single-threaded, so one action is what a task does between two
awaits. The socket has a buffer, a pending event and tokio's cached readiness,
which only a read that would block clears. `accept` and `recv_from` are select
loops over readiness and a watch channel; a watch channel is one bit ("unseen
value"), and only the `changed` branch clears it. The receiver of `recv_watch`
sits behind a mutex, so one session at a time is in its `select!`. An assertion
that fails sets `panicked` and stops everything, as `panic = "abort"` does; the
same holds for an underflow of the counter (`overflow-checks = true`).

### Protocol and Knocking

A peer is the source address and port of one client run (each run binds a new
ephemeral port). Messages on the way are sets; on UDP they may be lost, may
overtake each other and may be delivered again; on TCP they are delivered once
and the end of either side is seen by the other. An authentication code is the
key and the challenge it was made with. Challenges are numbered, because random
ones do not repeat. `RecvInitial` and `RecvResponse` carry all checks of
`Protocol::run` in their order as far as the order shows (which
authentication state a rejection happens in decides whether GoAway is sent).
`letmeinfwd` is seen from its unix socket: it does a request and acknowledges,
refuses it, or does it and dies before the reply; it goes on with a request
after `letmeind` has died. There is no timeout on its reply.

`Knocking` is the promise: a grant needs an authorised request, is what the
client asked for and happens once; success is reported after a grant.
`ImplementsKnocking` is the refinement.

### Config and Client

`Config` has no state of its own: a file is a sequence of lines, `parse_str` turns
it into sections, and `load` is the set of results that `Config::load` can have,
one for each order in which the hash maps of the sections hand out their options.
Text is kept as far as the parsers tell it apart: words, two spellings of an
identifier, items with keys. An option that only has to parse is good or "bad".

`Client` runs a few commands with the same options one after the other. `Start`
loads the file, `Lookup` finds key and resource, `Attempt` is one protocol
sequence over one address family with the results that `Knocking` allows
(success only if the server acted; failure whether or not it acted), `Finish`
returns. Which family comes next is `knock_wants` and `close_wants`, transcribed
from the `match` on the address mode of each command, with its `?` operators.

The three loops (over the lines of a file, over the keys, over the resources) are
recursive functions of the number of rounds, and a map grows by `insert`.

## Runs

| run | question | bounds |
|---|---|---|
| `fw_faults` | does `letmeinfwd` implement `Leases`, do lease map and kernel agree, is the control port open, do assertions hold, is nobody cut off early, with any `nft` call failing? | four addresses (one invalid, one that the family cannot match, two alike with symmetry), a TCP, a TCP/UDP, an unconfigured and the control port, timeout 1 |
| `fw_edited` | does no rule outlive its lease, are replies true (for ports with one type; those to a refresh included) and do all ports close again, if the `nft` calls of a close succeed, also when the two daemons know a port with different types? | one address, one port as TCP and as TCP/UDP, one as TCP/UDP, timeout 2, fairness |
| `fw_failed_close` | (violation) the same, when the `nft` call of a close fails | one address |
| `udp_wakeups` | is the counter exact, does a session keep its connection, is no wake-up lost? | two peers, two sessions, queues of 2, bursts of 2, well-formed datagrams |
| `udp_overflow` | when queues and the table overflow and datagrams are malformed, does the counter cover the queues, do both keep to their limits, are datagrams delivered once and in order? | three peers, two connections, queues of 2, bursts of 3, two sessions, five datagrams in all (symmetry of peers and sessions) |
| `udp_assert` | (violation) do the assertions hold after an overflow? | one peer |
| `udp_lost_accept` | (violation) is every queued connection accepted, with malformed datagrams? | two peers |
| `client` | does a file mean the same in any hash order, do the assertions hold, is the exit status the documented one, has a successful knock opened the port, does a close undo a knock? | one good file with all options, some 800 files that vary one section of it, every port setting of the file with the protocol options, three commands |
| `protocol` | does the protocol keep its promise, the error policy, and come to an end? | one peer, one request of each kind that the server tells apart, three error policies, TCP and UDP, three challenges, all faults or none |
| `daemons` | is exactly what clients say carried out, are acknowledgements true, is only a dead `letmeind` rejected, does every session end? | two clients (IPv4 knock; IPv6 close, wrong protocol or wrong first message), with and without systemd, messages split at one place, two faults, fairness |
| `daemons_drop` | (violation) are connections closed before they are dropped? | two clients, one fault |
| `daemons_limit` | (violation) are there at most `num_connections` sessions? | two clients, limit 1, no faults |

`MaxCopies`, `MaxBurst`, `MaxSent`, `MaxTotal`, `MaxNonce`, `MaxFaults` and `Cuts` are bounds of the
models, not of the code. Two copies of a rule are enough to tell "one" from "more"; a queue
of two with bursts of two reaches full and not full, and has an order; with bursts of three
one queue overflows while another holds datagrams, and five in all leave one or
two for the other queue, or for a peer that comes back; three challenges are enough
for a session, one that replays it and one more. Two leases per batch show
everything a batch of many does, because the rules of leases are independent
unless they share a rule.

Two options in a section are enough for every pair that `get_keys` and
`get_resources` compare, and three commands for a knock, a close and another.

Byte 13 is inside the address field of a firewall message and inside the
resource field of a control message, so that a prefix of either parses if the rest is
zero; both formats have fields that would be read from the wrong place otherwise,
as all bytes of the instance differ. Two faults let `letmeind` restart while
`letmeinfwd` stops, and let either of them fail twice. A lease with timeout 1 is
fresh, running or over; `fw_edited` has timeout 2.

Deadlock is not checked in the dispatcher, protocol, client and daemon runs: they
really stop when all clients are served or the user has run all commands.

### What the violations show

* `fw_failed_close`: `close_port` removes the lease first (`nftables.rs:592`) and
  returns the `nft` error (`:598`); the rule stays, and nothing looks for it any
  more until `letmeinfwd` restarts, or a rebuild or a second close happens.
  The same property also fails with `Debug = TRUE` and a failing maintenance: with
  `debug` on, failed removals count as successful (`nftables.rs:489`, `:509`), so
  the fallback of `maintain` is skipped.
* `daemons_drop`: after SIGTERM, SIGINT or a failed accept `async_main` returns without
  waiting for the sessions (`letmeind/main.rs:195-216`). The runtime drops their
  connections, not closed, and the assertion of `Connection::drop` (`server.rs:81`) aborts.
* `daemons_limit`: `_permit` lives in the `if let` of the accept task
  (`letmeind/main.rs:166`, `letmeinfwd/main.rs:257`), not in the session it was
  acquired for, so the semaphore limits nothing. Over UDP the size of the
  connection table still does.
* `udp_assert`: an overflow (`socket.rs:106`) forgets to subtract the removed
  queue from `nr_queued_dgrams`.
* `udp_lost_accept`: `try_accept` returns early on a read error although there is
  a connection to accept, after its wake-up was consumed. `recv_from` has the
  same shape, but there the error ends that session, which its client notices.

Two more divergences show with these models, though no run of their own is kept for them:

* A port was opened as TCP, then `letmeind` was restarted with the port as TCP and
  UDP, and closes it. `close_port` without a lease, documented as a no-op
  (`nftables.rs:574`), deletes by comment (`:601-611`) and takes the TCP rule of the
  lease with it. The lease stays in the map, and a knock for it is acknowledged as a
  refresh (`:562-563`) without a rule, until it times out. So `LeasedPortsAreOpen` fails
  as an invariant of `fw_edited`, and `RepliesAreTrue` speaks of a refresh only for
  ports with one type.
* For a host name without `-4` and `-6` `run_close` falls back to IPv4 only if IPv6
  failed (`close.rs:182`), while `run_knock` does both, and the help text says that both
  are tried (`main.rs:133-135`): after a knock over both families a close that reports
  success leaves IPv4 open. That is what `CloseUndoesKnock` has to allow.

Each property of a passing run has a mutant: a plausible mistake in one modelled
definition (kept next to it, commented "Mutant of") under which TLC finds the
property violated.

## Fairness

* `Firewall`: time passes; `nft` processes end; the tokio mutex is a FIFO lock,
  so maintenance and shutdown get it (strong fairness, because requests take it
  in between); systemd restarts a failed daemon, and startup succeeds if tried
  again and again.
* `UdpDispatcher`: the runtime polls its I/O driver and every task that can run;
  its mutex is a FIFO lock. Nothing is assumed of the network or of timeouts.
* `Daemons`: the tasks of both runtimes and systemd, taken together, go on as long as
  there is anything for them to do (weak fairness of `Work`; every session takes
  finitely many steps, so no fairness between them is needed). Signals, crashes
  and accept errors are not part of it, and nothing is assumed of clients.
* `Protocol`: clients and sessions take steps they can take (timeouts included),
  and `letmeinfwd` handles what it was sent. Nothing is assumed of the network.

## Proofs

TLAPS checks these for every value of the constants that the named assumption of the
module allows; TLC evaluates the assumption in every run.

### FirewallProofs and LeaseProofs

`FirewallProofs` proves for all sets of addresses, ports and configurations, any
timeout and any set of `nft` faults, under `ConstAssumption` (which TLC evaluates
in every run) and `OneTypePerPort` (`get_resources` refuses two resources for one
port):

* `TypeCorrect`, `LeasesOpen`, `ControlOpen`, `AssertionsHold`, `NotClosedEarly`;
* `NoOrphans` and `TrueReplies`, if in addition `debug` is off and the `nft` calls
  of a close succeed (`CloseIsReliable`). The violations above show that neither
  condition can be dropped, and the remark after them that `OneTypePerPort` cannot.

`LeaseProofs` proves `FirewallImplementsLeases` from `OneTypePerPort` alone, whatever `nft`
calls fail: the initial states agree, and each action of `Firewall` is one of
`Leases` or a stutter.

The argument: `LeasedPortsAreOpen` is not inductive, because a removal could
delete the rule of a lease in the map. `IndInv` adds `Apart` (the operation in
progress works on leases outside the map; two leases never share a rule,
`RulesDisjoint`) and `Phases` (which operation can run in which phase of the
process, and that `shutdown` is set only by the last one). `EffectSpares` says that
no batch touches the rules of leases in the map or of the control port; the
induction steps follow action by action. For `NoOrphans` the strengthening
`Accounted` adds that a rule is in the chain at most once (one deletion is enough)
and that the chain has no lease rules when the main loop starts (the flush of
`NftFirewall::new`). The refinement rests on `IndInv` and on `OpensAccepted` (an open in
progress is of one lease that passed the checks): `EffectOpensNothing` says that no
batch but that of an open makes a rule appear, `AddedDoors` and `ShutsDoors` what
opens and closes, and one lemma per group of actions picks the abstract step.

### UdpProofs

For any number of peers and sessions, all limits and whatever overflows: `TypeCorrect`
(the counter never goes below zero), `CounterCovers`, `Limits` and `InOrder`. `accept`
and `recv_from` both begin with `try_recv` and go on with what it left, so the parts of
`IndInv` are predicates of a socket buffer, a table and a counter (`Kept`): shown once of
the result of `try_recv`, then of what each caller does to it. The counter is
compared with the number of places in all queues (`Slots`, the pairs of a peer and
an index), because what a queue gains or loses is then one element of a finite set.
`DeliveredInOrder` needs `Ordered`: every number in a queue is later than what was
delivered and earlier than what the same peer has in the socket buffer.

`PanicFree` and `OwnedConnections` have the hypothesis `WithoutOverflow`: no more peers
than places in the table, and bursts that fit a queue. It holds in run
`udp_wakeups`; `udp_assert` shows that it cannot be dropped. `SafeInv` says that the
counter is exact, and that queue and socket buffer together never exceed a queue.

### ProtocolProofs

For any peers, requests, configuration, error policy, number of challenges and
faults: `TypeCorrect`, `Stealth`, and `KnockingImplemented`, the refinement of `Knocking`. The
difficult part is that a request is carried out at most once although late and
duplicated datagrams start new sessions. A client answers one challenge in its
life; a session accepts the answer to its own challenge only; a challenge is drawn
for one session. So (`GrantInv`) once `letmeinfwd` was asked (`Spent`) no session holds
a challenge that the client has answered. `ClientInv`, `RequestInv`, `ReplyInv` and
`SessionInv` say what clients, messages and sessions have to do with each other
for this; each is about one peer, and every action about one peer or a crash.

### WireProofs

`FwReadBack` and `MsgReadBack`: both parsers return what the serialisers were given, for
all values of the fields (a message without the magic number is refused). Every
field is a step: it is read back as written, and those before it are left alone
(`FieldWritten`).

### DaemonsProofs

For any clients, messages, configured resources, splitting of the streams and
number of faults: `TypeCorrect`, `EndToEnd`, `Acknowledged` and `RejectsDead`. `ProcessInv` and `PidInv` are about process ids: a session lives only
in a `letmeind` that has written its PID file, process ids grow, and what an earlier
process left in the backlog, or had rejected, is older than the one that is
starting; each start but the first is paid for by a fault. `StreamInv` is about one
client: what its session wants is fixed before the stream exists (`Said`), the
handler gets just that, and an Ack means that it was done. The step from bytes
to messages is `WireProofs`'. `CountInv` bounds the counts of bytes.

### ConfigProofs and ClientProofs

`KeysAnyOrder` and `ResourcesAnyOrder`: the loops of `get_keys` and `get_resources`, which stop
at the first thing they do not like, compute `KeysOf` and `ResourcesOf`, which are defined
of the set of names without any order. One round adds one name (`KeysRound`,
`ResourcesRound`); an iteration sees every name once (`Iteration`, from the finiteness of
what `parse_str` returns, `ParsedFile`); and the rounds are counted by induction. The
library's induction theorems cannot be used, so `Rounds` derives induction from the least
element of a set of numbers (`WFMin`), for a set in place of a predicate, and
`RunExists` shows that the recursive functions are defined. `LoadAnyOrder` and
`AcceptedOk` lift this to `Config::load` for every file.

`ClientProofs` proves every invariant of `Client`, under `ClientAssumption` (files and
options have their types) alone: `TypeCorrect`, `AnyOrder`, `Unambiguous`,
`ClientPanicFree`, `DocumentedExit`, `KnockedOpen` and `CloseUndoes`. For the last, a close must
ask for the resource that the knock opened, although each of them has loaded the
file anew: the file and the options determine it (`Candidates`, `OneCandidate`). The
other parts of `IndInv` say which families a command has tried (`Order`), that it
ends when nothing is left to try (`Ended`), and which doors were opened (`Doors`).
The proof of `Unambiguous` discharges for accepted files what `OneTypePerPort` assumes of
`get_resources`.

All inductive invariants were checked with TLC on the instances of the runs before
they were proved.

### What is only model-checked

* Liveness (`KnockedPortsCloseAgain`, the dispatcher's and the protocol's progress,
  `ServedToTheEnd`): the prover does not handle fairness.
* What the violation runs are about: `KnockedPortsCloseAgain`, `NoPanic`, `EventuallyAccepted`,
  `ClosedBeforeDrop` and `ConnectionLimit` fail there, and no theorem states them
  without the hypothesis that the run drops.

Every invariant, action property and refinement of a passing run is a theorem.

## Not modelled

* The characters of a configuration file; `Firewall` and `Protocol` take the loaded
  configuration as constants.
* In `Daemons`: sessions over UDP (see `UdpDispatcher`), processes other than `letmeind`
  that connect to `letmeinfwd` (so its user and group checks always pass), the
  reuse of process ids, and the length of a listening socket's backlog. A UDP session
  can abort `letmeind` (`udp_assert`); in `Daemons` that is one of the deaths of `LmdDies`.
* `letmeinfwd verify`, a subcommand for the shell tests: it looks for the comment
  `letmein_{addr}-{port}/{proto}` (`verify.rs:42`), while `gen_rule_comment`
  (`nftables.rs:125`) writes another one, so it never finds a rule. It keeps no state.
* seccomp, systemd wrappers, user and group lookup, key generation, name
  resolution, command lines: no state of their own, or a thin layer over the
  system.

## Plan

1. Done: all modules above, and the proofs of every safety property that a passing run
   checks.
2. A composition of `Protocol` with `Leases` in place of the external `letmeinfwd`.
