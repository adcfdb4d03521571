# A TLA+ model of netd

netd is the network daemon of Peios: it watches the kernel's links over rtnetlink, judges each
interface by registry rules, runs DHCPv4, IPv6 router discovery and stateless DHCPv6 where the
judgment's profile wants them, and brings the kernel's addresses and routes in line with what
follows from all that. This directory models it in TLA+, checks the models with TLC on small
instances, and proves what matters most with TLAPS for every instance.

Contents: 1 the system, 2 the modules, 3 the runs, 4 fairness, 5 the proofs, 6 where code and
documents disagree, 7 what is abstracted and what is not modelled, 8 what remains.

Paths are relative to `src/`; `manual/` stands for
`docs/learn/1--peios.shelf/peios.product/400--reference.antho/200--trms.shelf/700--netd.book/`.

## 1. The system

One thread runs `event_loop::run`: it polls every socket, runs the handlers of those that are
ready in a fixed order, advances the protocol clients' timers, and at the end of the iteration
makes a *full pass* (`Netd::converge`: identify networks, sync links, judge, start and stop
clients, reconcile, dump, again while the dump differs, publish), a *bare reconcile*, or
nothing. The protocol clients are libraries without I/O: a call gets the time and perhaps a
datagram, and returns actions. What runs concurrently with the thread is everything else: the
kernel, other programs that change it, servers and routers, operators who write the registry,
callers on the control socket.

| Part | Where | State | Operations | What is hard, and what makes it correct |
|---|---|---|---|---|
| DHCPv4 client | `dhcp4/src/client.rs` | protocol state, xid, offer, lease and when it was bound, retransmission, backoff, attempts, whether silence was reported | `start`, `release`, `renew_now`, `tick`, `receive`, `next_deadline` | Stale, duplicate and reordered replies, ticks that come late, an operator in between. A lease exists exactly in the states that use it, something is always scheduled, no tick spins, and the daemon hears of every change |
| Reading an ACK | `dhcp4/src/packet.rs` | none | `Lease::from_ack` | T1 < T2 < lease time whatever the server sent |
| SLAAC engine | `ndp/src/engine.rs` | routers, prefixes, temporary addresses, resolvers, MTU, DHCPv6 flags, solicitation schedule, last reported view | `start`, `receive`, `tick`, `next_deadline` | Lifetimes that shorten, end and overlap while the loop is late. No change of the view goes unreported, the two-hour rule holds, the search for a router starts again whenever the last one goes |
| DHCPv6 client | `dhcp6/src/lib.rs` | transaction, retransmission, refresh, last answer | `start`, `tick`, `receive`, `next_deadline` | Late answers, refresh times of zero. Exactly one timer, no answer to an earlier exchange, never faster than the floors |
| Interface lifecycle | `netd/src/main.rs` (`impl Interface`, `impl Netd`), `model.rs`, `restart.rs` | per interface: link, judgment, clients, lease, fallback, network, adopted kernel state | `sync_links`, `judge`, `start_*_where_due`, `stop_*`, `perform*`, `desired`, `remember_restart`, `finish_restart` | Carrier, verdict and protocol events in any order. Clients run only where they belong, the daemon's lease is the client's, nothing adopted is left behind |
| Network identification | `netd/src/main.rs`, `networks.rs`, `inventory.rs` | records in the registry, the network an interface stands on | `identify_networks`, `network_sync`, `set_requested_address` | An identification changes the profile, which changes the clients, which identify; and netd watches the records it writes. It must come to rest, and name the network the cable is in |
| Netlink transport | `netd/src/netlink.rs` | request socket, events socket, sequence number | `dump_*`, `request`, `receive`, `drain_events` | A dump is many datagrams and the kernel moves between them; failed calls leave replies behind; the events socket overflows. No call takes another's answer or waits for ever |
| Event loop | `netd/src/event_loop.rs` | descriptors polled, what the handlers asked for | `run`, `reload`, `receive_*`, `tick` | A handler that asks for too little leaves a change undecided or unpublished; descriptors freed during an iteration |
| Reconciliation | `netd/src/reconcile.rs`, `netlink.rs` | last dump | `plan_*`, `apply`, `reconcile_all`, `converge` | Plans made from a dump and applied to a kernel that has moved, one request at a time, each of which may fail. Own state only, standing addresses kept, never asleep over a difference |
| Configuration | `netd/src/config.rs`, `event_loop.rs`, `main.rs` | configuration, generation in force, registry watch | `load`, `watch`, `reload`, `take_generation` | Writes during a read, failing reads, a watch to be re-armed. A bad generation leaves the last good one |
| Rules and profiles | `netd-core/src/policy.rs`, `profile.rs`, `raw.rs`, `vendor/kernel/security/pkm/pnp_core/` | none | `build`, `judge`, `parse` | A most specific rule or a tie; total on what it accepts |
| Control socket | `netd/src/control.rs`, `main.rs` | slots with stream, partial message, deadline | `accept`, `service`, `reply`, `expire`, `handle_control` | Callers that stall, trickle and hang up; descriptor numbers that come back; all slots taken |
| Subscribers | `netd/src/main.rs` (`publish`, `send_nonblocking`) | streams, last snapshot, last level | `publish`, `subscribe` | Full socket buffers, subscribing in mid-iteration. Framed streams that end with the last snapshot |
| Inventory | `netd/src/inventory.rs`, `dhcp.rs` (`duid`) | interface records, client identifiers, the DUID in a file and in the registry | `sync`, `client_id`, `duid`, `machine_readiness` | Writes fail and the daemon dies between them. A restart finds the address to ask for, and introduces itself as before |
| Hostname | `netd/src/main.rs`, `netd-core/src/hostname.rs` | the name last set | `apply_hostname` | Names from the registry and from leases, in any order |
| Client sockets | `netd/src/dhcp.rs`, `ipv6.rs`, `ipv6_datagram.rs` | descriptors | `open`, `send`, `receive` | Opening fails |
| Audit and log | `netd/src/audit.rs`, `log.rs` | none | | Output |
| Libraries and tools | `libnetd/`, `netd-client/`, `netd-abi/`, `netd-core/src/lib.rs`, `net/` | a channel with a deadline | `connect`, `send`, `receive`, subscriptions | Framing across partial reads |

`PROJECT.json` lists these as components with what is and is not modelled of each, and the
hazards at the lines where they bite.

## 2. The modules

```
 LeaseService  <--implements--  Dhcp4Client --> Dhcp4Lease        Dhcp4Proofs
                                NdpEngine
                                Dhcp6Client                       Dhcp6Proofs
                                Netlink                           NetlinkProofs
                 Rtnl  <------  Reconcile                         ReconcileProofs
 Interface  <-----------------  Daemon
 Policy  <--------------------  Config                            ConfigProofs
                                Inventory
                                Control                           ControlProofs
```

**Dhcp4Lease** is `Lease::from_ack`: the acceptance of an ACK's times, T1 and T2 from the options
or from the lease time, with the checks that keep them in order.

**Dhcp4Client** has the fields of `Client` as variables. Instants are kept as ages and
times-to-go (`bound_age`, `retransmit_in`), which `Elapse` moves by one second, or past several
deadlines at once when no tick intervenes. Each branch of `tick` and `receive` is an action,
with the exhaustive remainder in `Ignore`; `event` holds what the call returned to the daemon.
The messages `receive` may see are all those of the constants: right and wrong transaction,
server, type and times.

**LeaseService** is the client as the daemon sees it: four phases, and what the events `Bound`,
`NoOffer` and `Lost` mean. `Dhcp4Client` implements it with `phase` computed from `state`. The
client part of **Interface** has the same phases, so `Daemon` composes the daemon with the
abstract client and the refinement says that it may.

**NdpEngine** has the fields of `Engine`; lifetimes are seconds left or `Forever`. `Receive`
handles one whole advertisement in the order of the code (router, flags, MTU, prefixes,
resolvers, expire, report); `Tick` expires, regenerates temporary addresses, solicits and
reports. `view` is what the accessors answer.

**Dhcp6Client** is the client, a server whose answer may change (`Reconfigure`) and the
answers under way, each of which may be lost, duplicated, delayed and reordered. `quiet` and
`answered` are histories: seconds since the last request and since the last accepted answer.

**Rtnl** is the kernel as netd uses it: what each rtnetlink request does to links, addresses
and routes, and when it is refused. It is external, taken from the requests and the expected errors.

**Netlink** is the transport beneath Reconcile's atomic dump. A call is a request with one
answer, or a dump of five parts in the order of `LinuxRtnl::dump`; the kernel answers a dump in
datagrams (`KernelSends`), moves between any two of them (`KernelMoves`), and may mark the dump
interrupted, fail it, refuse it as busy, or lose an answer. `receive` is one `recv` with
`decode_reply` on it: replies with another sequence number, left by a call that failed, are
skipped. `Wake`, `OtherWake` and `Redump` are the loop's three reasons to dump. What a message
says (`link_from_message`, `address_message` and so on) is translated field by field;
how the kernel stores it (`Stored`, `StoredRoute`) is external.

**Reconcile** has a kernel, the last dump, the desired state, and the plan being applied.
`MakePlan` is `reconcile::plan`, with the order as a rank on requests; each request is a step of
its own and may fail; `Redump` is the dump after it with the loop of `converge`; `DrainEvents` is
the rtnetlink arm of the loop; dumps may fail. `Elsewhere` is everybody else: other programs,
hotplug, links going down. `Want` is the rest of the daemon changing its mind.

**Interface** holds the decisions about one interface as operators over records: `identify`,
`sync_links`, `judge`, `start_dhcp_where_due`, `start_ipv6_where_due`, `desired`, `dns`,
`snapshot`, named after the functions they translate. A list of name servers is its source.

**Daemon** is the loop around them: handlers in their order (`stage`), the end of the iteration
(`Act`), a round of a pass (`Pass`, then `Dump`), and the world: cable, carrier, duplicate
address detection, link state, hotplug, operators who write policies and labels, lost leases,
silent routers, and a restart of the daemon at any moment.

**Policy** is `netd-core`'s `policy.rs` and `profile.rs` as operators: `parse` a profile from raw
values, `walk` the tree with inheritance and disabling, `lower` the rules, `build` a policy,
`judge` an interface; with `build_forest` and `evaluate` of the vendored `pnp_core` as netd calls
them. A rule answers where it and all above it match and no child of it does; one that abstains
is spoken for by the nearest ancestor with a verdict; the highest priority stands, then the
strictest, and two different ones of the same rank are a conflict.

**Config** is the registry around it. `load_root` is a list of single reads that operators'
writes fall between (`ReadNext`, `OperatorWrites`); a read may fail, the watch may break and is
re-armed, links come and go, and the daemon restarts. `reload` and `take_generation` are
translated whole. The policies of Daemon are what this comes to: a judgment for each label.

**Inventory** is what netd writes down: network records, interface records, DUID and client
identifiers, the hostname and the readiness level, for several interfaces. A pass is the list of
its handlers (`todo`), so that a crash (`Crash`, `Restart`) falls between any two; each write may
fail, to open the key or to set the value; each write that changes the registry wakes the watch,
as netd's own writes do. The DHCP clients are reduced to the leases they bring. `excused`
names what failed and has not been made good, and `echoes` counts the passes since
anything but netd moved.

**Control** is the control socket: `Poll` (with `expire`), a `Service` for every ready
descriptor in any order, `EndIteration` (accept, then the pass with its publish), interleaved
with callers that `Connect`, `Send`, `Receive` and `GiveUp`. Descriptors are the lowest free
numbers, so they are reused as the kernel reuses them. MAX_CLIENTS is a variable that never
changes, so that one run covers several limits.

Definitions marked as mutants are faulty versions of the definition that follows. Each
property has one that breaks it (`mutants` in `PROJECT.json`).

## 3. The runs

| Run | Module, configuration | Distinct states | Properties |
|---|---|---|---|
| `dhcp4` | MCDhcp4Client | 9,954 | Consistent, TickMakesProgress, ImplementsLeaseService, NothingLingers |
| `ndp` | MCNdpEngine | 61,849 | NothingMissed, OneFreshTemporary, TwoHourRule, KeepsAsking |
| `dhcp6` | MCDhcp6Client | 43,980 | OneTimerAhead, NoLateAnswer, Paced, CatchesUp |
| `netlink` | MCNetlink | 1,096,407 | NeverStuck, AsleepMeansSeen, ReadBack, AnswersAreOwn |
| `reconcile` | MCReconcile | 1,421,502 | NothingForeignPlanned, FullPassSettles, IdleMeansConverged, StandingAddressesKept, Quiesces |
| `daemon_safety` | MCDaemon | 1,481,231 | HeldIsTheClients, ClientsBelong, AsleepMeansSettled, NetworkIsHere, LeasedAddressKept |
| `daemon_liveness` | MCDaemon, MCDaemonLive.cfg | 144,411 | StopsSwitching, EventuallyAddressed |
| `config` | MCConfig | 495,542 | ConfigIsRegistry, RefusalIsTrue, JoinsEnabled, TakenWhole |
| `inventory` | MCInventory | 439,787 | EchoesEnd, RecordsCurrent, NameChosen, IdentityKept |
| `control` | MCControl | 678,758 | ServedAsPolled, SubscribersCurrent, SlotsTurnOver, EveryoneServed |
| `daemon_flapping` | MCDaemonFindings, MCDaemonFlap.cfg | violated | StopsSwitching |
| `inventory_shared` | MCInventory, MCInventoryShared.cfg | violated | ComesToRest |

The type invariants of Dhcp4Client, Dhcp6Client, Reconcile and Control are proved (section 5) and
so are not among the properties of their runs.

**What they show.** The comment above each property states it and names the code. In short:

- *DHCPv4.* A lease and its clock exist exactly in the states that use them, with T1 < T2 < lease
  time. A request always has what it asks for, so the "start over" branches of
  `send_request_for_offer` and `send_reboot_request` are dead. A started client always has a
  deadline; however late the loop, a due deadline takes at most three ticks. The events are
  those of LeaseService. Unanswered exchanges are given up, silence is reported, and a lease
  that has run out goes.
- *NDP.* As long as no deadline has come, what the accessors answer is what was last reported,
  which is the claim `emit_if_changed` and `next_deadline` make together. No tick leaves a
  deadline due. One fresh temporary address per preferred prefix; one advertisement cannot cut
  a prefix below two hours; a host without a router never stops asking.
- *DHCPv6.* One timer at all times; no answer to an earlier exchange is taken; requests keep the
  distance of the floors even from a server that names a refresh time of zero; once answers get
  through, the client publishes what the server says, and goes on following it.
- *Netlink.* A call that waits always has something to wait for. Whatever earlier calls left on
  the socket, each part of a dump is what its table held at one moment of that call, and a
  request's result is about that request. A dump is five such moments, not one; still, with
  nothing on the events socket and no failed dump, the loop goes to sleep over the
  kernel's state. What was granted reads back as it was asked for.
- *Reconciliation.* Requests only ever remove netd's own routes and no link-local address; an
  address that is held and wanted is never removed, however stale the dump; the plan's order is
  one the kernel can follow, and four rounds suffice when nobody interferes; the daemon never
  sleeps over a difference that it has neither been notified of nor logged; and it does go to
  sleep.
- *Daemon.* The daemon's lease is its client's, and adopted kernel state lasts as long as the
  INIT-REBOOT; clients run where they belong; asleep with nothing to read, another pass would
  change nothing and what was published holds; the recorded network is where the cable is (if
  netd sees the cable out, see section 6); a pass never takes a leased or adopted address. An
  interface stops switching and gets its address.
- *Configuration.* At rest with a quiet watch, what is in memory is what the registry holds,
  unless a write came in one of the three windows of section 6; a load that mixed two layers does not
  outlast the event that follows it. The refusal reported is the true one. A running daemon
  takes only generations that build and on which no interface present ties, and nothing joins a
  profile that is missing, disabled or under a disabled one.
- *Inventory.* At most three passes follow from one disturbance, although netd watches what it
  writes (the bound is tight: two is violated). At rest the remembered network is the record,
  and a restart would ask for the address the link holds. The name is the operator's or else a
  lease's, whichever came first. The identifiers netd made up outlive crashes and failed
  writes, as long as one of the two stores took them.
- *Control.* Readiness reaches the caller it was polled for, although descriptors are closed and
  reused within an iteration; a slot is freed within two timeouts however its caller trickles;
  a subscriber's stream stays framed and ends with the last snapshot published; everyone is let
  in, and everyone is answered or cut off.

**Bounds.** Limits keep the order and relations of the code's, scaled down, because the
comparisons are what the branches see.

- `dhcp4`: two addresses, servers and transactions tell right from wrong; four kinds of ACK
  (the shortest lease, one with the server's T1 and T2, one with T2 before T1, one too short);
  a backoff that doubles once. The renewal floor is below the remaining time of the longer lease
  and above that of the shorter, so both branches of `send_renewal` occur. No state constraint.
- `ndp`: two routers, one prefix and one resolver, since prefixes do not interact; thirteen
  advertisements with lifetimes below, at and above the two-hour limit, for ever, zero, and
  contradictory ones. Two temporary addresses is where the cut of the oldest happens.
- `dhcp6`: two answers under way with four transactions, so that an answer outlives its exchange
  and the next one; refresh times below and above the floor.
- `reconcile`: two IPv4 addresses in one subnet, an IPv6 address at two prefixes (the
  prefix-length change is where one key shadows another), a gateway that needs an address,
  two routers, routes of others with netd's protocol on another interface and on this one. Two
  disturbances (foreign change, new desire, failed request, failed dump), at any moments.
- `daemon_*`: two LANs, one of them dual-stack; five policies including a tie, one that does
  not build and one that shuts the interface; two disturbances. The liveness run has one lease
  per LAN and networks with one identity; `daemon_flapping` shows why the latter is needed.
- `netlink`: one table with two messages (a dump of several datagrams), others with one or none;
  a sequence number that wraps at 4; one notification fills the events socket; two rounds of
  converge and two faults (foreign change, refusal, lost or failed reply).
- `config`: two rules and a profile with a child; ten edits that make a tie, name what is
  missing, disable, break, remove, nest too deep, and write what no load accepts; three
  writes and one fault (failed read, broken watch, restart). Two writes make a mixture; the third
  comes during the reload after it. One interface that comes and goes.
- `inventory`: two interfaces with networks of their own, one of them with a router as well; two
  leases on the first, with and without a name; three disturbances, which are link and lease
  changes, operators' writes, failed writes, crashes and turns of the second. `inventory_shared`
  puts both interfaces on one network; its only disturbances are their two leases.
- `control`: two callers and limits of one slot (somebody has to wait) and two (descriptors are
  reused while others are ready); a timeout of two seconds, so that progress that extended a
  deadline would show; a socket buffer of three parts, so that a frame can be cut in the middle.
  One caller reconciles, the other subscribes; `status`, `renew` and a denial are the same step
  of either, and any request may turn out not to decode.

No run uses a state constraint or symmetry. Deadlock is checked except for Reconcile, Daemon and
Inventory, where an idle daemon with its disturbances spent has nothing to do.

## 4. Fairness

Only what the loop and the clock guarantee is assumed, and each liveness property says what
it needs beyond that.

- Time passes: `Elapse` is weakly fair in Dhcp4Client, NdpEngine and Dhcp6Client, and in Control
  as long as a client is held whose deadline has not come.
- The loop comes back: `poll_timeout` is the earliest deadline, so a due `Tick` or `Poll` happens;
  one thread carries a pass or an iteration to its end (`Netd` in Reconcile, Daemon and
  Inventory, `[]<>(phase = "poll")` in Control).
- The kernel finishes what it began (carrier, duplicate address detection) in Daemon.
- Servers and routers that are there answer one of infinitely many questions (strong fairness
  of `Bound`, `RebootEnds`, `RouterAdvert`, `Dhcp6Reply` in Daemon; the assumption `Answered`
  inside `CatchesUp`). Nothing of the sort is assumed for the properties of the DHCPv4 client.
- A caller of the control socket reads what is there (`Receive`); it may stop sending at any
  point, and give up at any point.

Several of these are written `[]<>~Enabled \/ []<><<A>>_vars` with the enabling condition as a
state predicate. That is weak fairness, and much cheaper for TLC. Netlink and Config are checked
for safety only: what they could be late with, the loop of Reconcile and Daemon waits for.

## 5. The proofs

`tlapm` checks six modules to the last leaf. They hold for all values of the constants that
satisfy the named assumptions of the component modules: lifetimes, limits, numbers of servers,
addresses, routes, callers and messages are arbitrary, and so is the number of disturbances.
Each inductive invariant was checked with TLC before it was proved.

**Dhcp4Proofs.** `TypeCorrect`, `LeaseSafety` (Consistent: LeaseMatchesState, TimersOrdered,
ExchangeInHand and Scheduled), `TickProgress` (TickMakesProgress) and
`Refinement` (ImplementsLeaseService). The inductive invariant adds `RetransmissionPending`,
every state but `Init` and `Bound` has a retransmission pending: `Scheduled` alone does not
survive a lost lease, whose boundary goes with it. `T1Bounds`, `T2Bounds` and `LeaseOfAck` are
the facts about `Lease::from_ack`; `BackoffType` and `RenewalType` those about the two ways of
scheduling, and need that jitter never takes a whole backoff (BackoffAssumption). The
refinement maps each action to one of LeaseService's or to a stutter.

**ReconcileProofs.** `TypeCorrect`, `Ownership` (NothingForeignPlanned), `Converged`
(IdleMeansConverged) and `AddressesKept` (StandingAddressesKept). The argument for `Converged`:
with nothing notified and no dump missed the last dump is the kernel (`DumpIsCurrent`), a
missed dump is logged (`StaleIsFailed`), and while a plan is applied with nothing notified and
nothing failed, all that a new plan would ask for is still pending (`RestPending`). The last
needs that every request of a plan changes the kernel and so notifies, or was refused
and so failed (`PlannedOpCounts`, with `AddAddressCounts` and `ClashCounts` for the two refusals
the code takes as benign). The invariant's `PendingSound` says that no pending removal
is aimed at what is wanted.

**Dhcp6Proofs.** `TypeCorrect`, `AlwaysScheduled` (OneTimerAhead), `LateAnswersIgnored`
(NoLateAnswer) and `RequestsPaced` (Paced). The strengthening is `ToldApart` (an answer under way
is late exactly when its transaction is not the current one, kept by drawing a fresh one) and
`Pacing` (the time since the last request or answer and the time left to the timer make up the
floor). `RequestsPaced` needs FIRST_RETRANSMIT <= REFRESH_MINIMUM, which the code's 1 s
and 600 s satisfy.

**ControlProofs.** `ReadinessIsTheClients` (ServedAsPolled) and `SlotsAlwaysTurnOver`
(SlotsTurnOver), for any number of callers and slots. The strengthening: back in `poll` nothing
is left to service, so `accept`, the only step that fills a free slot, never meets a descriptor
poll has spoken of; and `AllTimely`, the time a client has had its slot and the time left to it
make up one timeout while it is read and two while it is written, which is what "the deadline
is set once for the read and once for the write" comes to. `WithinLimit` is inductive because
`accept` counts the slots before it fills them.

**NetlinkProofs.** `CallsEnd` (NeverStuck), for any tables, requests and faults and any width of
the sequence number (SequenceAssumption, TablesAssumption). The strengthening is `Answered`: a
waiting call has a reply that ends it somewhere in the queue, behind whatever earlier calls left
there, or a dump of its own and a queue that is not empty, since the kernel goes on with a dump
each time a datagram is read, or an error to be told of. That the tables are finite makes
each dump end. `GrantedReadsBack` (ReadBack) is a fact about the conversions and what the kernel
stores, and rests on no step: `AddressReadsBack` and `RouteReadsBack` follow a request through
`address_message` or `route_message`, the kernel, and back. It needs what RequestsAssumption says of
requests: an IPv4 address carries neither flag, a default route has the unspecified destination.

**ConfigProofs.** `RefusalTold` (RefusalIsTrue) and `GenerationsTakenWhole` (TakenWhole), for any
registry and any edits during a load. RefusalIsTrue is inductive as it stands. `build` and `judge`
stay unexpanded but for the empty configuration, so both hold whatever the rules mean: all that
matters is that `reload` remembers the configuration it built from, skips building only when rules
and profiles are those of the last one, and that `take_generation` asks about ties before it
assigns. A restart in the middle of a reload goes back to the backstop, which is what the empty
configuration builds (`EmptyBuildsBackstop`) and never ties (`BackstopNeverTies`).

**Only model-checked.** All liveness (NothingLingers, KeepsAsking, CatchesUp, Quiesces,
StopsSwitching, EventuallyAddressed, EveryoneServed), which is out of the prover's reach under
fairness. FullPassSettles and SubscribersCurrent, whose invariants about the order of a plan and about the
frames of a stream were not worked out. AsleepMeansSeen and AnswersAreOwn, which hold only while
a sequence number does not come round to that of a reply still queued. ConfigIsRegistry and
JoinsEnabled, which rest on what the walk over the tree of profiles and the list of reads
compute. And everything about NdpEngine, Daemon and Inventory.

## 6. Where code and documents disagree

Two disagreements have a run whose counterexample shows them; `PROJECT.json` quotes the lines.

1. *Profiles that flap* (`daemon_flapping`). A label on a leased network that selects a profile
   without DHCPv4 but with IPv6 on a dual-stack network: the router's identity replaces the
   lease's, the label is gone, and the interface switches back, for ever.
2. *Two interfaces on one network* (`inventory_shared`). They share its record: each pass writes
   LastInterface and RequestedAddress once for each, and every write comes back through the
   watch as a reason for another pass (`inventory.rs:295`, against `event_loop.rs:244`: "a reload
   is idempotent, so that is merely cheap").

Others were met while modelling and have no run:

- A static `fe80::` address is asked for again on every pass: `reconcile.rs:104` leaves such
  addresses out of what is held and not out of what is wanted (against
  `manual/4--interfaces/3--reconciliation.md:21-22`, 65-66). `Sound` in Reconcile excludes it.
- A cable moved between two dumps is not seen, and the old network stays in Status
  (`main.rs:424`, against `manual/7--networks/1--identification.md:71-73`). NetworkIsHere sets
  the case apart.
- A key nested deeper than 16 makes the whole read fail (`config.rs:160`, as
  `manual/2--the-daemon/3--reading-the-registry.md:47-48` has it), where
  `manual/3--the-interface-layer/2--building-a-generation.md:63-65` has it ignored.
- DHCPv4 may report NoOffer anew after a lease that was bound and lost (`client.rs:295`, against
  `manual/11--failure-modes/1--failure-modes.md:68-70`).
- `reconcile.rs:205` takes EEXIST as benign, also for an IPv6 route kept out by somebody else's
  at the same metric: `Blocked` in Reconcile names this case.
- A static address equal to a deprecated autoconfigured one is wanted with two sets of flags
  (`main.rs:242`); `Sound` excludes it.
- A tie that only a later identification brings out leaves the interface judged a conflict
  (`main.rs:882`, against `manual/3--the-interface-layer/3--judging-an-interface.md:57-59`).
- The network record is read (`main.rs:492`) before the requested address is written to it (575).
- A label edit is not read again on an interface that has no identity at the moment
  (`main.rs:488`, against `manual/7--networks/2--records.md:47-48`).
- `netd-core/src/lib.rs:107` documents renewing as "Release and re-acquire"; `renew_now` renews.
- `main.rs:1245` says a snapshot is sent "whole or not at all"; a partial frame is possible, and
  the subscriber is dropped then, which SubscribersCurrent shows to be enough.
- A write to the registry goes unseen in three windows, until the next write: between the first
  load and the arming of the watch (`main.rs:1359`, 1381), while a failed watch is armed anew
  (`event_loop.rs:266`), and before a read that fails after its events were taken
  (`event_loop.rs:248`), against `manual/2--the-daemon/3--reading-the-registry.md:79-80`.
  ConfigIsRegistry shows that there is no fourth.

Further choices of the code that the models keep as they are: a Duid that an operator writes
after the configuration was read and before the first client starts is overwritten by the one
netd makes (`main.rs:541`); a client whose socket could not be opened is not tried again before
the next full pass (`main.rs:551`); the level goes to peinit as a datagram that may be lost
(`main.rs:842`).

## 7. What is abstracted, and what is not modelled

- *Bytes.* Messages are records of the fields that decide; parsing and building them, packet
  filters and checksums are left out.
- *Texts.* Which text is which address, number, action or identifier is a table of the instance
  (Policy, Config); no text is taken apart. A condition is a fact and the texts it may equal;
  `pnp_core` has other operators, which differ only in what they match.
- *Time* is whole seconds. A loop that is late is one in which `Elapse` happens before `Tick`.
- *One interface* in NdpEngine, Reconcile and Daemon. Interfaces share the loop, the netlink
  socket, the records and the hostname; Netlink and Inventory, where sharing matters, have several.
- *Dhcp6Client*: resolvers and search lists are one value; a fresh transaction differs from those
  under way (24 random bits in the code); a request that reaches the server is answered at once.
- *NdpEngine*: RDNSS and DNSSL are one set of resolvers; one option per prefix in an
  advertisement; an identifier is any unused one; the count of solicitations saturates where it
  stops mattering.
- *Netlink*: a table holds a few messages and a datagram one or two of them; the kernel's moves
  are those that a table of the instance allows; the two sockets are sequences, the events socket
  with a bound after which it overruns.
- *Daemon*: reconciling is one step (Reconcile takes it apart); `net reconcile` makes its pass at
  the end of the iteration, where its handler is the last; `net renew` shows only in Dhcp4Client;
  dumps and registry reads succeed (Reconcile, Netlink and Config have them fail); a router and
  its prefix expire together; MTU, metrics, hostname and the LastSeen stamps are left out.
- *Config*: an operator's write is one value or one key; the watch says that something changed,
  not what. *Inventory*: the clients are the leases they bring, identification and levels are as
  in Interface, the kernel does what it is asked.
- *Control*: a message is a length and a payload; too large and undecodable are one; the access
  check is a denial at any time; descriptors of other sockets are not counted; `accept` works.
- *External*: the kernel's side of rtnetlink (Rtnl, and the tables of Netlink), the registry and
  its watch (Config, Inventory), servers, routers, other programs.
- *Not modelled*: audit and log (output), `netd-client`, `netd-abi` and `net` (conversions and
  formatting), the C views of `libnetd`, the encodings of `netd-core/src/lib.rs`, the byte layouts
  of `dhcp4/src/packet.rs` and `ndp/src/packet.rs`, the sockets' options, the packet layers of
  `pnp_core`. They are functions of one input without state, which tests and the fuzz targets
  of the repository reach better than a model checker would.

## 8. What remains

1. **Daemon over Reconcile**: the one-step reconciling of Daemon as an abstraction of Reconcile
   (INSTANCE with a refinement mapping), and Reconcile's dump as one of Netlink.
2. **Two interfaces** in Daemon: metrics and the order of scopes in a snapshot.
3. **Proofs**: NdpEngine (TwoHourRule, NothingMissed; the sequence of temporary addresses is
   filtered by a predicate, and the typing of that needs an induction), Daemon
   (HeldIsTheClients, ClientsBelong), Netlink (AnswersAreOwn, from the
   assumption that no sequence number returns to a reply still queued), Config (ConfigIsRegistry).
