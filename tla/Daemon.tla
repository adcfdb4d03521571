------------------------------- MODULE Daemon -------------------------------
(***************************************************************************)
(* The daemon's loop around one interface (event_loop::run, the handlers   *)
(* of impl Interface, Netd::converge and Netd::publish), and the world it  *)
(* lives in: a cable that moves between LANs, servers and routers that     *)
(* answer, operators who edit the registry, a kernel that changes.         *)
(*                                                                         *)
(* Handlers only record what they learned; the end of the iteration acts   *)
(* on it with a full pass or a bare reconcile.  `stage` keeps the handlers *)
(* of an iteration in the order of event_loop::run.  Reconciling is one    *)
(* step here that does what it plans; module Reconcile takes it apart.     *)
(***************************************************************************)
EXTENDS Interface

CONSTANTS
    Lans,           \* what the cable may be plugged into
    LeasesOf,       \* the leases the DHCPv4 server of a LAN may grant
    RouterOf,       \* the identity a LAN's router gives it, None without one
    Asks6,          \* the LANs whose router asks for DHCPv6 (M or O)
    Policies,       \* the interface layers an operator may write
    StartPolicies,  \* those in the registry when the daemon starts
    StartLabels,    \* the labels on network records at that time
    Broken,         \* an interface layer that does not build
    SocketsFail,    \* opening a client's socket may fail
    MAX_PASSES,     \* the bound of the loop in Netd::converge: 4
    MAX_INDEX,      \* bound: how often the link may appear
    MAX_DISTURBANCES \* bound: what the world, operators and failures do

ASSUME DaemonAssumption ==
    /\ LeasesOf \in [Lans -> SUBSET Lease]
    /\ RouterOf \in [Lans -> Networks6 \cup {None}]
    /\ Asks6 \subseteq Lans
    /\ Policies \subseteq Policy \cup {Broken}
    /\ StartPolicies \subseteq Policies
    /\ StartLabels \in [Networks -> Labels]
    /\ SocketsFail \in BOOLEAN
    /\ MAX_PASSES \in Nat \ {0}
    /\ MAX_INDEX \in Nat \ {0}
    /\ MAX_DISTURBANCES \in Nat
    /\ None \notin Lans \cup Networks \cup Labels \cup Leasable \cup Lease \cup Client
                   \cup Engine \cup Record \cup Restart \cup Interface

Address == Leasable \cup {Static, LinkLocal4, Slaac}
Route == Networks \cup {Static}
Kernel == [present : BOOLEAN, index : Nat, up : BOOLEAN, carrier : BOOLEAN,
           addresses : SUBSET Address, routes : SUBSET Route,
           link_local : {"none", "tentative", "ready"}]
Desired == [up : BOOLEAN, addresses : SUBSET Address, routes : SUBSET Route]

\* Outcomes are told apart, and so are addresses of different origin.
ASSUME DistinctAssumption ==
    /\ Ignore # Down
    /\ {Ignore, Down} \cap Profile = {}
    /\ None \notin Desired
    /\ {Static, LinkLocal4, Slaac} \cap Leasable = {}

VARIABLES
    kernel,     \* the interface in the kernel
    lan,        \* where the cable is, None when it is nowhere
    registry,   \* the records netd writes and reads back
    written,    \* the interface layer an operator has written
    iface,      \* netd's entry for the interface, None without one
    observed,   \* the last dump
    config,     \* the interface layer last read
    policy,     \* the last good generation
    watch,      \* the registry watch has something to read
    events,     \* rtnetlink notifications wait
    stage,      \* how far this iteration of the loop has come, 0 in poll
    converge, reconcile,  \* what the handlers of this iteration ask for
    pc,         \* "loop", "pass" before the steps of a pass, "dump" after them
    full,       \* the pass is a converge, not a bare reconcile
    pass,       \* how many times this converge has gone round
    published,  \* the snapshot last published
    budget      \* disturbances left

world == <<kernel, lan, written>>
loop == <<stage, converge, reconcile, pc, full, pass>>
inputs == <<watch, events>>
generation == <<config, policy>>
vars == <<world, registry, iface, observed, generation, inputs, loop, published, budget>>

Disturbance ==
    /\ budget > 0
    /\ budget' = budget - 1

Backstop == [l \in Labels \cup {None} |-> Ignore]

(***************************************************************************)
(* main: a generation that does not build leaves the backstop; the first   *)
(* dump is followed by a full pass.                                        *)
(***************************************************************************)
Booted(layer) ==
    /\ config' = layer
    /\ policy' = IF layer = Broken THEN Backstop ELSE layer
    /\ iface' = None
    /\ observed' = kernel
    /\ watch' = FALSE /\ events' = FALSE
    /\ stage' = 0 /\ converge' = FALSE /\ reconcile' = FALSE
    /\ pc' = "pass" /\ full' = TRUE /\ pass' = 1
    /\ published' = None

Init ==
    /\ lan \in Lans \cup {None}
    /\ \E up \in BOOLEAN :
          kernel = [present |-> TRUE, index |-> 1, up |-> up, carrier |-> up /\ lan # None,
                    addresses |-> {}, routes |-> {},
                    link_local |-> IF up THEN "ready" ELSE "none"]
    /\ registry = [label |-> StartLabels,
                   requested_address |-> [n \in Networks |-> None],
                   network |-> None, last_network |-> None]
    /\ written \in StartPolicies
    /\ config = written
    /\ policy = IF written = Broken THEN Backstop ELSE written
    /\ iface = None
    /\ observed = kernel
    /\ watch = FALSE /\ events = FALSE
    /\ stage = 0 /\ converge = FALSE /\ reconcile = FALSE
    /\ pc = "pass" /\ full = TRUE /\ pass = 1
    /\ published = None
    /\ budget = MAX_DISTURBANCES

(***************************************************************************)
(* netd dies at any moment and peinit starts it again (RestartPolicy 2).   *)
(***************************************************************************)
Restarts ==
    /\ Disturbance
    /\ Booted(written)
    /\ UNCHANGED <<world, registry>>

-----------------------------------------------------------------------------
(***************************************************************************)
(* The handlers of one iteration, in their order.                          *)
(***************************************************************************)
Handler(n) ==
    /\ pc = "loop" /\ stage <= n
    /\ stage' = n
    /\ UNCHANGED <<world, registry, pc, full, pass, published>>

Running(client) == iface # None /\ iface[client] # None

\* 1: rtnetlink.  Read the notifications away, dump, and always converge.
DrainEventsIfChanged ==     \* mutant
    /\ Handler(1) /\ events
    /\ events' = FALSE
    /\ observed' = kernel
    /\ converge' = (kernel # observed)
    /\ UNCHANGED <<iface, generation, watch, reconcile, budget>>

DrainEvents ==
    /\ Handler(1) /\ events
    /\ events' = FALSE
    /\ observed' = kernel
    /\ converge' = TRUE
    /\ UNCHANGED <<iface, generation, watch, reconcile, budget>>

\* 2: the registry watch.  A new interface layer is taken unless it does not
\* build or ties on the interface as it stands; the last good one stays then.
Ties(layer) == iface # None /\ judge(layer, facts(iface)).conflict

take_generation(fresh) ==
    policy' = IF fresh = Broken \/ Ties(fresh) THEN policy ELSE fresh

ReloadWithoutPass ==    \* mutant
    /\ Handler(2) /\ watch
    /\ watch' = FALSE
    /\ config' = written
    /\ IF written # config THEN take_generation(written) ELSE UNCHANGED policy
    /\ UNCHANGED <<iface, observed, events, converge, reconcile, budget>>

Reload ==
    /\ Handler(2) /\ watch
    /\ watch' = FALSE
    /\ config' = written
    /\ IF written # config THEN take_generation(written) ELSE UNCHANGED policy
    /\ converge' = TRUE
    /\ UNCHANGED <<iface, observed, events, reconcile, budget>>

\* Interface::perform for one action of the DHCPv4 client, which is in `phase`
\* afterwards: leaving the INIT-REBOOT ends what was kept for it.
finish_restartIfBound(i) == IF i.dhcp.phase = "held" THEN [i EXCEPT !.restart = None] ELSE i    \* mutant
finish_restart(i) == IF i.dhcp.phase # "rebooting" THEN [i EXCEPT !.restart = None] ELSE i

DhcpEvent(i, changed) ==
    /\ iface' = finish_restart(i)
    /\ reconcile' = (reconcile \/ changed \/ finish_restart(i).restart # i.restart)
    /\ UNCHANGED <<observed, generation, inputs, converge>>

Answering == kernel.up /\ kernel.carrier /\ lan # None

\* 3: an ACK of the server on the LAN.
Bound(l) ==
    /\ Handler(3) /\ Running("dhcp") /\ Answering
    /\ l \in LeasesOf[lan]
    /\ iface.dhcp.phase = "held" => l.network = iface.dhcp.lease.network
    /\ DhcpEvent([iface EXCEPT !.dhcp = [phase |-> "held", lease |-> l,
                                         previous |-> None, reported |-> FALSE],
                               !.lease = l, !.link_local = FALSE,
                               !.discovery_unanswered = FALSE, !.rejudge = TRUE], TRUE)
    /\ UNCHANGED budget

\* 3 or 6: the INIT-REBOOT is refused, or goes unanswered twice.
RebootEnds ==
    /\ Handler(3) \/ Handler(6)
    /\ Running("dhcp") /\ iface.dhcp.phase = "rebooting"
    /\ DhcpEvent([iface EXCEPT !.dhcp.phase = "acquiring", !.dhcp.previous = None], FALSE)
    /\ UNCHANGED budget

\* 6: discovery went unanswered.
NoOffer ==
    /\ Handler(6) /\ Running("dhcp")
    /\ iface.dhcp.phase = "acquiring" /\ ~iface.dhcp.reported
    /\ LET falls_back == managed(iface) /\ profile(iface).link_local /\ ~iface.link_local
       IN  DhcpEvent([iface EXCEPT !.dhcp.reported = TRUE, !.discovery_unanswered = TRUE,
                                   !.link_local = @ \/ falls_back], falls_back)
    /\ UNCHANGED budget

\* 3 or 6: the lease is refused or runs out.
Lost ==
    /\ Disturbance
    /\ Handler(3) \/ Handler(6)
    /\ Running("dhcp") /\ iface.dhcp.phase = "held"
    /\ LET keep == managed(iface) /\ profile(iface).keep
       IN  DhcpEvent([iface EXCEPT !.dhcp.phase = "acquiring", !.dhcp.lease = None,
                                   !.lease = IF keep THEN @ ELSE None], ~keep)

\* 4: the routers speak.  5: DHCPv6 is answered.  7: the routers fall silent.
\* The engine reports a change of what it shows, and only that.
NdpEvent(engine) ==
    /\ iface' = [iface EXCEPT !.ndp = engine]
    /\ converge' = (converge \/ engine # iface.ndp)
    /\ UNCHANGED <<observed, generation, inputs, reconcile>>

RouterAdvert ==
    /\ Handler(4) /\ Running("ndp") /\ Answering
    /\ RouterOf[lan] # None
    /\ NdpEvent([router |-> RouterOf[lan],
                 dhcp6_wanted |-> iface.ndp.dhcp6_wanted \/ lan \in Asks6])
    /\ UNCHANGED budget

Dhcp6Reply ==
    /\ Handler(5) /\ Running("dhcp6") /\ Answering
    /\ iface.dhcp6 = "asking"
    /\ iface' = [iface EXCEPT !.dhcp6 = "answered"]
    /\ reconcile' = TRUE
    /\ UNCHANGED <<observed, generation, inputs, converge, budget>>

RouterExpires ==
    /\ Disturbance
    /\ Handler(7) /\ Running("ndp")
    /\ iface.ndp.router # None
    /\ NdpEvent([iface.ndp EXCEPT !.router = None])

\* 8: `net reconcile`.  Its pass runs inside the handler, which is the last.
ControlReconcile ==
    /\ Disturbance
    /\ Handler(8)
    /\ converge' = TRUE
    /\ UNCHANGED <<iface, observed, generation, inputs, reconcile>>

(***************************************************************************)
(* The end of the iteration.                                               *)
(***************************************************************************)
Act ==
    /\ pc = "loop" /\ stage > 0
    /\ stage' = 0 /\ converge' = FALSE /\ reconcile' = FALSE
    /\ LET all == converge \/ (iface # None /\ iface.rejudge)
       IN  IF all \/ reconcile
           THEN pc' = "pass" /\ full' = all /\ pass' = 1
           ELSE UNCHANGED <<pc, full, pass>>
    /\ UNCHANGED <<world, registry, iface, observed, generation, inputs, published, budget>>

(***************************************************************************)
(* One round of Netd::converge, up to the requests it makes; a bare        *)
(* reconcile makes the requests only.                                      *)
(***************************************************************************)
Sockets == {"dhcp", "ndp", "dhcp6"}

Round(opens) ==
    LET identified == IF iface = None THEN None ELSE identify(iface, registry)
        noted == IF iface = None THEN registry ELSE set_requested_address(iface, registry)
        synced == sync_links(identified, observed, policy)
        recorded == inventory_sync(synced, noted)
        started == start_dhcp_where_due(synced, observed, recorded, opens)
    IN  [iface |-> start_ipv6_where_due(started, observed, opens), registry |-> recorded]

\* Bringing a link up makes its link-local address and, where the cable is in,
\* the carrier: at once on a virtual link, later on others.  Taking it down
\* takes routes and IPv6 addresses with it.
Raised(k, carrier) == [k EXCEPT !.up = TRUE, !.carrier = carrier, !.link_local = "tentative"]
Lowered(k) == [k EXCEPT !.up = FALSE, !.carrier = FALSE, !.link_local = "none",
                        !.addresses = @ \ {Slaac}, !.routes = {}]

\* The plan, made from the last dump, applied to the kernel as it is now.
Requested(k, o, d, carrier) ==
    LET link == IF d.up /\ ~o.up /\ ~k.up THEN Raised(k, carrier)
                ELSE IF ~d.up /\ o.up /\ k.up THEN Lowered(k) ELSE k
        addressed == [link EXCEPT !.addresses =
                          (@ \ (o.addresses \ d.addresses))
                          \cup {a \in d.addresses \ o.addresses : a = Slaac => link.up}]
    IN  IF link.up
        THEN [addressed EXCEPT !.routes = (@ \ (o.routes \ d.routes)) \cup (d.routes \ o.routes)]
        ELSE addressed

Apply(i) ==
    IF i = None \/ ~observed.present \/ ~kernel.present
    THEN UNCHANGED kernel
    ELSE IF desired(i) = None
    THEN UNCHANGED kernel
    ELSE \E carrier \in {FALSE, lan # None} :
             kernel' = Requested(kernel, observed, desired(i), carrier)

Pass ==
    /\ pc = "pass"
    /\ pc' = "dump"
    /\ IF full
       THEN \E opens \in SUBSET Sockets :
                /\ IF opens = Sockets THEN UNCHANGED budget ELSE SocketsFail /\ Disturbance
                /\ iface' = Round(opens).iface
                /\ registry' = Round(opens).registry
       ELSE UNCHANGED <<iface, registry, budget>>
    /\ Apply(iface')
    /\ events' = (events \/ kernel' # kernel)
    /\ watch' = (watch \/ registry' # registry)
    /\ UNCHANGED <<lan, written, observed, generation, stage, converge, reconcile, full, pass,
                   published>>

(***************************************************************************)
(* The dump after it: go round again while it differs, then publish.       *)
(***************************************************************************)
Dump ==
    /\ pc = "dump"
    /\ observed' = kernel
    /\ IF full /\ kernel # observed /\ pass < MAX_PASSES
       THEN pc' = "pass" /\ pass' = pass + 1 /\ UNCHANGED published
       ELSE pc' = "loop" /\ pass' = 0 /\ published' = snapshot(iface, kernel)
    /\ UNCHANGED <<world, registry, iface, generation, inputs, stage, converge, reconcile, full,
                   budget>>

-----------------------------------------------------------------------------
(***************************************************************************)
(* The world.  Every change in the kernel is notified.                     *)
(***************************************************************************)
KernelMoves ==
    /\ events' = TRUE
    /\ UNCHANGED <<written, registry, iface, observed, generation, watch, loop, published>>

\* A netd that looks sees the cable out before it is in again.
SeenOut == iface # None => ~Carrier(iface.link)

Unplug ==
    /\ Disturbance
    /\ lan # None
    /\ lan' = None
    /\ kernel' = [kernel EXCEPT !.carrier = FALSE]
    /\ KernelMoves

Plug ==
    /\ lan = None
    /\ SeenOut
    /\ lan' \in Lans
    /\ kernel' = [kernel EXCEPT !.carrier = kernel.up]
    /\ KernelMoves
    /\ UNCHANGED budget

CarrierComes ==
    /\ kernel.present /\ kernel.up /\ ~kernel.carrier /\ lan # None
    /\ kernel' = [kernel EXCEPT !.carrier = TRUE]
    /\ KernelMoves
    /\ UNCHANGED <<lan, budget>>

DadDone ==
    /\ kernel.link_local = "tentative"
    /\ kernel' = [kernel EXCEPT !.link_local = "ready"]
    /\ KernelMoves
    /\ UNCHANGED <<lan, budget>>

AdminDown ==
    /\ Disturbance
    /\ kernel.present /\ kernel.up
    /\ kernel' = Lowered(kernel)
    /\ KernelMoves
    /\ UNCHANGED lan

Disappear ==
    /\ Disturbance
    /\ kernel.present /\ kernel.index < MAX_INDEX
    /\ kernel' = [Lowered(kernel) EXCEPT !.present = FALSE, !.addresses = {}]
    /\ KernelMoves
    /\ UNCHANGED lan

Appear ==
    /\ ~kernel.present
    /\ kernel' = [kernel EXCEPT !.present = TRUE, !.index = @ + 1]
    /\ KernelMoves
    /\ UNCHANGED <<lan, budget>>

(***************************************************************************)
(* Operators, through the registry; each write is delivered to the watch.  *)
(***************************************************************************)
Operator ==
    /\ Disturbance
    /\ watch' = TRUE
    /\ UNCHANGED <<kernel, lan, iface, observed, generation, events, loop, published>>

WritePolicy(p) ==
    /\ Operator
    /\ p # written
    /\ written' = p
    /\ UNCHANGED registry

WriteLabel(n, l) ==
    /\ Operator
    /\ l # registry.label[n]
    /\ registry' = [registry EXCEPT !.label[n] = l]
    /\ UNCHANGED written

Netd ==
    \/ DrainEvents
    \/ Reload
    \/ Act
    \/ Pass
    \/ Dump

Clients ==
    \/ \E n \in Lans : \E l \in LeasesOf[n] : Bound(l)
    \/ RebootEnds
    \/ NoOffer
    \/ Lost
    \/ RouterAdvert
    \/ Dhcp6Reply
    \/ RouterExpires

World ==
    \/ Unplug
    \/ Plug
    \/ CarrierComes
    \/ DadDone
    \/ AdminDown
    \/ Disappear
    \/ Appear

Next ==
    \/ Netd
    \/ Clients
    \/ World
    \/ ControlReconcile
    \/ Restarts
    \/ \E p \in Policies : WritePolicy(p)
    \/ \E n \in Networks, l \in Labels : WriteLabel(n, l)

Spec == Init /\ [][Next]_vars

(***************************************************************************)
(* The loop runs on: poll returns when something waits, and one thread     *)
(* carries a pass to its end (WF_vars(Netd); Busy is its ENABLED, written  *)
(* out).  Of the others: the kernel finishes what it began, time passes,   *)
(* and servers and routers that are there answer one of infinitely many    *)
(* questions, which the clients keep asking.                               *)
(***************************************************************************)
Busy == pc # "loop" \/ stage > 0 \/ events \/ watch

Fairness ==
    /\ []<>~Busy \/ []<><<Netd>>_vars
    /\ WF_vars(CarrierComes) /\ WF_vars(DadDone) /\ WF_vars(Appear)
    /\ SF_vars(RebootEnds)
    /\ SF_vars(\E n \in Lans : \E l \in LeasesOf[n] : Bound(l))
    /\ SF_vars(RouterAdvert)
    /\ SF_vars(Dhcp6Reply)

FairSpec == Spec /\ Fairness

-----------------------------------------------------------------------------
(***************************************************************************)
(* Properties.                                                             *)
(***************************************************************************)

Asleep == pc = "loop" /\ stage = 0

\* What an interface holds is its client's, whatever order events, carrier and
\* verdicts come in.  The daemon's copy of the lease is the client's own, except
\* that OnExpiry = Keep goes on holding a lease the client has lost; and kernel
\* state adopted after a restart of the daemon is kept only while its
\* INIT-REBOOT is pending and is for the address asked for, so that no end of the
\* exchange leaves it behind (Interface::perform, stop_dhcp, remember_restart,
\* finish_restart).
HeldIsTheClients ==
    iface # None =>
        /\ IF iface.dhcp = None
           THEN iface.lease = None
           ELSE \/ iface.lease = iface.dhcp.lease
                \/ iface.dhcp.phase = "acquiring" /\ managed(iface) /\ profile(iface).keep
        /\ iface.restart # None =>
              /\ iface.dhcp # None /\ iface.dhcp.phase = "rebooting"
              /\ iface.restart.address = iface.dhcp.previous
              /\ iface.lease = None

\* Clients run only where they belong: between passes, a client runs on a
\* joined interface whose profile wants it and that has carrier as far as netd
\* knows, DHCPv6 only beside a router that asked for it, and the fallback
\* address stands only for a discovery that went unanswered.
ClientsBelong ==
    pc = "loop" /\ iface # None =>
        /\ iface.dhcp # None => managed(iface) /\ profile(iface).dhcp4 /\ Carrier(iface.link)
        /\ iface.ndp # None => managed(iface) /\ profile(iface).autoconf6 /\ Carrier(iface.link)
        /\ iface.dhcp6 # None => iface.ndp # None /\ iface.ndp.dhcp6_wanted
        /\ iface.link_local => iface.dhcp # None /\ iface.dhcp.phase = "acquiring"

\* Asleep, what subscribers and peinit were told last is what holds, because no
\* handler changes what a snapshot shows without a publish following; and with
\* nothing left to read no decision is left unmade: another round of converge
\* would change neither the interface nor its records, and the kernel carries
\* exactly what is desired (Netd::converge, Netd::publish).
AsleepMeansSettled ==
    /\ Asleep => published = snapshot(iface, observed)
    /\ Asleep /\ ~events /\ ~watch =>
        /\ Round({}) = [iface |-> iface, registry |-> registry]
        /\ iface # None => iface.link = LinkOf(kernel)
        /\ iface # None /\ desired(iface) # None =>
              /\ kernel.up = desired(iface).up
              /\ kernel.addresses = desired(iface).addresses
              /\ kernel.routes = desired(iface).routes

IdentitiesOf(l) == {r.network : r \in LeasesOf[l]} \cup {RouterOf[l]}

\* Status Network names a network the link is on, when netd sees every time
\* the cable comes out (sync_links clears it with the carrier).
NetworkIsHere ==
    Asleep /\ ~events /\ iface # None /\ registry.network # None =>
        lan # None /\ registry.network \in IdentitiesOf(lan)

\* A pass never takes away the address of a lease that stands or of the one
\* being revalidated after a restart of the daemon.
LeasedAddressKept ==
    [][pc = "pass" /\ pc' = "dump" =>
          \A a \in kernel.addresses \ kernel'.addresses :
              iface' # None =>
                  /\ iface'.lease # None => iface'.lease.address # a
                  /\ iface'.restart # None => iface'.restart.address # a]_vars

\* Once the world leaves it alone, an interface stops changing its mind: the
\* network stays identified and the profile chosen for it stays (the network
\* is sticky while there is carrier).
StopsSwitching ==
    <>[][iface # None /\ iface' # None => iface'.judgment = iface.judgment]_vars

\* Whatever network is identified, the policy turns `client` on.
Wanted(client) == \A l \in Labels \cup {None} : policy[l] \in Profile /\ policy[l][client]

Served == kernel.present /\ lan # None /\ LeasesOf[lan] # {} /\ Wanted("dhcp4")
Routed == kernel.present /\ lan # None /\ RouterOf[lan] # None /\ Wanted("autoconf6")

\* A joined interface whose network has a server ends up with the leased
\* address, and one whose network has a router with an autoconfigured one,
\* whatever happened to it before.
EventuallyAddressed ==
    /\ <>[]Served => <>[](/\ iface # None /\ iface.lease # None
                         /\ iface.lease.address \in kernel.addresses)
    /\ <>[]Routed => <>[](Slaac \in kernel.addresses)

=============================================================================
