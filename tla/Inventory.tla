----------------------------- MODULE Inventory -----------------------------
(***************************************************************************)
(* What netd writes down and reads back: the network records and interface *)
(* records of inventory.rs, the identities of networks.rs, the DUID and    *)
(* the client identifiers, the machine's name and its readiness, as        *)
(* Netd::converge and the loop around it keep them.                        *)
(*                                                                         *)
(* Several interfaces stand in one profile, with Address.Offered and       *)
(* Hostname.Offered; the DHCP clients are reduced to the leases they       *)
(* bring.  Every write to the registry that changes something, netd's own  *)
(* included, comes back as an event of the watch.                          *)
(***************************************************************************)
EXTENDS Integers, FiniteSets, SequencesExt

CONSTANTS
    None,                  \* absent
    Interfaces,            \* by kernel index, lowest first
    Kind,                  \* LinkKind of each
    Leases,                \* what each may be leased: [server, subnet, address, hostname]
    Routers,               \* who may advertise to each: [router, prefix]
    Labels,                \* what operators write as Name of a network
    HostnameText,          \* texts hostname::check takes: the trimmed name
    Hostnames,             \* what operators write as Hostname
    Garbage,               \* a ClientId that is not hex
    Identifiers,           \* what operators write as Duid or ClientId, when it is hex
    MAX_ROUNDS,            \* of converge
    MAX_ECHOES,            \* passes that follow from one disturbance
    MAX_DISTURBANCES       \* changes around netd, failed writes, crashes and turns of the second

VARIABLES
    registry,              \* Machine\System\Network
    duid_file,             \* the DUID under NETD_STATE_DIR
    kernel,                \* each link's carrier, and the address on it
    observed,              \* Netd::observed: the kernel at the last dump
    iface,                 \* Netd::interfaces
    config,                \* Config: hostname and duid
    duid,                  \* Netd::duid
    hostname_set,
    last_level,
    woken,                 \* why poll will return: "watch", "link", "ndp", "dhcp"
    todo,                  \* what is left of the pass, next first
    round,                 \* of converge
    clock,                 \* seconds
    used,                  \* the identifier each interface last introduced itself by
    excused,               \* what failed, and has not been done again since
    echoes,                \* passes since the last disturbance, up to one too many
    disturbances

disk == <<registry, duid_file>>
memory == <<config, duid, hostname_set, last_level>>
vars == <<disk, kernel, observed, iface, memory, woken, todo, round, clock, used, excused,
          echoes, disturbances>>

Ifs == Range(Interfaces)

-----------------------------------------------------------------------------
(***************************************************************************)
(* Networks.                                                               *)
(***************************************************************************)
signals(i) == [kind |-> Kind[i], lease |-> iface[i].lease, router |-> iface[i].router]

identity(s) ==
    CASE s.lease # None -> <<s.kind, "dhcp", s.lease.server, s.lease.subnet>>
      [] s.router # None -> <<s.kind, "ra", s.router.router, s.router.prefix>>
      [] OTHER -> None

Ids == {identity([kind |-> Kind[i], lease |-> l, router |-> None]) : i \in Ifs, l \in UNION Range(Leases)}
       \cup {identity([kind |-> Kind[i], lease |-> None, router |-> r]) :
                i \in Ifs, r \in UNION Range(Routers)}

NoRecord == [name |-> None, requested_address |-> None, status |-> None]

(***************************************************************************)
(* The registry under the hands of one handler.  wrote says that a value   *)
(* changed on the way, even if it was changed back; fails, that the        *)
(* registry refuses writes ("set") or its keys cannot be opened ("open").  *)
(***************************************************************************)
Store(fails) == [reg |-> registry, iface |-> iface, wrote |-> FALSE, fails |-> fails]

set_always(st, old, new, reg) ==
    IF st.fails # "no" THEN st ELSE [st EXCEPT !.reg = reg, !.wrote = TRUE]

\* set_sz, set_multi and set_opt_sz: only what differs is written.
set(st, old, new, reg) ==
    IF old = new \/ st.fails # "no" THEN st ELSE [st EXCEPT !.reg = reg, !.wrote = TRUE]

Record(st, id) ==
    LET r == IF st.fails = "open" THEN NoRecord ELSE st.reg.net[id]
    IN  [id |-> id, name |-> r.name, requested_address |-> r.requested_address]

network_sync(st, id, s, i) ==
    LET status == [signals |-> s, last_seen |-> clock, last_interface |-> i]
    IN  set(st, st.reg.net[id].status, status, [st.reg EXCEPT !.net[id].status = status])

set_requested_address(st, id, address) ==
    set(st, st.reg.net[id].requested_address, address,
        [st.reg EXCEPT !.net[id].requested_address = address])

Known(i, id) == iface[i].network # None /\ iface[i].network.id = id

(***************************************************************************)
(* identify_networks for one interface.  What is remembered is the record  *)
(* as it was read, before the leased address went into it.                 *)
(***************************************************************************)
Identified(st, i, id) ==
    LET s == signals(i)
        synced == network_sync(st, id, s, i)
        kept == IF s.lease # None /\ Record(st, id).requested_address # s.lease.address
                THEN set_requested_address(synced, id, s.lease.address) ELSE synced
    IN  [kept EXCEPT !.iface[i].network = Record(st, id),
                     !.iface[i].rejudge = @ \/ ~Known(i, id)]

\* A network that is known already is not looked at again.
identify_unknown(st, i) ==
    LET id == identity(signals(i))
    IN  IF ~iface[i].link \/ id = None \/ Known(i, id) THEN st ELSE Identified(st, i, id)

identify(st, i) ==
    LET id == identity(signals(i))
    IN  IF ~iface[i].link \/ id = None THEN st ELSE Identified(st, i, id)

-----------------------------------------------------------------------------
(***************************************************************************)
(* Interfaces.                                                             *)
(***************************************************************************)
NewInterface == [link |-> FALSE, network |-> None, rejudge |-> FALSE, dhcp |-> None,
                 lease |-> None, router |-> None]

\* Absent, link, routed: a leased address brings its gateway.
level(i, link) == CASE ~link -> 0
                    [] link /\ observed[i].address = None -> 1
                    [] OTHER -> 3

\* LastNetwork is sticky.
sync(st, i, network, readiness) ==
    LET old == st.reg.interface[i]
        new == [old EXCEPT !.readiness = readiness,
                           !.network = IF network = None THEN None ELSE network.id,
                           !.last_network = IF network = None THEN @ ELSE network.id]
    IN  set(st, old, new, [st.reg EXCEPT !.interface[i] = new])

(***************************************************************************)
(* sync_links for one interface: what depended on the carrier goes with    *)
(* it, and the network is on the other side of it.                         *)
(***************************************************************************)
sync_link(st, i) ==
    LET now == observed[i].carrier
        new == IF iface[i].link /\ ~now THEN NewInterface
               ELSE [st.iface[i] EXCEPT !.link = now, !.rejudge = FALSE]
    IN  sync([st EXCEPT !.iface[i] = new], i, new.network, level(i, now))

(***************************************************************************)
(* The machine's DUID: the one the state directory keeps, else one made    *)
(* of the first MAC address a client was started on.                       *)
(***************************************************************************)
dhcp_duid_fresh(i) == <<"duid-ll", i>>

dhcp_duid(i) == IF duid_file # None THEN duid_file ELSE <<"duid-ll", i>>

\* inventory::duid, for a DUID that is not configured.
set_duid(st, d) == set(st, st.reg.duid, d, [st.reg EXCEPT !.duid = d])

client_id(st, i, d) ==
    LET written == st.reg.interface[i].client_id
    IN  IF st.fails = "open" \/ written \in {None, Garbage} THEN <<"rfc4361", i, d>> ELSE written

last_network(st, i) == IF st.fails = "open" THEN None ELSE st.reg.interface[i].last_network

requested_address(st, id) == Record(st, id).requested_address

previous(st, i) ==
    LET n == iface[i].network
        last == last_network(st, i)
    IN  CASE n # None /\ n.requested_address # None -> n.requested_address
          [] (n = None \/ n.requested_address = None) /\ last # None -> requested_address(st, last)
          [] OTHER -> None

Due == SelectSeq(Interfaces, LAMBDA i : iface[i].link /\ iface[i].dhcp = None)

start(st, i, d) ==
    LET id == client_id(st, i, d)
        written == set(st, st.reg.interface[i].client_id, id,
                       [st.reg EXCEPT !.interface[i].client_id = id])
    IN  [written EXCEPT !.iface[i].dhcp = [client_id |-> id, asked |-> previous(st, i)],
                        !.iface[i].lease = None]

-----------------------------------------------------------------------------
(***************************************************************************)
(* The handlers of a pass.                                                 *)
(***************************************************************************)
Handler(name) == todo # <<>> /\ Head(todo) = name

Disturb(n) ==
    /\ disturbances + n <= MAX_DISTURBANCES
    /\ disturbances' = disturbances + n
    /\ echoes' = IF n = 0 THEN echoes ELSE 0

\* What is said of a part of the work once it was done, or was not.
Excuse(what, fails) == IF fails THEN excused \cup {what} ELSE excused \ {what}

Stored(st) ==
    /\ registry' = st.reg
    /\ iface' = st.iface
    /\ woken' = IF st.wrote THEN woken \cup {"watch"} ELSE woken

Fails == {"no", "set", "open"}

identify_networks ==
    /\ Handler("identify")
    /\ todo' = Tail(todo)
    /\ \E fails \in Fails :
          /\ Disturb(IF fails = "no" THEN 0 ELSE 1)
          /\ Stored(FoldLeft(identify, Store(fails), Interfaces))
          /\ excused' = Excuse("record", fails # "no")
    /\ UNCHANGED <<duid_file, kernel, observed, memory, round, clock, used>>

sync_links ==
    /\ Handler("links")
    /\ todo' = Tail(todo)
    /\ \E fails \in Fails :
          /\ Disturb(IF fails = "no" THEN 0 ELSE 1)
          /\ Stored(FoldLeft(sync_link, Store(fails), Interfaces))
    /\ UNCHANGED <<duid_file, kernel, observed, memory, round, clock, used, excused>>

(***************************************************************************)
(* start_dhcp_where_due: a client on every link that is up and has none.   *)
(* The DUID is settled once, by the first of them.                         *)
(***************************************************************************)
start_dhcp_where_due ==
    /\ Handler("start")
    /\ todo' = Tail(todo)
    /\ \/ Due = <<>> /\ UNCHANGED <<disk, iface, duid, woken, used, excused, echoes, disturbances>>
       \/ /\ Due # <<>>
          /\ \E fails \in Fails, file \in BOOLEAN :
                LET made == duid = None /\ config.duid = None
                    d == CASE duid # None -> duid
                           [] duid = None /\ config.duid # None -> config.duid
                           [] OTHER -> dhcp_duid(Head(Due))
                    first == IF made THEN set_duid(Store(fails), d) ELSE Store(fails)
                    done == FoldLeft(LAMBDA s, i : start(s, i, d), first, Due)
                IN  /\ file => made /\ duid_file = None
                    /\ Disturb(Cardinality({fails} \ {"no"}) + Cardinality({file} \ {FALSE}))
                    /\ duid' = d
                    /\ duid_file' = IF made /\ ~file /\ duid_file = None THEN d ELSE duid_file
                    /\ Stored(done)
                    /\ used' = [i \in Ifs |-> IF i \in Range(Due)
                                              THEN done.iface[i].dhcp.client_id ELSE used[i]]
                    /\ excused' = excused \cup (IF fails = "no" THEN {} ELSE {"registry"})
                                          \cup (IF file THEN {"file"} ELSE {})
    /\ UNCHANGED <<kernel, observed, config, hostname_set, last_level, round, clock>>

-----------------------------------------------------------------------------
(***************************************************************************)
(* reconcile_all puts on each link what its lease says and dumps the       *)
(* kernel.  What it changed comes back on the event socket, and a dump     *)
(* that shows anything new calls for another round of a full pass.         *)
(***************************************************************************)
FullPass == <<"identify", "links", "start", "reconcile", "hostname", "publish">>
LightPass == <<"apply", "hostname", "publish">>

Desired(i) == IF iface[i].link /\ iface[i].lease # None THEN iface[i].lease.address ELSE None

Applied == [i \in Ifs |-> [kernel[i] EXCEPT !.address = Desired(i)]]

reconcile_all ==
    /\ Handler("reconcile") \/ Handler("apply")
    /\ kernel' = Applied
    /\ observed' = Applied
    /\ woken' = IF Applied # kernel THEN woken \cup {"link"} ELSE woken
    /\ IF Handler("reconcile") /\ observed' # observed /\ round < MAX_ROUNDS
       THEN todo' = FullPass /\ round' = round + 1
       ELSE todo' = Tail(todo) /\ UNCHANGED round
    /\ UNCHANGED <<disk, iface, memory, clock, used, excused, echoes, disturbances>>

(***************************************************************************)
(* The machine's name: the operator's, else the first that a lease brings. *)
(* A name that hostname::check refuses is not replaced by another.         *)
(***************************************************************************)
from_lease ==
    LET named == SelectSeq(Interfaces, LAMBDA i : /\ iface[i].lease # None
                                                  /\ iface[i].lease.hostname # None)
    IN  IF named = <<>> THEN None ELSE iface[Head(named)].lease.hostname

Selected_lease_first == IF from_lease # None THEN from_lease ELSE config.hostname

Selected == IF config.hostname # None THEN config.hostname ELSE from_lease

check(name) == IF name \in DOMAIN HostnameText THEN HostnameText[name] ELSE None

apply_hostname ==
    /\ Handler("hostname")
    /\ todo' = Tail(todo)
    /\ LET name == check(Selected)
       IN  \/ name \in {None, hostname_set} /\ UNCHANGED <<hostname_set, excused, echoes, disturbances>>
           \/ /\ name \notin {None, hostname_set}
              /\ \/ hostname_set' = name /\ excused' = Excuse("name", FALSE) /\ Disturb(0)
                 \/ UNCHANGED hostname_set /\ excused' = Excuse("name", TRUE) /\ Disturb(1)
    /\ UNCHANGED <<disk, kernel, observed, iface, config, duid, last_level, woken, round, clock,
                   used>>

machine_readiness(st, machine) ==
    set(st, st.reg.readiness, machine, [st.reg EXCEPT !.readiness = machine])

publish ==
    /\ Handler("publish")
    /\ todo' = <<>>
    /\ LET machine == Max({level(i, iface[i].link) : i \in Ifs})
       IN  /\ last_level' = machine
           /\ \E fails \in Fails :
                 LET st == Store(fails)
                     told == IF last_level = machine THEN st ELSE machine_readiness(st, machine)
                 IN  /\ Disturb(IF fails = "no" THEN 0 ELSE 1)
                     /\ Stored(FoldLeft(LAMBDA s, i :
                                            sync(s, i, iface[i].network, level(i, iface[i].link)),
                                        told, Interfaces))
                     /\ excused' = Excuse("interface", fails # "no")
    /\ UNCHANGED <<duid_file, kernel, observed, config, duid, hostname_set, round, clock, used>>

-----------------------------------------------------------------------------
(***************************************************************************)
(* The loop.  What woke it is answered all at once: the kernel is dumped,  *)
(* the configuration read again.                                           *)
(***************************************************************************)
Loaded == [hostname |-> registry.hostname, duid |-> registry.duid]

Rejudge == \E i \in Ifs : iface[i].rejudge

Converging == woken \cap {"watch", "link", "ndp"} # {} \/ Rejudge

Wake ==
    /\ todo = <<>>
    /\ woken # {} \/ Rejudge
    /\ observed' = IF "link" \in woken THEN kernel ELSE observed
    /\ config' = IF "watch" \in woken THEN Loaded ELSE config
    /\ woken' = {}
    /\ todo' = CASE Converging -> FullPass
                 [] ~Converging /\ "dhcp" \in woken -> LightPass
                 [] OTHER -> <<>>
    /\ round' = 1
    /\ echoes' = Min({echoes + 1, MAX_ECHOES + 1})
    /\ UNCHANGED <<disk, kernel, iface, duid, hostname_set, last_level, clock, used, excused,
                   disturbances>>

\* Started afresh: nothing is remembered but what is stored.
Restart ==
    /\ observed' = kernel
    /\ iface' = [i \in Ifs |-> NewInterface]
    /\ config' = Loaded
    /\ duid' = None
    /\ hostname_set' = None
    /\ last_level' = None
    /\ woken' = {}
    /\ todo' = FullPass
    /\ round' = 1

Crash ==
    /\ Disturb(1)
    /\ Restart
    /\ UNCHANGED <<disk, kernel, clock, used, excused>>

-----------------------------------------------------------------------------
(***************************************************************************)
(* Around netd: links, servers, routers, operators, and time.              *)
(***************************************************************************)
CarrierMoves(i) ==
    /\ Disturb(1)
    /\ kernel' = [kernel EXCEPT ![i].carrier = ~@]
    /\ woken' = woken \cup {"link"}
    /\ UNCHANGED <<disk, observed, iface, memory, todo, round, clock, used, excused>>

\* Interface::perform on Bound, between two passes.
Bound(i, lease) ==
    /\ Disturb(1)
    /\ todo = <<>>
    /\ iface[i].dhcp # None
    /\ iface' = [iface EXCEPT ![i].lease = lease, ![i].rejudge = TRUE]
    /\ woken' = woken \cup {"dhcp"}
    /\ UNCHANGED <<disk, kernel, observed, memory, todo, round, clock, used, excused>>

Lost(i) ==
    /\ Disturb(1)
    /\ todo = <<>>
    /\ iface[i].lease # None
    /\ iface' = [iface EXCEPT ![i].lease = None]
    /\ woken' = woken \cup {"dhcp"}
    /\ UNCHANGED <<disk, kernel, observed, memory, todo, round, clock, used, excused>>

RouterMoves(i, router) ==
    /\ Disturb(1)
    /\ todo = <<>>
    /\ iface[i].link
    /\ iface[i].router # router
    /\ iface' = [iface EXCEPT ![i].router = router]
    /\ woken' = woken \cup {"ndp"}
    /\ UNCHANGED <<disk, kernel, observed, memory, todo, round, clock, used, excused>>

\* Request::Reconcile is a full pass within the iteration.
Reconcile ==
    /\ Disturb(1)
    /\ todo = <<>>
    /\ todo' = FullPass
    /\ round' = 1
    /\ UNCHANGED <<disk, kernel, observed, iface, memory, woken, clock, used, excused>>

OperatorSets(reg, identifies) ==
    /\ Disturb(1)
    /\ reg # registry
    /\ registry' = reg
    /\ woken' = woken \cup {"watch"}
    /\ excused' = excused \cup IF identifies THEN {"operator"} ELSE {}
    /\ UNCHANGED <<duid_file, kernel, observed, iface, memory, todo, round, clock, used>>

OperatorWrites ==
    \/ \E h \in Hostnames \cup {None} : OperatorSets([registry EXCEPT !.hostname = h], FALSE)
    \/ \E id \in Ids, n \in Labels : OperatorSets([registry EXCEPT !.net[id].name = n], FALSE)
    \/ \E id \in Ids :
          OperatorSets([registry EXCEPT !.net[id].requested_address = None], FALSE)
    \/ \E d \in Identifiers : OperatorSets([registry EXCEPT !.duid = d], TRUE)
    \/ \E i \in Ifs, d \in Identifiers :
          OperatorSets([registry EXCEPT !.interface[i].client_id = d], TRUE)
    \/ \E i \in Ifs : OperatorSets([registry EXCEPT !.interface[i].client_id = Garbage], FALSE)

Second ==
    /\ Disturb(1)
    /\ clock' = clock + 1
    /\ UNCHANGED <<disk, kernel, observed, iface, memory, woken, todo, round, used, excused>>

-----------------------------------------------------------------------------
Init ==
    /\ registry = [hostname |-> None, duid |-> None, readiness |-> None,
                   interface |-> [i \in Ifs |-> [client_id |-> None, readiness |-> None,
                                                 network |-> None, last_network |-> None]],
                   net |-> [id \in Ids |-> NoRecord]]
    /\ duid_file = None
    /\ \E up \in [Ifs -> BOOLEAN] : kernel = [i \in Ifs |-> [carrier |-> up[i], address |-> None]]
    /\ observed = kernel
    /\ iface = [i \in Ifs |-> NewInterface]
    /\ config = Loaded
    /\ duid = None /\ hostname_set = None /\ last_level = None
    /\ woken = {} /\ todo = FullPass /\ round = 1
    /\ clock = 0
    /\ used = [i \in Ifs |-> None] /\ excused = {}
    /\ echoes = 0 /\ disturbances = 0

Netd ==
    \/ identify_networks
    \/ sync_links
    \/ start_dhcp_where_due
    \/ reconcile_all
    \/ apply_hostname
    \/ publish
    \/ Wake

Next ==
    \/ Netd
    \/ Crash
    \/ \E i \in Ifs : CarrierMoves(i) \/ Lost(i)
    \/ \E i \in Ifs : \E lease \in Leases[i] : Bound(i, lease)
    \/ \E i \in Ifs : \E router \in Routers[i] \cup {None} : RouterMoves(i, router)
    \/ Reconcile
    \/ OperatorWrites
    \/ Second

Spec == Init /\ [][Next]_vars

\* poll returns when something is ready, and the loop never waits elsewhere.
FairSpec == Spec /\ WF_vars(Netd)

-----------------------------------------------------------------------------
AtRest == todo = <<>> /\ woken = {} /\ ~Rejudge

(***************************************************************************)
(* Every pass writes to the registry that netd itself watches, and to the  *)
(* kernel whose events it follows; still no disturbance is followed by     *)
(* more than MAX_ECHOES passes (reload: "Our own inventory writes come     *)
(* back here too").                                                        *)
(***************************************************************************)
EchoesEnd == echoes <= MAX_ECHOES

(***************************************************************************)
(* The same without a number: once nothing else moves, the passes that     *)
(* netd's own writes cause come to an end ("a reload is idempotent, so     *)
(* that is merely cheap").                                                 *)
(***************************************************************************)
ComesToRest == <>[]AtRest

(***************************************************************************)
(* Between passes, what netd remembers of the network a lease comes from   *)
(* is what the network's record says, its operator's edits and netd's own  *)
(* write of the leased address included; and LastNetwork leads a netd      *)
(* started afresh to the address the link holds (identify_networks,        *)
(* inventory::sync, start_dhcp_where_due).                                 *)
(***************************************************************************)
RecordsCurrent ==
    AtRest /\ excused \cap {"record", "interface"} = {} =>
        \A i \in Ifs : iface[i].link /\ iface[i].lease # None =>
            LET id == identity(signals(i))
            IN  /\ iface[i].network = [id |-> id, name |-> registry.net[id].name,
                                       requested_address |-> iface[i].lease.address]
                /\ registry.interface[i].last_network = id
                /\ registry.net[id].requested_address = iface[i].lease.address

(***************************************************************************)
(* The identifier netd made up for an interface is the one it uses ever    *)
(* after, across crashes and whichever interface comes up first, as long   *)
(* as one of the two stores took it (dhcp::duid, inventory::duid and       *)
(* inventory::client_id).                                                  *)
(***************************************************************************)
IdentityKept ==
    [][\A i \in Ifs : used'[i] # used[i] =>
          \/ used[i] = None
          \/ "operator" \in excused'
          \/ {"registry", "file"} \subseteq excused']_vars

(***************************************************************************)
(* Between passes the name is the one in force: the operator's where there *)
(* is one, a lease's otherwise, whatever came first (apply_hostname).      *)
(***************************************************************************)
NameChosen ==
    AtRest /\ "name" \notin excused =>
        LET wanted == IF registry.hostname # None THEN registry.hostname ELSE from_lease
        IN  wanted \in DOMAIN HostnameText => hostname_set = HostnameText[wanted]

=============================================================================
