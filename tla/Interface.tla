------------------------------ MODULE Interface ------------------------------
(***************************************************************************)
(* One interface as the daemon holds it, and what the steps of a full pass *)
(* do to it (struct Interface and the steps of Netd::converge in           *)
(* netd/src/main.rs, with restart.rs, networks.rs and inventory.rs).       *)
(* Module Daemon puts the steps into the loop.                             *)
(*                                                                         *)
(* A step is an operator from the interface (a record with the fields of   *)
(* struct Interface) and what the step reads to the interface after it.    *)
(* The clients are what they promise the daemon: the DHCPv4 client has the *)
(* phases of module LeaseService, router discovery is the router it last   *)
(* heard (its prefix and its route come and go together here), DHCPv6 is   *)
(* whether it was answered.  Names are sets of model values; the MTU,      *)
(* metrics and the hostname are left out, and a DNS list is its source.    *)
(***************************************************************************)
EXTENDS Naturals

CONSTANTS
    None,
    Networks4,      \* identities from a DHCPv4 server and its subnet
    Networks6,      \* identities from a router and its prefix
    Labels,         \* what operators write on a network record (Name, Trust)
    ProfileNames,
    Ignore, Down,   \* outcomes that are not a profile
    Tie,            \* a policy's rules tie with each other
    Leasable,       \* IPv4 addresses that servers lease
    Static, LinkLocal4, Slaac   \* the other addresses an interface may carry

Networks == Networks4 \cup Networks6
Profile == [name : ProfileNames, dhcp4 : BOOLEAN, autoconf6 : BOOLEAN, link_local : BOOLEAN,
            keep : BOOLEAN, static : BOOLEAN, route_offered : BOOLEAN, dns_offered : BOOLEAN]
Outcome == {Ignore, Down} \cup Profile
Judgment == [outcome : Outcome, conflict : BOOLEAN]

\* What a policy says to the facts of an interface: they differ in the label of
\* the network identified on it, None before one is.
Policy == [Labels \cup {None} -> Outcome \cup {Tie}]

Link == [index : Nat, up : BOOLEAN, carrier : BOOLEAN]
Record == [id : Networks, label : Labels, requested_address : Leasable \cup {None}]
Lease == [address : Leasable, network : Networks4]
Client == [phase : {"rebooting", "acquiring", "held"}, lease : Lease \cup {None},
           previous : Leasable \cup {None}, reported : BOOLEAN]
Engine == [router : Networks6 \cup {None}, dhcp6_wanted : BOOLEAN]
Restart == [address : Leasable, routes : SUBSET (Networks4 \cup {Static})]

Interface ==
    [link : Link, judgment : Judgment, network : Record \cup {None}, rejudge : BOOLEAN,
     discovery_unanswered : BOOLEAN, dhcp : Client \cup {None}, lease : Lease \cup {None},
     restart : Restart \cup {None}, first_dhcp_start : BOOLEAN, link_local : BOOLEAN,
     ndp : Engine \cup {None}, dhcp6 : {None, "asking", "answered"}]

-----------------------------------------------------------------------------
managed(i) == i.judgment.outcome \in Profile
profile(i) == i.judgment.outcome
Carrier(link) == link.up /\ link.carrier

NewInterface(link) ==
    [link |-> link, judgment |-> [outcome |-> Ignore, conflict |-> FALSE], network |-> None,
     rejudge |-> FALSE, discovery_unanswered |-> FALSE, dhcp |-> None, lease |-> None,
     restart |-> None, first_dhcp_start |-> TRUE, link_local |-> FALSE,
     ndp |-> None, dhcp6 |-> None]

stop_dhcp(i) ==
    [i EXCEPT !.dhcp = None, !.lease = None, !.restart = None, !.link_local = FALSE,
              !.discovery_unanswered = FALSE]

stop_ipv6(i) == [i EXCEPT !.ndp = None, !.dhcp6 = None]

(***************************************************************************)
(* policy.judge: a tie is a conflict, and a conflict ignores.              *)
(***************************************************************************)
facts(i) == IF i.network = None THEN None ELSE i.network.label

judge(policy, label) ==
    IF policy[label] = Tie
    THEN [outcome |-> Ignore, conflict |-> TRUE]
    ELSE [outcome |-> policy[label], conflict |-> FALSE]

(***************************************************************************)
(* Step 1, identify_networks.  A lease wins over the routers; the record   *)
(* is read before the leased address is written to it.                     *)
(***************************************************************************)
identity(i) ==
    IF i.lease # None THEN i.lease.network
    ELSE IF i.ndp # None THEN i.ndp.router ELSE None

Identifiable(i) == managed(i) /\ Carrier(i.link) /\ identity(i) # None

identify(i, registry) ==
    IF ~Identifiable(i) THEN i
    ELSE LET id == identity(i)
         IN  [i EXCEPT !.network = [id |-> id, label |-> registry.label[id],
                                    requested_address |-> registry.requested_address[id]],
                       !.rejudge = @ \/ i.network = None \/ i.network.id # id]

set_requested_address(i, registry) ==
    IF Identifiable(i) /\ i.lease # None
    THEN [registry EXCEPT !.requested_address[i.lease.network] = i.lease.address]
    ELSE registry

(***************************************************************************)
(* Step 2, sync_links: the table follows the dump; a lost carrier or       *)
(* another outcome stops the clients; the Status record is written.        *)
(***************************************************************************)
LinkOf(o) == [index |-> o.index, up |-> o.up, carrier |-> o.carrier]

CarrierSyncedKeepingNetwork(i, o) ==    \* mutant
    LET old == IF i = None \/ i.link.index # o.index THEN NewInterface(LinkOf(o)) ELSE i
        new == [old EXCEPT !.link = LinkOf(o), !.rejudge = FALSE]
    IN  IF Carrier(old.link) /\ ~Carrier(new.link) THEN stop_ipv6(stop_dhcp(new)) ELSE new

CarrierSynced(i, o) ==
    LET old == IF i = None \/ i.link.index # o.index THEN NewInterface(LinkOf(o)) ELSE i
        new == [old EXCEPT !.link = LinkOf(o), !.rejudge = FALSE]
    IN  IF Carrier(old.link) /\ ~Carrier(new.link)
        THEN [stop_ipv6(stop_dhcp(new)) EXCEPT !.network = None]
        ELSE new

JudgedKeepingClients(i, policy) ==      \* mutant
    [i EXCEPT !.judgment = judge(policy, facts(i))]

JudgedForgettingNetwork(i, policy) ==   \* mutant
    LET j == judge(policy, facts(i))
        started_over == IF j.outcome # i.judgment.outcome
                        THEN [stop_ipv6(stop_dhcp(i)) EXCEPT !.network = None] ELSE i
    IN  [started_over EXCEPT !.judgment = j]

Judged(i, policy) ==
    LET j == judge(policy, facts(i))
        started_over == IF j.outcome # i.judgment.outcome THEN stop_ipv6(stop_dhcp(i)) ELSE i
    IN  [started_over EXCEPT !.judgment = j]

sync_links(i, o, policy) ==
    IF ~o.present THEN None ELSE Judged(CarrierSynced(i, o), policy)

inventory_sync(i, registry) ==
    IF i = None THEN registry
    ELSE IF i.network = None THEN [registry EXCEPT !.network = None]
    ELSE [registry EXCEPT !.network = i.network.id, !.last_network = i.network.id]

(***************************************************************************)
(* Step 3, start_dhcp_where_due.  Only the first client of a process       *)
(* adopts what the kernel already carries (remember_restart, capture).     *)
(* `opens` names the clients whose socket can be opened.                   *)
(***************************************************************************)
previous(i, registry) ==
    IF i.network # None /\ i.network.requested_address # None
    THEN i.network.requested_address
    ELSE IF registry.last_network # None
    THEN registry.requested_address[registry.last_network]
    ELSE None

capture(o, requested) ==
    IF requested # None /\ requested \in o.addresses
    THEN [address |-> requested, routes |-> o.routes \ Networks6]
    ELSE None

StartedDhcp(i, o, requested) ==
    [i EXCEPT !.dhcp = [phase |-> IF requested = None THEN "acquiring" ELSE "rebooting",
                        lease |-> None, previous |-> requested, reported |-> FALSE],
              !.lease = None,
              !.restart = IF i.first_dhcp_start THEN capture(o, requested) ELSE None,
              !.first_dhcp_start = FALSE]

start_dhcp_where_due(i, o, registry, opens) ==
    IF i = None \/ ~managed(i) THEN i
    ELSE IF ~(profile(i).dhcp4 /\ Carrier(i.link))
    THEN IF i.dhcp # None THEN stop_dhcp(i) ELSE i
    ELSE IF i.dhcp = None /\ "dhcp" \in opens
    THEN StartedDhcp(i, o, previous(i, registry))
    ELSE i

(***************************************************************************)
(* Step 4, start_ipv6_where_due.                                           *)
(***************************************************************************)
NdpWhereDue(i, o, opens) ==
    IF ~(profile(i).autoconf6 /\ Carrier(i.link) /\ o.link_local = "ready")
    THEN IF i.ndp # None THEN stop_ipv6(i) ELSE i
    ELSE IF i.ndp = None /\ "ndp" \in opens
    THEN [i EXCEPT !.ndp = [router |-> None, dhcp6_wanted |-> FALSE]]
    ELSE i

Dhcp6WhereDue(i, o, opens) ==
    IF i.ndp = None \/ ~i.ndp.dhcp6_wanted THEN [i EXCEPT !.dhcp6 = None]
    ELSE IF i.dhcp6 = None /\ o.link_local = "ready" /\ "dhcp6" \in opens
    THEN [i EXCEPT !.dhcp6 = "asking"]
    ELSE i

start_ipv6_where_due(i, o, opens) ==
    IF i = None \/ ~managed(i) THEN i
    ELSE Dhcp6WhereDue(NdpWhereDue(i, o, opens), o, opens)

(***************************************************************************)
(* Step 5: what the interface should carry.                                *)
(***************************************************************************)
\* restart.preserve: the adopted address stays whatever the profile says, the
\* first of the adopted default routes where the profile takes offered ones.
PreservedRoutesOnly(i) == {}     \* mutant
Preserved(i) == IF i.restart # None THEN {i.restart.address} ELSE {}

PreservedRoute(i) ==
    IF profile(i).route_offered /\ i.restart # None /\ i.restart.routes # {}
    THEN {CHOOSE g \in i.restart.routes : TRUE} ELSE {}

desired(i) ==
    IF i.judgment.outcome = Ignore THEN None
    ELSE IF i.judgment.outcome = Down THEN [up |-> FALSE, addresses |-> {}, routes |-> {}]
    ELSE LET p == profile(i)
             offered == IF p.route_offered /\ i.lease # None THEN {i.lease.network} ELSE {}
             gateway == IF p.static THEN {Static} ELSE offered
             router == IF i.ndp # None /\ i.ndp.router # None THEN {i.ndp.router} ELSE {}
         IN  [up |-> TRUE,
              addresses |->
                  (IF p.static THEN {Static} ELSE {})
                  \cup (IF i.lease # None THEN {i.lease.address} ELSE {})
                  \cup (IF i.link_local /\ i.lease = None /\ ~p.static THEN {LinkLocal4} ELSE {})
                  \cup Preserved(i)
                  \cup (IF router # {} THEN {Slaac} ELSE {}),
              routes |->
                  (IF gateway # {} THEN gateway ELSE PreservedRoute(i))
                  \cup (IF p.route_offered THEN router ELSE {})]

(***************************************************************************)
(* How far an interface has come, and what is told of it.  Name servers    *)
(* and domains are the profile's and, where it takes offered ones, those   *)
(* of the lease, the router and the DHCPv6 server; time servers are the    *)
(* lease's whatever the profile says.                                      *)
(***************************************************************************)
level(i, o) ==
    IF ~Carrier(i.link) THEN "absent"
    ELSE IF o.addresses = {} THEN "link"
    ELSE IF o.routes = {} THEN "addressed" ELSE "routed"

dns(i) ==
    LET lease == IF i.lease = None THEN None ELSE i.lease.network
        router == IF i.ndp = None THEN None ELSE i.ndp.router
        Offered(source, absent) == IF profile(i).dns_offered THEN source ELSE absent
    IN  [own |-> profile(i).name, lease |-> Offered(lease, None),
         router |-> Offered(router, None), dhcp6 |-> Offered(i.dhcp6 = "answered", FALSE),
         ntp |-> lease]

snapshot(i, o) ==
    IF i = None THEN None
    ELSE IF ~managed(i) \/ level(i, o) = "absent" THEN None
    ELSE [level |-> level(i, o), dns |-> dns(i), addresses |-> o.addresses]

=============================================================================
