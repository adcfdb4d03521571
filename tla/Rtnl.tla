-------------------------------- MODULE Rtnl --------------------------------
(***************************************************************************)
(* The kernel's side of rtnetlink, as far as netd relies on it: what one   *)
(* request does to a link, its addresses and its routes, and when the      *)
(* kernel refuses it.  External to the repository; taken from the requests *)
(* netd/src/netlink.rs makes, its comments on them, and the errors         *)
(* reconcile::apply in netd/src/reconcile.rs expects.                      *)
(***************************************************************************)
EXTENDS Naturals

CONSTANTS
    None,
    This,           \* the index of the interface reconciled
    Indices,        \* the interfaces routes may go out of
    V4, V6,         \* addresses an interface may carry, by family
    LinkLocals,     \* IPv6 link-local addresses (fe80::/10)
    Prefixes,
    LinkLocalPrefix,
    Gateways,
    OnLink,         \* which addresses put a gateway on an attached subnet
    Destinations,
    Default6        \* the only IPv6 destination netd routes

ASSUME RtnlAssumption ==
    /\ This \in Indices
    /\ Default6 \in Destinations
    /\ LinkLocalPrefix \in Prefixes
    /\ V4 \cap V6 = {}
    /\ (V4 \cup V6) \cap LinkLocals = {}
    /\ OnLink \in [Gateways -> SUBSET (V4 \cup V6 \cup LinkLocals)]

Ips == V4 \cup V6 \cup LinkLocals

Address == [ip : Ips, prefix : Prefixes, deprecated : BOOLEAN,
            no_prefix_route : BOOLEAN, tentative : BOOLEAN]

Route == [index : Indices, destination : Destinations, gateway : Gateways,
          metric : Nat, protocol : Nat]

IsV4(r) == r.destination # Default6

Snapshot == [present : BOOLEAN, up : BOOLEAN, mtu : Nat,
             addresses : SUBSET Address, routes : SUBSET Route]

(***************************************************************************)
(* The steps netd asks for (enum Op).  The broadcast an address is added   *)
(* with is never compared, and left out.                                   *)
(***************************************************************************)
LinkUp        == [type |-> "LinkUp"]
LinkDown      == [type |-> "LinkDown"]
Mtu(m)        == [type |-> "Mtu", mtu |-> m]
AddAddress(a) == [type |-> "AddAddress", address |-> a]
DelAddress(a) == [type |-> "DelAddress", address |-> a]
AddRoute(r)   == [type |-> "AddRoute", route |-> r]
DelRoute(r)   == [type |-> "DelRoute", route |-> r]

Op == [type : {"LinkUp", "LinkDown"}]
      \cup [type : {"Mtu"}, mtu : Nat]
      \cup [type : {"AddAddress", "DelAddress"}, address : Address]
      \cup [type : {"AddRoute", "DelRoute"}, route : Route]

SameKey(a, b) == a.ip = b.ip /\ a.prefix = b.prefix

(***************************************************************************)
(* The address an RTM_NEWADDR with NLM_F_REPLACE finds already there: by   *)
(* address and prefix for IPv4, by address alone for IPv6.                 *)
(***************************************************************************)
Replaces(a, b) == a.ip = b.ip /\ (a.ip \in V4 => a.prefix = b.prefix)

Replaced(addresses, a) ==
    {IF Replaces(a, b)
     THEN [b EXCEPT !.deprecated = a.deprecated, !.no_prefix_route = a.no_prefix_route]
     ELSE b : b \in addresses}

Reachable(k, g) ==
    /\ k.up
    /\ OnLink[g] = {} \/ \E a \in k.addresses : a.ip \in OnLink[g]

(***************************************************************************)
(* inet6_rtm_newroute stores metric zero as IP6_RT_PRIO_USER.              *)
(***************************************************************************)
IP6_RT_PRIO_USER == 1024

Stored(r) ==
    IF ~IsV4(r) /\ r.metric = 0 THEN [r EXCEPT !.metric = IP6_RT_PRIO_USER] ELSE r

(***************************************************************************)
(* An IPv4 route is added with NLM_F_APPEND and clashes with its exact     *)
(* duplicate only; an IPv6 one with NLM_F_EXCL, which clashes with any     *)
(* route to the destination at that metric.                                *)
(***************************************************************************)
Clashes(k, r) ==
    IF IsV4(r)
    THEN r \in k.routes
    ELSE \E s \in k.routes : s.destination = r.destination /\ s.metric = Stored(r).metric

(***************************************************************************)
(* How the kernel answers: "ok", the benign "exists" (EEXIST) and "absent" *)
(* (ENOENT, ESRCH), or another "error".                                    *)
(***************************************************************************)
Outcome(k, op) ==
    CASE ~k.present -> "error"
      [] k.present /\ op.type = "AddRoute" ->
            IF ~Reachable(k, op.route.gateway) THEN "error"
            ELSE IF Clashes(k, op.route) THEN "exists" ELSE "ok"
      [] k.present /\ op.type = "DelRoute" ->
            IF op.route \in k.routes THEN "ok" ELSE "absent"
      [] k.present /\ op.type = "DelAddress" ->
            IF \E a \in k.addresses : SameKey(a, op.address) THEN "ok" ELSE "absent"
      [] OTHER -> "ok"

(***************************************************************************)
(* What the kernel may look like after a request it granted.  A link that  *)
(* comes up makes its link-local address; one that goes down loses its     *)
(* routes and IPv6 addresses; removing an address may take the routes      *)
(* through its subnet with it; a new IPv6 address is tentative until       *)
(* duplicate address detection is done.                                    *)
(***************************************************************************)
FreshLinkLocals == [ip : LinkLocals, prefix : {LinkLocalPrefix}, deprecated : {FALSE},
                    no_prefix_route : {FALSE}, tentative : {TRUE}]

WithUp(k) ==
    [k EXCEPT !.up = TRUE,
              !.addresses = @ \cup {a \in FreshLinkLocals : \A b \in @ : b.ip # a.ip}]

WithDown(k) ==
    [k EXCEPT !.up = FALSE,
              !.addresses = {a \in @ : a.ip \in V4},
              !.routes = {r \in @ : r.index # This}]

WithAddress(k, a) ==
    IF \E b \in k.addresses : Replaces(a, b)
    THEN {[k EXCEPT !.addresses = Replaced(@, a)]}
    ELSE {[k EXCEPT !.addresses = @ \cup {[a EXCEPT !.tentative = t]}] :
              t \in IF a.ip \in V4 THEN {FALSE} ELSE BOOLEAN}

WithoutAddress(k, a) ==
    LET left == [k EXCEPT !.addresses = {b \in @ : ~SameKey(a, b)}]
        lost == {r \in k.routes : r.index = This /\ ~Reachable(left, r.gateway)}
    IN  {[left EXCEPT !.routes = @ \ S] : S \in SUBSET lost}

Effects(k, op) ==
    CASE op.type = "LinkUp"     -> {WithUp(k)}
      [] op.type = "LinkDown"   -> {WithDown(k)}
      [] op.type = "Mtu"        -> {[k EXCEPT !.mtu = op.mtu]}
      [] op.type = "AddAddress" -> WithAddress(k, op.address)
      [] op.type = "DelAddress" -> WithoutAddress(k, op.address)
      [] op.type = "AddRoute"   -> {[k EXCEPT !.routes = @ \cup {Stored(op.route)}]}
      [] op.type = "DelRoute"   -> {[k EXCEPT !.routes = @ \ {op.route}]}

=============================================================================
