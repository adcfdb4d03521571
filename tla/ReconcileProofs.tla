--------------------------- MODULE ReconcileProofs ---------------------------
(***************************************************************************)
(* Proofs about module Reconcile, for every interface, every set of        *)
(* desired states, any foreign addresses and routes, and any bounds.       *)
(*                                                                         *)
(* The argument for IdleMeansConverged: a change of the kernel is always   *)
(* notified, so without a waiting notification the last dump is the kernel *)
(* (DumpIsCurrent); a request of a plan made from the kernel as it is      *)
(* either changes it or is kept out by a foreign route (PlannedOpCounts);  *)
(* hence what has been applied without a notification is done, and the     *)
(* rest of the plan is still pending (RestPending).                        *)
(***************************************************************************)
EXTENDS Reconcile, TLAPS

(***************************************************************************)
(* Types of the plan and of what requests do.                              *)
(***************************************************************************)

\* The addresses wanted and held, as plan_addresses collects them.
LEMMA AddressSetsType ==
    ASSUME NEW o \in Snapshot, NEW d \in Desired
    PROVE  /\ WantAddresses(d) \subseteq Address
           /\ HaveAddresses(o) \subseteq Address
    <1>1. \A a \in d.addresses : NoFlags(a) \in Address
        BY DEF NoFlags, Desired, Address, Ips
    <1>2. \A a \in d.addresses6 : Settled(a) \in Address
        BY DEF Settled, Desired, DesiredV6, Address, Ips
    <1>3. \A a \in o.addresses : Settled(a) \in Address
        BY DEF Settled, Snapshot, Address
    <1> QED BY <1>1, <1>2, <1>3 DEF WantAddresses, HaveAddresses

\* The routes wanted, as plan_routes collects them: all netd's own on this
\* interface, and none with the metric the kernel would store differently.
LEMMA WantRoutesType ==
    ASSUME NEW d \in Desired
    PROVE  \A r \in WantRoutes(d) :
              /\ r \in Route
              /\ Mine(r)
              /\ ~IsV4(r) => r.metric # 0
    <1>1. \A e \in d.routes : /\ NetdRoute(e.destination, e) \in Route
                              /\ Mine(NetdRoute(e.destination, e))
                              /\ IsV4(NetdRoute(e.destination, e))
        BY RtnlAssumption DEF Desired, NetdRoute, Route, Mine, IsV4, RTPROT_NETD
    <1>2. d.default_route # None => /\ NetdRoute(Default4, d.default_route) \in Route
                                    /\ Mine(NetdRoute(Default4, d.default_route))
                                    /\ IsV4(NetdRoute(Default4, d.default_route))
        BY RtnlAssumption, ReconcileAssumption
        DEF Desired, Via, NetdRoute, Route, Mine, IsV4, RTPROT_NETD
    <1> DEFINE via6 == [d.default_route6 EXCEPT !.metric = EffectiveMetric(@)]
    <1>3. d.default_route6 # None => /\ NetdRoute(Default6, via6) \in Route
                                     /\ Mine(NetdRoute(Default6, via6))
                                     /\ NetdRoute(Default6, via6).metric # 0
        BY RtnlAssumption DEF Desired, Via, NetdRoute, Route, Mine, EffectiveMetric,
           IP6_RT_PRIO_USER, RTPROT_NETD
    <1> QED BY <1>1, <1>2, <1>3 DEF WantRoutes

\* What each kind of request in a plan says about the dump it was made from.
LEMMA PlanForms ==
    ASSUME NEW o \in Snapshot, NEW d \in Desired, NEW op \in Plan(o, d)
    PROVE  /\ o.present
           /\ \/ op = LinkUp /\ d.up /\ ~o.up
              \/ op = LinkDown /\ ~d.up /\ o.up
              \/ op.type = "Mtu" /\ op = Mtu(d.mtu) /\ d.mtu \in Nat /\ d.mtu # o.mtu
              \/ /\ op.type = "DelAddress" /\ op = DelAddress(op.address)
                 /\ op.address \in HaveAddresses(o) /\ ~WantedKey(d, op.address)
              \/ /\ op.type = "AddAddress" /\ op = AddAddress(op.address)
                 /\ op.address \in WantAddresses(d) \ HaveAddresses(o)
              \/ /\ op.type = "DelRoute" /\ op = DelRoute(op.route)
                 /\ op.route \in HaveRoutes(o) \ WantRoutes(d)
              \/ /\ op.type = "AddRoute" /\ op = AddRoute(op.route)
                 /\ op.route \in WantRoutes(d) \ HaveRoutes(o)
    <1>1. d # None
        BY ReconcileAssumption
    <1>2. o.present /\ op \in PlanLink(o, d) \cup PlanMtu(o, d) \cup PlanAddresses(o, d)
                                \cup PlanRoutes(o, d)
        BY <1>1 DEF Plan
    <1>3. CASE op \in PlanLink(o, d)
        BY <1>2, <1>3 DEF PlanLink
    <1>4. CASE op \in PlanMtu(o, d)
        BY <1>2, <1>4 DEF PlanMtu, Mtu, Desired
    <1>5. CASE op \in PlanAddresses(o, d)
        BY <1>2, <1>5 DEF PlanAddresses, AddAddress, DelAddress
    <1>6. CASE op \in PlanRoutes(o, d)
        BY <1>2, <1>6 DEF PlanRoutes, AddRoute, DelRoute
    <1> QED BY <1>2, <1>3, <1>4, <1>5, <1>6

\* A plan is made of requests.
LEMMA PlanType ==
    ASSUME NEW o \in Snapshot, NEW d \in Desired \cup {None}
    PROVE  Plan(o, d) \subseteq Op
    <1>1. CASE d = None
        BY <1>1 DEF Plan
    <1>2. CASE d \in Desired
        <2> SUFFICES ASSUME NEW op \in Plan(o, d) PROVE op \in Op
            OBVIOUS
        <2>1. HaveRoutes(o) \subseteq Route
            BY DEF HaveRoutes, Snapshot
        <2> QED BY <1>2, <2>1, PlanForms, AddressSetsType, WantRoutesType
                DEF Op, LinkUp, LinkDown, Mtu, AddAddress, DelAddress, AddRoute, DelRoute
    <1> QED BY <1>1, <1>2

\* An address added or replaced leaves a well-formed interface.
LEMMA WithAddressType ==
    ASSUME NEW k \in Snapshot, NEW a \in Address, NEW k2 \in WithAddress(k, a)
    PROVE  k2 \in Snapshot
    <1>1. Replaced(k.addresses, a) \subseteq Address
        <2>1. k.addresses \subseteq Address
            BY DEF Snapshot
        <2>2. ASSUME NEW b \in Address
              PROVE  [b EXCEPT !.deprecated = a.deprecated, !.no_prefix_route = a.no_prefix_route]
                         \in Address
            BY DEF Address
        <2> QED BY <2>1, <2>2 DEF Replaced
    <1>2. \A t \in BOOLEAN : [a EXCEPT !.tentative = t] \in Address
        BY DEF Address
    <1>3. CASE \E b \in k.addresses : Replaces(a, b)
        BY <1>1, <1>3 DEF WithAddress, Snapshot
    <1>4. CASE ~\E b \in k.addresses : Replaces(a, b)
        <2>1. PICK t \in BOOLEAN :
                 k2 = [k EXCEPT !.addresses = @ \cup {[a EXCEPT !.tentative = t]}]
            BY <1>4 DEF WithAddress
        <2> QED BY <2>1, <1>2 DEF Snapshot
    <1> QED BY <1>3, <1>4

\* Whatever the kernel does with a request, it stays well-formed.
LEMMA EffectsType ==
    ASSUME NEW k \in Snapshot, NEW op \in Op, NEW k2 \in Effects(k, op)
    PROVE  k2 \in Snapshot
    <1>1. CASE op.type = "LinkUp"
        <2>1. FreshLinkLocals \subseteq Address
            BY RtnlAssumption DEF FreshLinkLocals, Address, Ips
        <2> DEFINE fresh == {a \in FreshLinkLocals : \A b \in k.addresses : b.ip # a.ip}
        <2>2. k2 = [k EXCEPT !.up = TRUE, !.addresses = k.addresses \cup fresh]
            BY <1>1 DEF Effects, WithUp, Snapshot
        <2>3. fresh \subseteq Address
            BY <2>1
        <2> HIDE DEF fresh
        <2> QED BY <2>2, <2>3 DEF Snapshot
    <1>2. CASE op.type = "LinkDown"
        <2>1. k2 = WithDown(k)
            BY <1>2 DEF Effects
        <2> QED BY <2>1 DEF WithDown, Snapshot
    <1>3. CASE op.type = "Mtu"
        <2>1. k2 = [k EXCEPT !.mtu = op.mtu] /\ op.mtu \in Nat
            BY <1>3 DEF Effects, Op
        <2> QED BY <2>1 DEF Snapshot
    <1>4. CASE op.type = "AddAddress"
        BY <1>4, WithAddressType DEF Effects, Op
    <1>5. CASE op.type = "DelAddress"
        <2> DEFINE left == [k EXCEPT !.addresses = {b \in @ : ~SameKey(op.address, b)}]
        <2>1. left \in Snapshot
            BY DEF Snapshot
        <2>2. PICK S : k2 = [left EXCEPT !.routes = @ \ S]
            BY <1>5 DEF Effects, WithoutAddress
        <2> HIDE DEF left
        <2> QED BY <2>1, <2>2 DEF Snapshot
    <1>6. CASE op.type = "AddRoute"
        <2>1. Stored(op.route) \in Route
            BY <1>6 DEF Op, Stored, Route, IP6_RT_PRIO_USER
        <2> QED BY <1>6, <2>1 DEF Effects, Snapshot
    <1>7. CASE op.type = "DelRoute"
        BY <1>7 DEF Effects, Snapshot
    <1> QED BY <1>1, <1>2, <1>3, <1>4, <1>5, <1>6, <1>7 DEF Op

\* The kernel stays well-formed under everybody else's changes too.
LEMMA ElsewhereType ==
    ASSUME kernel \in Snapshot, Elsewhere \/ DadDone
    PROVE  kernel' \in Snapshot
    <1>1. WithUp(kernel) \in Snapshot /\ WithDown(kernel) \in Snapshot
        <2>1. LinkUp \in Op /\ LinkDown \in Op
            BY DEF LinkUp, LinkDown, Op
        <2>2. WithUp(kernel) \in Effects(kernel, LinkUp) /\ WithDown(kernel) \in Effects(kernel, LinkDown)
            BY DEF Effects, LinkUp, LinkDown
        <2> QED BY <2>1, <2>2, EffectsType
    <1>2. \A a \in ForeignAddresses : WithAddress(kernel, a) \subseteq Snapshot
        BY WithAddressType, ReconcileAssumption
    <1>3. \A a \in kernel.addresses : WithoutAddress(kernel, a) \subseteq Snapshot
        <2> SUFFICES ASSUME NEW a \in kernel.addresses PROVE WithoutAddress(kernel, a) \subseteq Snapshot
            OBVIOUS
        <2>1. DelAddress(a) \in Op
            BY DEF DelAddress, Op, Snapshot
        <2>2. WithoutAddress(kernel, a) = Effects(kernel, DelAddress(a))
            BY DEF Effects, DelAddress
        <2> QED BY <2>1, <2>2, EffectsType
    <1>4. [kernel EXCEPT !.present = FALSE, !.up = FALSE, !.addresses = {},
                         !.routes = {r \in @ : r.index # This}] \in Snapshot
        BY DEF Snapshot
    <1>5. \A m \in Mtus : [kernel EXCEPT !.present = TRUE, !.mtu = m] \in Snapshot
        BY ReconcileAssumption DEF Snapshot
    <1>6. \A r \in ForeignRoutes : [kernel EXCEPT !.routes = @ \cup {r}] \in Snapshot
        BY ReconcileAssumption DEF Snapshot
    <1>7. \A r \in kernel.routes : [kernel EXCEPT !.routes = @ \ {r}] \in Snapshot
        BY DEF Snapshot
    <1>8. CASE Elsewhere
        BY <1>1, <1>2, <1>3, <1>4, <1>5, <1>6, <1>7, <1>8 DEF Elsewhere
    <1>9. CASE DadDone
        <2>1. PICK a \in kernel.addresses :
                 kernel' = [kernel EXCEPT !.addresses = (@ \ {a}) \cup {Settled(a)}]
            BY <1>9 DEF DadDone
        <2>2. Settled(a) \in Address
            BY DEF Settled, Snapshot, Address
        <2> QED BY <2>1, <2>2 DEF Snapshot
    <1> QED BY <1>8, <1>9

-----------------------------------------------------------------------------
(***************************************************************************)
(* The inductive invariant.                                                *)
(***************************************************************************)

\* Requests are pending only while applying, and none is aimed at what the
\* state they were planned for wants to keep: it does not change meanwhile.
PendingSound ==
    /\ phase # "apply" => ops = {}
    /\ \A op \in ops :
          /\ desired # None
          /\ op.type = "DelAddress" => ~WantedKey(desired, op.address)
          /\ op.type = "LinkDown" => ~desired.up

\* With no notification waiting and no dump missed, the last dump is the kernel.
DumpIsCurrent == ~events /\ ~stale => observed = kernel

\* A missed dump is in the log of the pass.
StaleIsFailed == stale => failed

\* While applying, with nothing notified and nothing failed, all that a new plan
\* would ask for is still pending.
RestPending ==
    phase = "apply" /\ ~events /\ ~failed /\ Sound(desired) =>
        \A op \in Plan(kernel, desired) : op \in ops \/ Blocked(kernel, op)

IInv ==
    /\ TypeOK
    /\ NothingForeignPlanned
    /\ PendingSound
    /\ DumpIsCurrent
    /\ StaleIsFailed
    /\ RestPending
    /\ IdleMeansConverged

\* A fresh plan removes nothing foreign and nothing wanted.
LEMMA PlanSpares ==
    ASSUME NEW o \in Snapshot, NEW d \in Desired \cup {None}, NEW op \in Plan(o, d)
    PROVE  /\ d # None
           /\ op.type = "DelRoute" => Mine(op.route)
           /\ op.type = "DelAddress" => op.address.ip \notin LinkLocals /\ ~WantedKey(d, op.address)
           /\ op.type = "LinkDown" => ~d.up
    <1>1. d \in Desired
        BY DEF Plan
    <1>2. \A a \in HaveAddresses(o) : a.ip \notin LinkLocals
        BY DEF HaveAddresses, Settled
    <1>3. \A r \in HaveRoutes(o) : Mine(r)
        BY DEF HaveRoutes
    <1> QED BY <1>1, <1>2, <1>3, PlanForms, ReconcileAssumption
            DEF LinkUp, LinkDown, Mtu, AddAddress, DelAddress, AddRoute, DelRoute

-----------------------------------------------------------------------------
(***************************************************************************)
(* What a request does when it was planned from the kernel as it is.       *)
(***************************************************************************)

\* A wanted address that is not held as wanted changes the interface when it is
\* added, unless the kernel has the same IPv6 address at another prefix, which
\* the plan deletes first.
LEMMA AddAddressCounts ==
    ASSUME NEW k \in Snapshot, NEW d \in Desired, Sound(d),
           NEW a \in WantAddresses(d) \ HaveAddresses(k),
           k \in WithAddress(k, a)
    PROVE  \E b \in HaveAddresses(k) : ~WantedKey(d, b)
    <1>1. a \in Address /\ ~a.tentative /\ a.ip \notin LinkLocals
        <2>1. a \in Address
            BY AddressSetsType
        <2>2. \A e \in d.addresses6 : e.ip \in V6
            BY ReconcileAssumption DEF Sound
        <2>3. \A e \in d.addresses : e.ip \in V4
            BY DEF Desired
        <2> QED BY <2>1, <2>2, <2>3, RtnlAssumption DEF WantAddresses, NoFlags, Settled
    <1>2. PICK b \in k.addresses : Replaces(a, b)
        <2> SUFFICES ASSUME \A b \in k.addresses : ~Replaces(a, b) PROVE FALSE
            OBVIOUS
        <2>1. PICK t \in BOOLEAN :
                 k = [k EXCEPT !.addresses = @ \cup {[a EXCEPT !.tentative = t]}]
            BY DEF WithAddress
        <2>2. [a EXCEPT !.tentative = t] \in k.addresses
            BY <2>1 DEF Snapshot
        <2> QED BY <1>1, <2>2 DEF Replaces, Address
    <1>3. Replaced(k.addresses, a) = k.addresses
        BY <1>2 DEF WithAddress, Snapshot
    <1>4. b \in Address /\ b.ip = a.ip
        BY <1>2 DEF Snapshot, Replaces
    <1>5. b.prefix # a.prefix
        <2> SUFFICES ASSUME b.prefix = a.prefix PROVE FALSE
            OBVIOUS
        <2> DEFINE c == [b EXCEPT !.deprecated = a.deprecated, !.no_prefix_route = a.no_prefix_route]
        <2>1. c \in k.addresses
            BY <1>2, <1>3 DEF Replaced
        <2>2. Settled(c) = a
            BY <1>1, <1>4 DEF Settled, Address
        <2>3. c.ip \notin LinkLocals
            BY <1>1, <1>4 DEF Address
        <2> QED BY <2>1, <2>2, <2>3 DEF HaveAddresses
    <1>6. a.ip \notin V4
        BY <1>2, <1>5 DEF Replaces
    <1>7. \A w \in WantAddresses(d) : w.ip = a.ip => w = a
        <2> SUFFICES ASSUME NEW w \in WantAddresses(d), w.ip = a.ip PROVE w = a
            OBVIOUS
        <2>0. \A e \in d.addresses : NoFlags(e).ip \in V4
            BY DEF NoFlags, Desired
        <2>1. PICK e \in d.addresses6 : a = Settled(e)
            BY <1>6, <2>0 DEF WantAddresses
        <2>2. PICK f \in d.addresses6 : w = Settled(f)
            BY <1>6, <2>0 DEF WantAddresses
        <2>3. e.ip = f.ip
            BY <2>1, <2>2 DEF Settled
        <2> QED BY <2>1, <2>2, <2>3, ReconcileAssumption DEF Sound
    <1>8. Settled(b) \in HaveAddresses(k)
        BY <1>1, <1>2, <1>4 DEF HaveAddresses
    <1>9. ~WantedKey(d, Settled(b))
        BY <1>4, <1>5, <1>7 DEF WantedKey, SameKey, Settled
    <1> QED BY <1>8, <1>9

\* A route that clashes is kept out by a foreign one or by one of netd's own
\* that the plan deletes first.
LEMMA ClashCounts ==
    ASSUME NEW k \in Snapshot, NEW d \in Desired,
           NEW r \in WantRoutes(d) \ HaveRoutes(k), Clashes(k, r)
    PROVE  Blocked(k, AddRoute(r)) \/ \E s \in HaveRoutes(k) : s \notin WantRoutes(d)
    <1>1. r \in Route /\ Mine(r) /\ (~IsV4(r) => r.metric # 0)
        BY WantRoutesType
    <1>2. ~IsV4(r)
        BY <1>1 DEF Clashes, HaveRoutes
    <1>3. PICK s \in k.routes : s.destination = r.destination /\ s.metric = r.metric
        BY <1>1, <1>2 DEF Clashes, Stored
    <1>4. CASE ~Mine(s)
        BY <1>2, <1>3, <1>4 DEF Blocked, AddRoute
    <1>5. CASE Mine(s)
        <2>1. s \in HaveRoutes(k)
            BY <1>5 DEF HaveRoutes
        <2>2. \A w \in WantRoutes(d) : w.destination = Default6 =>
                 w = NetdRoute(Default6, [d.default_route6 EXCEPT !.metric = EffectiveMetric(@)])
            BY ReconcileAssumption DEF WantRoutes, NetdRoute, Desired
        <2>3. r.destination = Default6 /\ s.destination = Default6
            BY <1>2, <1>3 DEF IsV4
        <2>4. s \notin WantRoutes(d)
            BY <2>1, <2>2, <2>3
        <2> QED BY <2>1, <2>4
    <1> QED BY <1>4, <1>5

\* A planned request that is next in line, with the rest of the plan pending,
\* is not wasted: granted, it changes the interface; answered "exists" or
\* "absent", it is one that a foreign route keeps out.
LEMMA PlannedOpCounts ==
    ASSUME NEW k \in Snapshot, NEW d \in Desired, Sound(d), NEW op \in Plan(k, d),
           NEW pending,
           \A other \in Plan(k, d) : other \in pending \/ Blocked(k, other),
           \A other \in pending : Rank(op) <= Rank(other)
    PROVE  /\ Outcome(k, op) = "ok" => k \notin Effects(k, op)
           /\ Outcome(k, op) \in {"ok", "error"} \/ Blocked(k, op)
    <1> USE DEF LinkUp, LinkDown, Mtu, AddAddress, DelAddress, AddRoute, DelRoute
    <1>0. k.present
        BY PlanForms
    <1>1. CASE op = LinkUp \/ op = LinkDown \/ op.type = "Mtu"
        <2>1. Outcome(k, op) = "ok"
            BY <1>0, <1>1 DEF Outcome
        <2>2. k \notin Effects(k, op)
            <3>1. CASE op = LinkUp
                <4>1. ~k.up
                    BY <3>1, PlanForms
                <4>2. WithUp(k).up = TRUE
                    BY DEF WithUp, Snapshot
                <4> QED BY <3>1, <4>1, <4>2 DEF Effects
            <3>2. CASE op = LinkDown
                <4>1. k.up
                    BY <3>2, PlanForms
                <4>2. WithDown(k).up = FALSE
                    BY DEF WithDown, Snapshot
                <4> QED BY <3>2, <4>1, <4>2 DEF Effects
            <3>3. CASE op.type = "Mtu"
                <4>1. op.mtu # k.mtu
                    BY <3>3, PlanForms
                <4>2. [k EXCEPT !.mtu = op.mtu].mtu = op.mtu
                    BY DEF Snapshot
                <4> QED BY <3>3, <4>1, <4>2 DEF Effects
            <3> QED BY <1>1, <3>1, <3>2, <3>3
        <2> QED BY <2>1, <2>2
    <1>2. CASE op.type = "DelAddress"
        <2>1. op.address \in HaveAddresses(k)
            BY <1>2, PlanForms
        <2>2. PICK b \in k.addresses : SameKey(b, op.address)
            <3>1. PICK c \in k.addresses : op.address = Settled(c)
                BY <2>1 DEF HaveAddresses
            <3>2. SameKey(c, op.address)
                BY <3>1 DEF Settled, SameKey
            <3> QED BY <3>1, <3>2
        <2>3. Outcome(k, op) = "ok"
            BY <1>0, <1>2, <2>2 DEF Outcome
        <2>4. \A k2 \in Effects(k, op) : b \notin k2.addresses
            <3> SUFFICES ASSUME NEW k2 \in Effects(k, op) PROVE b \notin k2.addresses
                OBVIOUS
            <3> DEFINE left == [k EXCEPT !.addresses = {c \in @ : ~SameKey(op.address, c)}]
            <3>1. left \in Snapshot /\ b \notin left.addresses
                BY <2>2 DEF Snapshot, SameKey
            <3>2. PICK S : k2 = [left EXCEPT !.routes = @ \ S]
                BY <1>2 DEF Effects, WithoutAddress
            <3> HIDE DEF left
            <3> QED BY <3>1, <3>2 DEF Snapshot
        <2> QED BY <2>2, <2>3, <2>4
    <1>3. CASE op.type = "AddAddress"
        <2>1. Outcome(k, op) = "ok"
            BY <1>0, <1>3 DEF Outcome
        <2> SUFFICES ASSUME k \in Effects(k, op) PROVE FALSE
            BY <2>1
        <2>2. k \in WithAddress(k, op.address)
            BY <1>3 DEF Effects
        <2>3. op.address \in WantAddresses(d) \ HaveAddresses(k)
            BY <1>3, PlanForms
        <2>4. PICK b \in HaveAddresses(k) : ~WantedKey(d, b)
            BY <2>2, <2>3, AddAddressCounts
        <2>5. DelAddress(b) \in Plan(k, d)
            BY <1>0, <2>4, ReconcileAssumption DEF Plan, PlanAddresses
        <2>6. DelAddress(b) \in pending
            BY <2>5 DEF Blocked
        <2> QED BY <1>3, <2>6 DEF Rank
    <1>4. CASE op.type = "DelRoute"
        <2>1. op.route \in k.routes
            BY <1>4, PlanForms DEF HaveRoutes
        <2>2. Outcome(k, op) = "ok"
            BY <1>0, <1>4, <2>1 DEF Outcome
        <2>3. k \notin Effects(k, op)
            BY <1>4, <2>1 DEF Effects, Snapshot
        <2> QED BY <2>2, <2>3
    <1>5. CASE op.type = "AddRoute"
        <2>1. op = AddRoute(op.route) /\ op.route \in WantRoutes(d) \ HaveRoutes(k)
            BY <1>5, PlanForms
        <2>2. op.route \in Route /\ Mine(op.route) /\ (~IsV4(op.route) => op.route.metric # 0)
            BY <2>1, WantRoutesType
        <2>3. Stored(op.route) = op.route /\ op.route \notin k.routes
            BY <2>1, <2>2 DEF Stored, HaveRoutes
        <2>4. k \notin Effects(k, op)
            BY <1>5, <2>3 DEF Effects, Snapshot
        <2>5. ASSUME Clashes(k, op.route) PROVE Blocked(k, op)
            <3>1. CASE Blocked(k, AddRoute(op.route))
                BY <2>1, <3>1
            <3>2. CASE \E s \in HaveRoutes(k) : s \notin WantRoutes(d)
                <4>1. PICK s \in HaveRoutes(k) : s \notin WantRoutes(d)
                    BY <3>2
                <4>2. DelRoute(s) \in Plan(k, d)
                    BY <1>0, <4>1, ReconcileAssumption DEF Plan, PlanRoutes
                <4>3. DelRoute(s) \in pending
                    BY <4>2 DEF Blocked
                <4> QED BY <1>5, <4>3 DEF Rank
            <3> QED BY <2>1, <2>5, <3>1, <3>2, ClashCounts
        <2>6. Outcome(k, op) \in {"ok", "error"} \/ Clashes(k, op.route)
            BY <1>0, <1>5 DEF Outcome
        <2> QED BY <2>4, <2>5, <2>6
    <1> QED BY <1>1, <1>2, <1>3, <1>4, <1>5, PlanForms

-----------------------------------------------------------------------------
(***************************************************************************)
(* The invariant is inductive.                                             *)
(***************************************************************************)

\* main's first dump.
LEMMA InitIInv == Init => IInv
    <1> SUFFICES ASSUME Init PROVE IInv
        OBVIOUS
    <1>1. kernel \in Snapshot
        BY ReconcileAssumption DEF Init, Snapshot
    <1>a. MAX_PASSES \in Nat \ {0} /\ MAX_DISTURBANCES \in Nat
        BY ReconcileAssumption
    <1>2. TypeOK
        <2>1. pass \in 0..MAX_PASSES /\ budget \in 0..MAX_DISTURBANCES
            BY <1>a DEF Init
        <2> QED BY <1>1, <2>1 DEF Init, TypeOK
    <1>3. NothingForeignPlanned /\ PendingSound
        BY DEF Init, NothingForeignPlanned, PendingSound
    <1>4. DumpIsCurrent /\ StaleIsFailed /\ RestPending /\ IdleMeansConverged
        BY DEF Init, DumpIsCurrent, StaleIsFailed, RestPending, IdleMeansConverged
    <1> QED BY <1>2, <1>3, <1>4 DEF IInv

\* Every step keeps the types.
LEMMA TypePreserved ==
    ASSUME TypeOK, [Next]_vars
    PROVE  TypeOK'
    <1> USE DEF TypeOK
    <1>a. MAX_PASSES \in Nat \ {0} /\ MAX_DISTURBANCES \in Nat
        BY ReconcileAssumption
    <1>b. Disturbance => budget' \in 0..MAX_DISTURBANCES
        BY <1>a DEF Disturbance
    <1>1. CASE DrainEvents
        <2>1. pass' \in 0..MAX_PASSES
            BY <1>1, <1>a DEF DrainEvents
        <2> QED BY <1>1, <2>1 DEF DrainEvents
    <1>2. CASE MakePlan
        <2>1. Plan(observed, desired) \subseteq Op
            BY PlanType, ReconcileAssumption
        <2>2. (observed = kernel /\ (pass > 1 => clean)) \in BOOLEAN
            OBVIOUS
        <2> QED BY <1>2, <2>1, <2>2 DEF MakePlan
    <1>3. ASSUME NEW op \in ops, ApplyOp(op) PROVE TypeOK'
        <2>1. kernel' \in Snapshot
            BY <1>3, EffectsType DEF ApplyOp
        <2>2. events' \in BOOLEAN /\ failed' \in BOOLEAN
            BY <1>3 DEF ApplyOp
        <2> QED BY <1>3, <2>1, <2>2 DEF ApplyOp
    <1>4. CASE Redump
        <2>1. pass' \in 0..MAX_PASSES
            BY <1>4, <1>a DEF Redump
        <2> QED BY <1>4, <2>1 DEF Redump
    <1>5. CASE DrainEventsDumpFails
        BY <1>5, <1>a, <1>b DEF DrainEventsDumpFails
    <1>6. ASSUME NEW d \in Desireds \cup {None}, Want(d) PROVE TypeOK'
        <2>1. pass' \in 0..MAX_PASSES
            BY <1>6, <1>a DEF Want
        <2> QED BY <1>6, <1>b, <2>1 DEF Want
    <1>7. ASSUME NEW op \in ops, FailOp(op) PROVE TypeOK'
        BY <1>7, <1>a, <1>b DEF FailOp
    <1>8. CASE RedumpFails
        <2>1. pass' \in 0..MAX_PASSES
            BY <1>8, <1>a DEF RedumpFails
        <2> QED BY <1>8, <1>b, <2>1 DEF RedumpFails
    <1>9. CASE Elsewhere
        BY <1>9, <1>b, ElsewhereType DEF Elsewhere
    <1>10. CASE DadDone
        BY <1>10, ElsewhereType DEF DadDone
    <1>11. CASE UNCHANGED vars
        BY <1>11 DEF vars
    <1> QED BY <1>1, <1>2, <1>3, <1>4, <1>5, <1>6, <1>7, <1>8, <1>9, <1>10, <1>11 DEF Next, Netd

\* Every step keeps pending requests away from what is foreign or wanted.
LEMMA PendingPreserved ==
    ASSUME TypeOK, NothingForeignPlanned, PendingSound, [Next]_vars
    PROVE  NothingForeignPlanned' /\ PendingSound'
    <1> USE DEF NothingForeignPlanned, PendingSound
    <1>1. CASE MakePlan
        <2>1. \A op \in Plan(observed, desired) :
                 /\ desired # None
                 /\ op.type = "DelRoute" => Mine(op.route)
                 /\ op.type = "DelAddress" => /\ op.address.ip \notin LinkLocals
                                              /\ ~WantedKey(desired, op.address)
                 /\ op.type = "LinkDown" => ~desired.up
            BY PlanSpares, ReconcileAssumption DEF TypeOK
        <2> QED BY <1>1, <2>1 DEF MakePlan
    <1>2. ASSUME NEW op \in ops, ApplyOp(op) \/ FailOp(op)
          PROVE  NothingForeignPlanned' /\ PendingSound'
        <2>1. ops' \subseteq ops /\ desired' = desired /\ phase' = phase
            BY <1>2 DEF ApplyOp, FailOp
        <2> QED BY <2>1
    <1>3. ASSUME NEW d \in Desireds \cup {None}, Want(d)
          PROVE  NothingForeignPlanned' /\ PendingSound'
        BY <1>3 DEF Want
    <1>4. CASE Redump \/ RedumpFails
        BY <1>4 DEF Redump, RedumpFails
    <1>5. CASE DrainEvents
        BY <1>5 DEF DrainEvents
    <1>6. CASE DrainEventsDumpFails \/ Elsewhere \/ DadDone \/ UNCHANGED vars
        <2>1. ops' = ops /\ desired' = desired /\ phase' = phase
            BY <1>6 DEF DrainEventsDumpFails, Elsewhere, DadDone, vars
        <2> QED BY <2>1
    <1> QED BY <1>1, <1>2, <1>3, <1>4, <1>5, <1>6 DEF Next, Netd

\* Applying an operation loses no earlier failure and no earlier notification,
\* and without a notification the kernel is as it was.
LEMMA ApplyReports ==
    ASSUME TypeOK, NEW op \in ops, ApplyOp(op)
    PROVE  /\ failed => failed'
           /\ ~events' => ~events /\ kernel' = kernel
    <1>1. failed \in BOOLEAN /\ events \in BOOLEAN
        BY DEF TypeOK
    <1> DEFINE error == Outcome(kernel, op) = "error"
               moved == kernel' # kernel
    <1>2. \/ events' = (events \/ moved) /\ failed' = failed
          \/ failed' = (failed \/ error) /\ events' = events /\ ~moved
        BY DEF ApplyOp
    <1> HIDE DEF error
    <1> QED BY <1>1, <1>2

\* A change of the kernel is notified and a missed dump is logged.
LEMMA DumpPreserved ==
    ASSUME TypeOK, DumpIsCurrent, StaleIsFailed, [Next]_vars
    PROVE  DumpIsCurrent' /\ StaleIsFailed'
    <1> USE DEF DumpIsCurrent, StaleIsFailed
    <1>1. CASE DrainEvents \/ Redump
        BY <1>1 DEF DrainEvents, Redump
    <1>2. CASE MakePlan
        BY <1>2 DEF MakePlan
    <1>3. ASSUME NEW op \in ops, ApplyOp(op) PROVE DumpIsCurrent' /\ StaleIsFailed'
        <2>1. stale' = stale /\ observed' = observed /\ (failed => failed')
            BY <1>3, ApplyReports DEF ApplyOp
        <2>2. ~events' => ~events /\ kernel' = kernel
            BY <1>3, ApplyReports
        <2> QED BY <2>1, <2>2
    <1>4. CASE DrainEventsDumpFails \/ RedumpFails
        BY <1>4 DEF DrainEventsDumpFails, RedumpFails
    <1>5. ASSUME NEW d \in Desireds \cup {None}, Want(d) PROVE DumpIsCurrent' /\ StaleIsFailed'
        BY <1>5 DEF Want
    <1>6. ASSUME NEW op \in ops, FailOp(op) PROVE DumpIsCurrent' /\ StaleIsFailed'
        BY <1>6 DEF FailOp
    <1>7. CASE Elsewhere \/ DadDone
        <2>1. stale' = stale /\ observed' = observed /\ failed' = failed
            BY <1>7 DEF Elsewhere, DadDone
        <2>2. ~events' => ~events /\ kernel' = kernel
            BY <1>7, Zenon DEF Elsewhere, DadDone
        <2> QED BY <2>1, <2>2
    <1>8. CASE UNCHANGED vars
        BY <1>8 DEF vars
    <1> QED BY <1>1, <1>2, <1>3, <1>4, <1>5, <1>6, <1>7, <1>8 DEF Next, Netd

\* What has been applied without a notification or a failure was done already
\* or is kept out; the rest of the plan is still pending.
LEMMA RestPreserved ==
    ASSUME IInv, [Next]_vars
    PROVE  RestPending'
    <1> SUFFICES ASSUME phase' = "apply", ~events', ~failed', Sound(desired)',
                        NEW op \in Plan(kernel, desired)', op \notin ops'
                 PROVE  Blocked(kernel, op)'
        BY DEF RestPending
    <1>1. CASE MakePlan
        <2>1. observed = kernel
            BY <1>1 DEF MakePlan, IInv, DumpIsCurrent
        <2> QED BY <1>1, <2>1 DEF MakePlan
    <1>2. ASSUME NEW done \in ops, ApplyOp(done) PROVE Blocked(kernel, op)'
        <2>1. phase = "apply" /\ ~events /\ ~failed /\ kernel' = kernel /\ desired' = desired
            BY <1>2, ApplyReports DEF ApplyOp, IInv
        <2>2. \A other \in Plan(kernel, desired) : other \in ops \/ Blocked(kernel, other)
            BY <2>1 DEF IInv, RestPending
        <2>3. CASE op \notin ops
            BY <2>1, <2>2, <2>3
        <2>4. CASE op = done
            <3>1. op \in Plan(kernel, desired) /\ Sound(desired)
                BY <2>1
            <3>2. desired \in Desired
                BY <3>1, ReconcileAssumption DEF IInv, TypeOK, Plan
            <3>3. \A other \in ops : Rank(op) <= Rank(other)
                BY <1>2, <2>4 DEF ApplyOp, NextOps
            <3>4. kernel \in Snapshot
                BY DEF IInv, TypeOK
            <3>5. /\ Outcome(kernel, op) = "ok" => kernel \notin Effects(kernel, op)
                  /\ Outcome(kernel, op) \in {"ok", "error"} \/ Blocked(kernel, op)
                BY <2>2, <3>1, <3>2, <3>3, <3>4, PlannedOpCounts
            <3>6. Outcome(kernel, op) # "error"
                BY <1>2, <2>4 DEF ApplyOp
            <3>7. Outcome(kernel, op) = "ok" => kernel \in Effects(kernel, op)
                BY <1>2, <2>1, <2>4 DEF ApplyOp
            <3> QED BY <2>1, <3>5, <3>6, <3>7
        <2> QED BY <1>2, <2>3, <2>4 DEF ApplyOp
    <1>3. CASE UNCHANGED vars
        BY <1>3 DEF vars, IInv, RestPending
    <1>4. ASSUME NEW d \in Desireds \cup {None}, Want(d) PROVE FALSE
        BY <1>4 DEF Want
    <1>5. ASSUME NEW done \in ops, FailOp(done) PROVE FALSE
        BY <1>5 DEF FailOp
    <1>6. ~(DrainEvents \/ Redump \/ DrainEventsDumpFails \/ RedumpFails \/ Elsewhere \/ DadDone)
        BY DEF DrainEvents, Redump, DrainEventsDumpFails, RedumpFails, Elsewhere, DadDone
    <1> QED BY <1>1, <1>2, <1>3, <1>4, <1>5, <1>6 DEF Next, Netd

\* Poll is reached only through a dump with nothing left to apply.
LEMMA IdlePreserved ==
    ASSUME IInv, [Next]_vars
    PROVE  IdleMeansConverged'
    <1> SUFFICES ASSUME phase' = "idle", ~events', ~failed', Sound(desired)',
                        NEW op \in Plan(kernel, desired)'
                 PROVE  Blocked(kernel, op)'
        BY DEF IdleMeansConverged
    <1>1. CASE Redump
        <2>1. /\ phase = "apply" /\ ~events /\ ~failed /\ ops = {}
              /\ kernel' = kernel /\ desired' = desired
            BY <1>1 DEF Redump
        <2> QED BY <2>1 DEF IInv, RestPending
    <1>2. CASE UNCHANGED vars
        BY <1>2 DEF vars, IInv, IdleMeansConverged
    <1>3. ASSUME NEW d \in Desireds \cup {None}, Want(d) PROVE FALSE
        BY <1>3 DEF Want
    <1>4. ASSUME NEW done \in ops, ApplyOp(done) \/ FailOp(done) PROVE FALSE
        BY <1>4 DEF ApplyOp, FailOp
    <1>5. ~(DrainEvents \/ MakePlan \/ DrainEventsDumpFails \/ RedumpFails \/ Elsewhere \/ DadDone)
        BY DEF DrainEvents, MakePlan, DrainEventsDumpFails, RedumpFails, Elsewhere, DadDone
    <1> QED BY <1>1, <1>2, <1>3, <1>4, <1>5 DEF Next, Netd

\* The invariant holds in every reachable state.
THEOREM Invariance == Spec => []IInv
    <1>1. IInv /\ [Next]_vars => IInv'
        BY TypePreserved, PendingPreserved, DumpPreserved, RestPreserved, IdlePreserved DEF IInv
    <1> QED BY InitIInv, <1>1, PTL DEF Spec

\* Type correctness of netd's picture, its plan and the kernel.
THEOREM TypeCorrect == Spec => []TypeOK
    BY Invariance, PTL DEF IInv

\* netd removes only what it owns, at every moment of applying and whatever
\* happened since the dump (plan_routes, plan_addresses).
THEOREM Ownership == Spec => []NothingForeignPlanned
    BY Invariance, PTL DEF IInv

\* The daemon never sleeps over a difference it has not logged: asleep in poll
\* with nothing to read and nothing failed, a plan made from the kernel itself
\* would be empty but for IPv6 routes that somebody else's keeps out.
THEOREM Converged == Spec => []IdleMeansConverged
    BY Invariance, PTL DEF IInv

\* No pass takes away an address that is held and wanted (plan_addresses).
THEOREM AddressesKept == Spec => StandingAddressesKept
    <1> DEFINE Kept == \A a \in kernel.addresses :
                          WantedKey(desired, a) => \E b \in kernel'.addresses : SameKey(a, b)
               Step == ops' # ops /\ phase = "apply" /\ desired.up => Kept
    <1>1. IInv /\ [Next]_vars => Step
        <2> SUFFICES ASSUME IInv, [Next]_vars, ops' # ops, phase = "apply", desired.up PROVE Kept
            OBVIOUS
        <2>1. ASSUME NEW op \in ops, FailOp(op) PROVE Kept
            BY <2>1 DEF FailOp, SameKey
        <2>2. ASSUME NEW op \in ops, ApplyOp(op), kernel' = kernel PROVE Kept
            BY <2>2 DEF SameKey
        <2>3. ASSUME NEW op \in ops, ApplyOp(op), kernel' # kernel PROVE Kept
            <3> SUFFICES ASSUME NEW a \in kernel.addresses, WantedKey(desired, a)
                         PROVE  \E b \in kernel'.addresses : SameKey(a, b)
                OBVIOUS
            <3>1. kernel' \in Effects(kernel, op) /\ op \in Op /\ kernel \in Snapshot
                BY <2>3 DEF ApplyOp, IInv, TypeOK
            <3>2. /\ op.type = "DelAddress" => ~WantedKey(desired, op.address)
                  /\ op.type # "LinkDown"
                BY DEF IInv, PendingSound
            <3>3. CASE op.type = "LinkUp"
                BY <3>1, <3>3 DEF Effects, WithUp, Snapshot, SameKey
            <3>4. CASE op.type = "AddAddress"
                <4>1. CASE \E b \in kernel.addresses : Replaces(op.address, b)
                    <5>1. kernel'.addresses = Replaced(kernel.addresses, op.address)
                        BY <3>1, <3>4, <4>1 DEF Effects, WithAddress, Snapshot
                    <5> DEFINE c == [a EXCEPT !.deprecated = op.address.deprecated,
                                              !.no_prefix_route = op.address.no_prefix_route]
                    <5>2. SameKey(a, a) /\ SameKey(a, c)
                        BY <3>1 DEF SameKey, Snapshot, Address
                    <5> QED BY <5>1, <5>2 DEF Replaced
                <4>2. CASE ~\E b \in kernel.addresses : Replaces(op.address, b)
                    <5>1. PICK t \in BOOLEAN :
                             kernel' = [kernel EXCEPT !.addresses =
                                            @ \cup {[op.address EXCEPT !.tentative = t]}]
                        BY <3>1, <3>4, <4>2 DEF Effects, WithAddress
                    <5> QED BY <3>1, <5>1 DEF Snapshot, SameKey
                <4> QED BY <4>1, <4>2
            <3>5. CASE op.type = "DelAddress"
                <4> DEFINE left == [kernel EXCEPT !.addresses =
                                        {b \in @ : ~SameKey(op.address, b)}]
                <4>1. ~SameKey(op.address, a)
                    BY <3>2, <3>5 DEF WantedKey, SameKey
                <4>2. left \in Snapshot /\ a \in left.addresses
                    BY <3>1, <4>1 DEF Snapshot
                <4>3. PICK S : kernel' = [left EXCEPT !.routes = @ \ S]
                    BY <3>1, <3>5 DEF Effects, WithoutAddress
                <4> HIDE DEF left
                <4> QED BY <4>2, <4>3 DEF Snapshot, SameKey
            <3>6. CASE op.type \in {"Mtu", "AddRoute", "DelRoute"}
                BY <3>1, <3>6 DEF Effects, Snapshot, SameKey
            <3> QED BY <3>1, <3>2, <3>3, <3>4, <3>5, <3>6 DEF Op
        <2>4. ~(Redump \/ RedumpFails)
            BY DEF Redump, RedumpFails
        <2>5. ~(DrainEvents \/ MakePlan \/ DrainEventsDumpFails \/ Elsewhere \/ DadDone)
            BY DEF DrainEvents, MakePlan, DrainEventsDumpFails, Elsewhere, DadDone
        <2>6. ASSUME NEW d \in Desireds \cup {None}, Want(d) PROVE FALSE
            BY <2>6 DEF Want
        <2>7. ~UNCHANGED vars
            BY DEF vars
        <2> QED BY <2>1, <2>2, <2>3, <2>4, <2>5, <2>6, <2>7 DEF Next, Netd
    <1>2. IInv /\ [Next]_vars => [Step]_vars
        BY <1>1
    <1> QED BY Invariance, <1>2, PTL DEF Spec, StandingAddressesKept

=============================================================================
