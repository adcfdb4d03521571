------------------------------ MODULE Reconcile ------------------------------
(***************************************************************************)
(* Desired state diffed against observed state and applied, one request at *)
(* a time, while the kernel moves underneath (netd/src/reconcile.rs, and   *)
(* the loop around it: Netd::reconcile_all and Netd::converge in           *)
(* netd/src/main.rs, the rtnetlink arm of event_loop::run).                *)
(*                                                                         *)
(* One interface.  What it should look like arrives from outside (Want):   *)
(* deciding it is the business of the rest of the daemon.  `observed` is   *)
(* the last dump; plans are made against it and never against the kernel   *)
(* itself, so everything between a dump and the next is a race this module *)
(* is about.                                                               *)
(***************************************************************************)
EXTENDS Rtnl, FiniteSets

CONSTANTS
    Desireds,           \* the desired states the daemon may arrive at
    ForeignAddresses,   \* what somebody else may add to the interface
    ForeignRoutes,
    Default4,           \* 0.0.0.0/0
    Mtus,               \* the sizes a link may have when it appears
    MAX_PASSES,         \* the bound of the loop in Netd::converge: 4
    MAX_DISTURBANCES    \* bound: foreign changes, new desires and failures

RTPROT_NETD == 200
MIN_MTU == 68

DesiredV6 == [ip : V6 \cup LinkLocals, prefix : Prefixes,
              deprecated : BOOLEAN, no_prefix_route : BOOLEAN]
Via == [gateway : Gateways, metric : Nat]

Desired ==
    [up : BOOLEAN, mtu : Nat \cup {None},
     addresses : SUBSET [ip : V4, prefix : Prefixes],
     addresses6 : SUBSET DesiredV6,
     default_route : Via \cup {None}, default_route6 : Via \cup {None},
     routes : SUBSET [destination : Destinations \ {Default6}, gateway : Gateways, metric : Nat]]

ASSUME ReconcileAssumption ==
    /\ Default4 \in Destinations \ {Default6}
    /\ Desireds \subseteq Desired
    /\ None \notin Nat /\ None \notin Via /\ None \notin Desired
    /\ ForeignAddresses \subseteq Address
    /\ ForeignRoutes \subseteq Route
    /\ Mtus \subseteq Nat /\ Mtus # {}
    /\ MAX_PASSES \in Nat \ {0}
    /\ MAX_DISTURBANCES \in Nat

VARIABLES
    kernel,     \* the truth
    observed,   \* the last dump of it
    desired,    \* what the interface should look like, None where it is ignored
    phase,      \* "idle" in poll, "plan" before a plan, "apply" while applying
    full,       \* the pass in progress is a converge, not a bare reconcile
    pass,       \* how many times this converge has planned
    ops,        \* what is left of the plan
    events,     \* rtnetlink notifications wait on the events socket
    stale,      \* history: the last dump failed
    failed,     \* history: the pass missed a dump, or an operation failed
    clean,      \* history: nobody else moved since the converge's first plan
    budget      \* disturbances left

vars == <<kernel, observed, desired, phase, full, pass, ops, events, stale,
          failed, clean, budget>>

-----------------------------------------------------------------------------
(***************************************************************************)
(* The plan.                                                               *)
(***************************************************************************)
NoFlags(a) == [ip |-> a.ip, prefix |-> a.prefix, deprecated |-> FALSE,
               no_prefix_route |-> FALSE, tentative |-> FALSE]
Settled(a) == [ip |-> a.ip, prefix |-> a.prefix, deprecated |-> a.deprecated,
               no_prefix_route |-> a.no_prefix_route, tentative |-> FALSE]

WantAddresses(d) ==
    {NoFlags(a) : a \in d.addresses} \cup {Settled(a) : a \in d.addresses6}

HaveAddresses(o) == {Settled(a) : a \in {b \in o.addresses : b.ip \notin LinkLocals}}

WantedKey(d, a) == \E w \in WantAddresses(d) : SameKey(w, a)

PlanAddressesByFlags(o, d) ==     \* mutant
    {DelAddress(a) : a \in HaveAddresses(o) \ WantAddresses(d)}
    \cup {AddAddress(a) : a \in WantAddresses(d) \ HaveAddresses(o)}

PlanAddresses(o, d) ==
    {DelAddress(a) : a \in {b \in HaveAddresses(o) : ~WantedKey(d, b)}}
    \cup {AddAddress(a) : a \in WantAddresses(d) \ HaveAddresses(o)}

NetdRoute(destination, via) ==
    [index |-> This, destination |-> destination, gateway |-> via.gateway,
     metric |-> via.metric, protocol |-> RTPROT_NETD]

EffectiveMetric(metric) == IF metric = 0 THEN IP6_RT_PRIO_USER ELSE metric

WantRoutes(d) ==
    {NetdRoute(r.destination, r) : r \in d.routes}
    \cup (IF d.default_route = None THEN {} ELSE {NetdRoute(Default4, d.default_route)})
    \cup (IF d.default_route6 = None THEN {}
          ELSE {NetdRoute(Default6, [d.default_route6 EXCEPT !.metric = EffectiveMetric(@)])})

Mine(r) == r.index = This /\ r.protocol = RTPROT_NETD

HaveRoutesOfAnyone(o) == {r \in o.routes : r.index = This}     \* mutant

HaveRoutes(o) == {r \in o.routes : Mine(r)}

PlanRoutes(o, d) ==
    {DelRoute(r) : r \in HaveRoutes(o) \ WantRoutes(d)}
    \cup {AddRoute(r) : r \in WantRoutes(d) \ HaveRoutes(o)}

PlanLink(o, d) ==
    {op \in {LinkUp} : d.up /\ ~o.up} \cup {op \in {LinkDown} : ~d.up /\ o.up}

PlanMtu(o, d) ==
    IF d.mtu = None THEN {} ELSE {op \in {Mtu(d.mtu)} : d.mtu # o.mtu /\ d.mtu >= MIN_MTU}

Plan(o, d) ==
    IF d = None \/ ~o.present
    THEN {}
    ELSE PlanLink(o, d) \cup PlanMtu(o, d) \cup PlanAddresses(o, d) \cup PlanRoutes(o, d)

(***************************************************************************)
(* The order the plan is pushed in.  Inside one group the code goes by     *)
(* ascending address or route; any order is allowed here.                  *)
(***************************************************************************)
Rank(op) ==
    CASE op.type = "LinkUp" -> 1     [] op.type = "Mtu" -> 2
      [] op.type = "DelAddress" -> 3 [] op.type = "AddAddress" -> 4
      [] op.type = "DelRoute" -> 5   [] op.type = "AddRoute" -> 6
      [] op.type = "LinkDown" -> 7

NextOps == {op \in ops : \A other \in ops : Rank(op) <= Rank(other)}

(***************************************************************************)
(* main: the first dump is followed by a converge.                         *)
(***************************************************************************)
Init ==
    /\ kernel \in [present : {TRUE}, up : BOOLEAN, mtu : Mtus,
                   addresses : SUBSET ForeignAddresses, routes : SUBSET ForeignRoutes]
    /\ observed = kernel
    /\ desired \in Desireds \cup {None}
    /\ phase = "plan" /\ full = TRUE /\ pass = 1
    /\ ops = {}
    /\ events = FALSE
    /\ stale = FALSE /\ failed = FALSE /\ clean = FALSE
    /\ budget = MAX_DISTURBANCES

Disturbance ==
    /\ budget > 0
    /\ budget' = budget - 1

(***************************************************************************)
(* The rtnetlink arm of the loop: read the notifications away, dump, and   *)
(* always converge, even when the dump shows nothing new.                  *)
(***************************************************************************)
DrainEventsIfChanged ==     \* mutant
    /\ phase = "idle" /\ events
    /\ events' = FALSE
    /\ observed' = kernel /\ stale' = FALSE
    /\ IF kernel = observed
       THEN UNCHANGED <<phase, full, pass>>
       ELSE phase' = "plan" /\ full' = TRUE /\ pass' = 1
    /\ UNCHANGED <<kernel, desired, ops, failed, clean, budget>>

DrainEvents ==
    /\ phase = "idle" /\ events
    /\ events' = FALSE
    /\ observed' = kernel /\ stale' = FALSE
    /\ phase' = "plan" /\ full' = TRUE /\ pass' = 1
    /\ UNCHANGED <<kernel, desired, ops, failed, clean, budget>>

(***************************************************************************)
(* The same when the dump fails: the notifications are gone, the old       *)
(* picture stays, and no pass follows.                                     *)
(***************************************************************************)
DrainEventsDumpFails ==
    /\ Disturbance
    /\ phase = "idle" /\ events
    /\ events' = FALSE
    /\ stale' = TRUE /\ failed' = TRUE /\ clean' = FALSE
    /\ UNCHANGED <<kernel, observed, desired, phase, full, pass, ops>>

(***************************************************************************)
(* A lease, an advertisement, a profile or an operator changes what is     *)
(* wanted.  From poll it leads to a bare reconcile or to a converge;       *)
(* between two passes of a converge the earlier steps of the next pass     *)
(* may do the same.                                                        *)
(***************************************************************************)
Want(d) ==
    /\ Disturbance
    /\ phase \in {"idle", "plan"}
    /\ desired' = d
    /\ phase' = "plan"
    /\ IF phase = "idle"
       THEN full' \in BOOLEAN /\ pass' = 1 /\ UNCHANGED clean
       ELSE clean' = FALSE /\ UNCHANGED <<full, pass>>
    /\ UNCHANGED <<kernel, observed, ops, events, stale, failed>>

MakePlan ==
    /\ phase = "plan"
    /\ ops' = Plan(observed, desired)
    /\ phase' = "apply"
    /\ failed' = stale
    /\ clean' = (observed = kernel /\ (pass > 1 => clean))
    /\ UNCHANGED <<kernel, observed, desired, full, pass, events, stale, budget>>

(***************************************************************************)
(* reconcile::apply: one request; a failure is logged, the benign ones are *)
(* not, and the rest of the plan carries on.                               *)
(***************************************************************************)
ApplyOp(op) ==
    /\ phase = "apply"
    /\ op \in NextOps
    /\ ops' = ops \ {op}
    /\ \/ /\ Outcome(kernel, op) = "ok"
          /\ kernel' \in Effects(kernel, op)
          /\ events' = (events \/ kernel' # kernel)
          /\ UNCHANGED failed
       \/ /\ Outcome(kernel, op) # "ok"
          /\ failed' = (failed \/ Outcome(kernel, op) = "error")
          /\ UNCHANGED <<kernel, events>>
    /\ UNCHANGED <<observed, desired, phase, full, pass, stale, clean, budget>>

FailOp(op) ==
    /\ Disturbance
    /\ phase = "apply"
    /\ op \in NextOps
    /\ ops' = ops \ {op}
    /\ failed' = TRUE /\ clean' = FALSE
    /\ UNCHANGED <<kernel, observed, desired, phase, full, pass, events, stale>>

(***************************************************************************)
(* The end of reconcile_all: dump again.  A converge plans once more while *)
(* the dump differs from the one before, MAX_PASSES times at most.         *)
(***************************************************************************)
RedumpOnce ==     \* mutant
    /\ phase = "apply" /\ ops = {}
    /\ observed' = kernel /\ stale' = FALSE
    /\ phase' = "idle" /\ pass' = 0
    /\ UNCHANGED <<kernel, desired, full, ops, events, failed, clean, budget>>

RedumpForEver ==     \* mutant: no break
    /\ phase = "apply" /\ ops = {}
    /\ observed' = kernel /\ stale' = FALSE
    /\ IF full THEN phase' = "plan" /\ UNCHANGED pass ELSE phase' = "idle" /\ pass' = 0
    /\ UNCHANGED <<kernel, desired, full, ops, events, failed, clean, budget>>

Redump ==
    /\ phase = "apply" /\ ops = {}
    /\ observed' = kernel /\ stale' = FALSE
    /\ IF full /\ kernel # observed /\ pass < MAX_PASSES
       THEN phase' = "plan" /\ pass' = pass + 1
       ELSE phase' = "idle" /\ pass' = 0
    /\ UNCHANGED <<kernel, desired, full, ops, events, failed, clean, budget>>

RedumpFails ==
    /\ Disturbance
    /\ phase = "apply" /\ ops = {}
    /\ stale' = TRUE /\ failed' = TRUE /\ clean' = FALSE
    /\ phase' = "idle" /\ pass' = 0
    /\ UNCHANGED <<kernel, observed, desired, full, ops, events>>

(***************************************************************************)
(* Everybody else who changes the kernel, at any moment; each change is    *)
(* notified.                                                               *)
(***************************************************************************)
Elsewhere ==
    /\ Disturbance
    /\ \/ /\ kernel.present
          /\ \/ kernel' \in {WithUp(kernel), WithDown(kernel)}
             \/ \E a \in ForeignAddresses : kernel' \in WithAddress(kernel, a)
             \/ \E a \in kernel.addresses : kernel' \in WithoutAddress(kernel, a)
             \/ kernel' = [kernel EXCEPT !.present = FALSE, !.up = FALSE, !.addresses = {},
                                         !.routes = {r \in @ : r.index # This}]
       \/ /\ ~kernel.present
          /\ \E m \in Mtus : kernel' = [kernel EXCEPT !.present = TRUE, !.mtu = m]
       \/ \E r \in ForeignRoutes : kernel' = [kernel EXCEPT !.routes = @ \cup {r}]
       \/ \E r \in kernel.routes : kernel' = [kernel EXCEPT !.routes = @ \ {r}]
    /\ events' = TRUE
    /\ clean' = FALSE
    /\ UNCHANGED <<observed, desired, phase, full, pass, ops, stale, failed>>

(***************************************************************************)
(* Duplicate address detection finishes.                                   *)
(***************************************************************************)
DadDone ==
    /\ \E a \in kernel.addresses :
          /\ a.tentative
          /\ kernel' = [kernel EXCEPT !.addresses = (@ \ {a}) \cup {Settled(a)}]
    /\ events' = TRUE
    /\ UNCHANGED <<observed, desired, phase, full, pass, ops, stale, failed, clean, budget>>

Netd ==
    \/ DrainEvents
    \/ MakePlan
    \/ \E op \in ops : ApplyOp(op)
    \/ Redump

Next ==
    \/ Netd
    \/ DrainEventsDumpFails
    \/ \E d \in Desireds \cup {None} : Want(d)
    \/ \E op \in ops : FailOp(op)
    \/ RedumpFails
    \/ Elsewhere
    \/ DadDone

Spec == Init /\ [][Next]_vars

(***************************************************************************)
(* The loop goes on: poll returns when notifications wait, and a pass once *)
(* begun is one thread running to its end (WF_vars(Netd); Busy is its      *)
(* ENABLED, written out).                                                  *)
(***************************************************************************)
Busy == phase # "idle" \/ events

FairSpec == Spec /\ ([]<>~Busy \/ []<><<Netd>>_vars)

-----------------------------------------------------------------------------
(***************************************************************************)
(* Properties.                                                             *)
(***************************************************************************)

\* Type invariant: the daemon's picture, its plan and its place in the loop.
TypeOK ==
    /\ kernel \in Snapshot
    /\ observed \in Snapshot
    /\ desired \in Desireds \cup {None}
    /\ phase \in {"idle", "plan", "apply"}
    /\ full \in BOOLEAN
    /\ pass \in 0..MAX_PASSES
    /\ ops \subseteq Op
    /\ events \in BOOLEAN /\ stale \in BOOLEAN /\ failed \in BOOLEAN /\ clean \in BOOLEAN
    /\ budget \in 0..MAX_DISTURBANCES

(***************************************************************************)
(* A desired state without contradictions: one set of flags and one prefix *)
(* for every IPv6 address, and none of them link-local.                    *)
(***************************************************************************)
Sound(d) ==
    d # None =>
        \A a, b \in d.addresses6 : a.ip \in V6 /\ (a.ip = b.ip => a = b)

(***************************************************************************)
(* Gateways the wanted addresses put on an attached subnet.  Route.Gateway *)
(* is not checked against them by the code.                                *)
(***************************************************************************)
Attached(d) ==
    d # None =>
        \A r \in WantRoutes(d) :
            d.up /\ (OnLink[r.gateway] = {} \/ \E w \in WantAddresses(d) : w.ip \in OnLink[r.gateway])

(***************************************************************************)
(* An IPv6 route that cannot land because somebody else's route to the     *)
(* same destination has the same metric.                                   *)
(***************************************************************************)
Blocked(k, op) ==
    /\ op.type = "AddRoute"
    /\ ~IsV4(op.route)
    /\ \E s \in k.routes : /\ ~Mine(s)
                           /\ s.destination = op.route.destination
                           /\ s.metric = op.route.metric

\* Ownership, at every moment of applying and whatever moved since the dump:
\* no pending request removes a route that is not netd's own on this
\* interface, or a link-local address (plan_routes, plan_addresses).
NothingForeignPlanned ==
    \A op \in ops :
        /\ op.type = "DelRoute" => Mine(op.route)
        /\ op.type = "DelAddress" => op.address.ip \notin LinkLocals

\* An address that is held and wanted is never taken away by a pass, not even
\* to change its flags, however stale the dump the plan was made from
\* (plan_addresses: "never a delete that would reset standing connections").
StandingAddressesKept ==
    [][ops' # ops /\ phase = "apply" /\ desired.up =>
          \A a \in kernel.addresses :
              WantedKey(desired, a) => \E b \in kernel'.addresses : SameKey(a, b)]_vars

\* Left alone, a converge works.  The order of the plan is one the kernel can
\* follow: no request is refused (routes need their addresses, addresses and
\* routes need the link, a replaced IPv6 route needs its predecessor gone),
\* except an IPv6 route that somebody else's keeps out.  And Netd::converge's
\* bound is enough: when it has ended nothing is left to plan.
FullPassSettles ==
    clean /\ Sound(desired) /\ Attached(desired) =>
        /\ phase = "apply" =>
              \A op \in NextOps :
                  Outcome(kernel, op) \in {"ok", "absent"} \/ Blocked(kernel, op)
        /\ phase = "idle" /\ full =>
              \A op \in Plan(observed, desired) : Blocked(observed, op)

\* Asleep in poll with no notification waiting, the interface is as desired,
\* unless the log says that something failed: no interleaving of foreign
\* changes, stale dumps and half-applied plans is slept through.
IdleMeansConverged ==
    phase = "idle" /\ ~events /\ ~failed /\ Sound(desired) =>
        \A op \in Plan(kernel, desired) : Blocked(kernel, op)

\* Once the others leave the interface alone, netd goes back to sleep: its own
\* notifications do not keep it busy for ever.
Quiesces == <>[](phase = "idle" /\ ~events)

=============================================================================
