---------------------------- MODULE DaemonProofs ----------------------------
(***************************************************************************)
(* Proofs about the daemon's loop around an interface, for every set of    *)
(* LANs, leases, policies, labels and bounds that satisfies the            *)
(* assumptions of Daemon: sockets that fail or not, a netd that dies at    *)
(* any moment, a kernel and operators that move at any moment.             *)
(***************************************************************************)
EXTENDS Daemon, TLAPS

-----------------------------------------------------------------------------
(***************************************************************************)
(* The inductive invariant.  First the types.                              *)
(***************************************************************************)
Registry == [label : [Networks -> Labels], requested_address : [Networks -> Leasable \cup {None}],
             network : Networks \cup {None}, last_network : Networks \cup {None}]

TypeOK ==
    /\ kernel \in Kernel /\ observed \in Kernel
    /\ lan \in Lans \cup {None}
    /\ registry \in Registry
    /\ iface \in Interface \cup {None}
    /\ written \in Policies /\ config \in Policies
    /\ policy \in Policy
    /\ watch \in BOOLEAN /\ events \in BOOLEAN /\ full \in BOOLEAN
    /\ converge \in BOOLEAN /\ reconcile \in BOOLEAN
    /\ stage \in 0 .. 8 /\ pc \in {"loop", "pass", "dump"}

(***************************************************************************)
(* Of an interface: HeldIsTheClients, ClientsBelong (a network, too, is    *)
(* only identified where there is carrier), its Status record, and that    *)
(* what it knows came from the LAN the cable is in.                        *)
(***************************************************************************)
Held(i) ==
    /\ IF i.dhcp = None
       THEN i.lease = None
       ELSE \/ i.lease = i.dhcp.lease
            \/ i.dhcp.phase = "acquiring" /\ managed(i) /\ profile(i).keep
    /\ i.restart # None =>
          /\ i.dhcp # None /\ i.dhcp.phase = "rebooting"
          /\ i.restart.address = i.dhcp.previous
          /\ i.lease = None

Belongs(i) ==
    /\ i.dhcp # None => managed(i) /\ profile(i).dhcp4 /\ Carrier(i.link)
    /\ i.ndp # None => managed(i) /\ profile(i).autoconf6 /\ Carrier(i.link)
    /\ i.dhcp6 # None => i.ndp # None /\ i.ndp.dhcp6_wanted
    /\ i.link_local => i.dhcp # None /\ i.dhcp.phase = "acquiring"
    /\ i.network # None => Carrier(i.link)

NetId(i) == IF i.network = None THEN None ELSE i.network.id

Recorded(i, r) ==
    /\ r.network = NetId(i)
    /\ i.network # None => r.last_network = i.network.id

Here(i) ==
    /\ i.lease # None => i.lease.network \in IdentitiesOf(lan)
    /\ i.ndp # None => i.ndp.router \in IdentitiesOf(lan) \cup {None}
    /\ i.network # None => i.network.id \in IdentitiesOf(lan)

(***************************************************************************)
(* Of the loop: what handlers asked for is pending only while the          *)
(* iteration lasts; a verdict asked for is made by the full pass.          *)
(***************************************************************************)
Rejudging == iface # None /\ iface.rejudge

LoopOK ==
    /\ pc # "loop" \/ stage = 0 => ~converge /\ ~reconcile
    /\ Rejudging => (pc = "loop" /\ stage > 0) \/ (pc = "pass" /\ full)

\* Of the kernel: the last dump is current unless a notification waits.
KernelOK ==
    /\ kernel.carrier => lan # None
    /\ ~kernel.up => kernel.routes = {}
    /\ ~events => observed = kernel

(***************************************************************************)
(* What holds unless someone is on the way to restore it: a notification   *)
(* that waits, a handler's request, a pass.  The entry follows the dump;   *)
(* the kernel carries what is desired, and the leased address even while   *)
(* no more than a bare reconcile is due.                                   *)
(***************************************************************************)
LinkSynced ==
    \/ events \/ (pc = "loop" /\ converge) \/ (pc = "pass" /\ full)
    \/ iface = None /\ ~observed.present
    \/ iface # None /\ observed.present /\ iface.link = LinkOf(observed)

Matches(k, d) == k.up = d.up /\ k.addresses = d.addresses /\ k.routes = d.routes

KernelMatches ==
    /\ ~events /\ iface # None /\ desired(iface) # None
    /\ pc = "dump" \/ (pc = "loop" /\ ~converge /\ ~reconcile /\ ~Rejudging)
    => Matches(kernel, desired(iface))

LeaseCarried ==
    /\ ~events /\ iface # None /\ iface.lease # None /\ ~Rejudging
    /\ pc = "dump" \/ (pc = "loop" /\ ~converge) \/ (pc = "pass" /\ ~full)
    => iface.lease.address \in kernel.addresses

(***************************************************************************)
(* No decision is left unmade: the network is identified and recorded, the *)
(* verdict is the policy's, and discovery runs only beside a link-local    *)
(* address that is ready.  It holds unless a full pass is due, with one    *)
(* exception: a lease just lost leaves the network to be identified anew   *)
(* from the routers while only a bare reconcile is due.  Its address still *)
(* stands in the kernel then, so that the reconcile changes the kernel,    *)
(* and the notification of that brings the full pass.                      *)
(***************************************************************************)
Settled(i, r, o, p) ==
    /\ Identifiable(i) =>
          /\ i.network = [id |-> identity(i), label |-> r.label[identity(i)],
                          requested_address |-> r.requested_address[identity(i)]]
          /\ i.lease # None => r.requested_address[i.lease.network] = i.lease.address
    /\ judge(p, facts(i)) = i.judgment
    /\ i.ndp # None => o.link_local = "ready"

Stray == iface.dhcp # None /\ iface.lease = None /\ iface.restart = None
         /\ kernel.addresses \cap Leasable # {}

Decided ==
    ~events /\ ~watch /\ iface # None /\ ~Rejudging =>
        /\ pc = "dump" => Settled(iface, registry, observed, policy)
        /\ pc = "loop" /\ ~converge => Settled(iface, registry, observed, policy) \/ (reconcile /\ Stray)
        /\ pc = "pass" /\ ~full => Settled(iface, registry, observed, policy) \/ Stray

\* What was published holds unless a pass, which ends in a publish, is due.
Published ==
    pc = "loop" /\ ~converge /\ ~reconcile /\ ~Rejudging => published = snapshot(iface, observed)

IfaceOK ==
    iface # None => /\ Held(iface) /\ Belongs(iface) /\ Recorded(iface, registry)
                    /\ lan # None => Here(iface)

IInv == IfaceOK /\ LoopOK /\ KernelOK /\ LinkSynced /\ KernelMatches /\ LeaseCarried /\ Decided /\ Published

-----------------------------------------------------------------------------
\* An interface as every step finds and leaves it.
Good(i) == i \in Interface /\ Held(i) /\ Belongs(i)

\* The record of a network identity.
RecordOf(id, r) == [id |-> id, label |-> r.label[id], requested_address |-> r.requested_address[id]]

\* The record attached to an interface is that of the network it identifies.
Attached(i, r) == Identifiable(i) => i.network = RecordOf(identity(i), r)

\* Two interfaces, or states of one, agree on some fields.
Same(i, j, fields) == \A f \in fields : j[f] = i[f]

-----------------------------------------------------------------------------
(***************************************************************************)
(* None is apart from whatever a field of the interface may hold.          *)
(***************************************************************************)
LEMMA NoneApart ==
    /\ None \notin Networks /\ None \notin Labels /\ None \notin Leasable /\ None \notin Lease
    /\ None \notin Client /\ None \notin Engine /\ None \notin Record /\ None \notin Restart
    /\ None \notin Interface /\ None \notin Lans
  BY DaemonAssumption

(***************************************************************************)
(* stop_dhcp takes the client, the lease, what was adopted and the         *)
(* fallback address, and nothing else the properties tell apart.           *)
(***************************************************************************)
LEMMA StopDhcp ==
    ASSUME NEW i \in Interface
    PROVE  /\ stop_dhcp(i) \in Interface
           /\ stop_dhcp(i).dhcp = None /\ stop_dhcp(i).lease = None
           /\ stop_dhcp(i).restart = None /\ stop_dhcp(i).link_local = FALSE
           /\ Same(i, stop_dhcp(i), {"link", "judgment", "network", "rejudge", "ndp", "dhcp6"})
  BY Zenon DEF stop_dhcp, Interface, Same

(***************************************************************************)
(* stop_ipv6 takes router discovery and DHCPv6 with it, and nothing else.  *)
(***************************************************************************)
LEMMA StopIpv6 ==
    ASSUME NEW i \in Interface
    PROVE  /\ stop_ipv6(i) \in Interface
           /\ stop_ipv6(i).ndp = None /\ stop_ipv6(i).dhcp6 = None
           /\ Same(i, stop_ipv6(i), {"link", "judgment", "network", "rejudge", "dhcp", "lease",
                                     "restart", "link_local"})
  BY Zenon DEF stop_ipv6, Interface, Same

(***************************************************************************)
(* What sync_links leaves of an interface whose clients it stops.          *)
(***************************************************************************)
LEMMA StopBoth ==
    ASSUME NEW i \in Interface
    PROVE  LET j == stop_ipv6(stop_dhcp(i))
           IN  /\ j \in Interface
               /\ j.dhcp = None /\ j.lease = None /\ j.restart = None /\ j.link_local = FALSE
               /\ j.ndp = None /\ j.dhcp6 = None
               /\ Same(i, j, {"link", "judgment", "network", "rejudge"})
<1> DEFINE k == stop_dhcp(i)
           j == stop_ipv6(k)
<1>1. /\ k \in Interface
      /\ k.dhcp = None /\ k.lease = None /\ k.restart = None /\ k.link_local = FALSE
      /\ Same(i, k, {"link", "judgment", "network", "rejudge"})
  BY StopDhcp, Zenon DEF Same
<1> HIDE DEF k
<1>2. /\ j \in Interface /\ j.ndp = None /\ j.dhcp6 = None
      /\ Same(k, j, {"link", "judgment", "network", "rejudge", "dhcp", "lease", "restart", "link_local"})
  BY <1>1, StopIpv6
<1> HIDE DEF j
<1>3. Same(i, j, {"link", "judgment", "network", "rejudge"})
  BY <1>1, <1>2 DEF Same
<1>4. j.dhcp = None /\ j.lease = None /\ j.restart = None /\ j.link_local = FALSE
  BY <1>1, <1>2 DEF Same
<1> QED
  BY <1>2, <1>3, <1>4 DEF k, j

(***************************************************************************)
(* policy.judge yields a judgment whatever the label.                      *)
(***************************************************************************)
LEMMA JudgeType ==
    ASSUME NEW p \in Policy, NEW label \in Labels \cup {None}
    PROVE  judge(p, label) \in Judgment
  BY DEF judge, Policy, Judgment, Outcome

(***************************************************************************)
(* The identity of a lease or a router is one of the networks.             *)
(***************************************************************************)
LEMMA IdentityType ==
    ASSUME NEW i \in Interface
    PROVE  identity(i) \in Networks \cup {None}
<1>1. i.lease # None => i.lease.network \in Networks
  BY DEF Interface, Lease, Networks
<1>2. i.ndp # None => i.ndp.router \in Networks \cup {None}
  BY DEF Interface, Engine, Networks
<1> QED
  BY <1>1, <1>2 DEF identity

(***************************************************************************)
(* A network record read from the registry is one.                         *)
(***************************************************************************)
LEMMA RecordType ==
    ASSUME NEW id \in Networks, NEW r \in Registry
    PROVE  RecordOf(id, r) \in Record
  BY DEF RecordOf, Record, Registry

(***************************************************************************)
(* The facts of an interface are those of its label.                       *)
(***************************************************************************)
LEMMA FactsType ==
    ASSUME NEW i \in Interface
    PROVE  facts(i) \in Labels \cup {None}
  BY DEF facts, Interface, Record

(***************************************************************************)
(* identify_networks keeps what the clients hold, and attaches the record  *)
(* of the network they identify, if any.                                   *)
(***************************************************************************)
LEMMA IdentifyOK ==
    ASSUME NEW i, Good(i), NEW r \in Registry
    PROVE  LET j == identify(i, r)
           IN  /\ Good(j) /\ Attached(j, r)
               /\ Same(i, j, {"link", "judgment", "lease", "ndp", "dhcp"})
               /\ Identifiable(i) => j.network # None /\ j.network.id = identity(i)
               /\ ~Identifiable(i) => j.network = i.network
<1> DEFINE j == identify(i, r)
<1>1. i \in Interface
  BY DEF Good
<1>2. CASE ~Identifiable(i)
  <2>1. j = i
    BY <1>2 DEF identify
  <2> QED
    BY <2>1, <1>2 DEF Attached, Same, Good
<1>3. CASE Identifiable(i)
  <2> DEFINE id == identity(i)
  <2>1. id \in Networks
    BY <1>1, <1>3, IdentityType DEF Identifiable
  <2>2. j = [i EXCEPT !.network = RecordOf(id, r), !.rejudge = @ \/ i.network = None \/ i.network.id # id]
    BY <1>3 DEF identify, RecordOf
  <2>3. RecordOf(id, r) \in Record /\ RecordOf(id, r).id = id
    BY <2>1, RecordType DEF RecordOf
  <2> HIDE DEF id
  <2> DEFINE b == i.rejudge \/ i.network = None \/ i.network.id # id
  <2>4. b \in BOOLEAN
    BY <1>1 DEF Interface
  <2>5. j = [i EXCEPT !.network = RecordOf(id, r), !.rejudge = b]
    BY <2>2, <1>1 DEF Interface
  <2> HIDE DEF b
  <2> HIDE DEF j
  <2>6. /\ j \in Interface
        /\ j.network = RecordOf(id, r)
        /\ Same(i, j, {"link", "judgment", "lease", "ndp", "dhcp", "dhcp6", "restart", "link_local"})
    BY <1>1, <2>3, <2>4, <2>5, Zenon DEF Interface, Same
  <2>7. managed(j) = managed(i) /\ profile(j) = profile(i) /\ identity(j) = identity(i)
    BY <2>6 DEF managed, profile, identity, Same
  <2>8. Held(j)
    BY <2>6, <2>7 DEF Good, Held, Same
  <2>9. Belongs(j)
    BY <1>3, <2>6, <2>7 DEF Good, Belongs, Same, Identifiable
  <2>10. Attached(j, r)
    BY <2>6, <2>7 DEF Attached, id
  <2> QED
    BY <2>3, <2>6, <2>8, <2>9, <2>10, <1>3, NoneApart DEF Good, Same, id, j
<1> QED
  BY <1>2, <1>3

(***************************************************************************)
(* An interface just seen holds nothing.                                   *)
(***************************************************************************)
LEMMA NewInterfaceOK ==
    ASSUME NEW o \in Kernel, NEW r
    PROVE  LET j == NewInterface(LinkOf(o))
           IN  /\ Good(j) /\ Attached(j, r) /\ Here(j)
               /\ j.link = LinkOf(o) /\ j.rejudge = FALSE /\ j.lease = None
<1> DEFINE j == NewInterface(LinkOf(o))
<1>1. LinkOf(o) \in Link
  BY DEF LinkOf, Link, Kernel
<1>2. [outcome |-> Ignore, conflict |-> FALSE] \in Judgment
  BY DEF Judgment, Outcome
<1>3. /\ j \in Interface
      /\ j.link = LinkOf(o) /\ j.rejudge = FALSE /\ j.lease = None /\ j.dhcp = None
      /\ j.restart = None /\ j.ndp = None /\ j.dhcp6 = None /\ j.link_local = FALSE
      /\ j.network = None
  BY <1>1, <1>2 DEF NewInterface, Interface
<1> HIDE DEF j
<1>4. Held(j) /\ Belongs(j) /\ Here(j)
  BY <1>3 DEF Held, Belongs, Here
<1>5. Attached(j, r)
  BY <1>3 DEF Attached, Identifiable, identity
<1> QED
  BY <1>3, <1>4, <1>5 DEF Good, j

(***************************************************************************)
(* The first half of sync_links: the entry follows the dump, a lost        *)
(* carrier takes the clients and the network, and no lease appears.        *)
(***************************************************************************)
LEMMA CarrierSyncedOK ==
    ASSUME NEW i, NEW r, NEW o \in Kernel,
           i # None => Good(i) /\ Attached(i, r)
    PROVE  LET j == CarrierSynced(i, o)
           IN  /\ Good(j) /\ Attached(j, r)
               /\ (i # None => Here(i)) => Here(j)
               /\ j.link = LinkOf(o) /\ j.rejudge = FALSE
               /\ j.lease # None => i # None /\ j.lease = i.lease
<1> DEFINE j == CarrierSynced(i, o)
<1>1. CASE i = None \/ i.link.index # o.index
  <2> DEFINE n == NewInterface(LinkOf(o))
  <2>1. n \in Interface /\ n.link = LinkOf(o) /\ n.rejudge = FALSE
    BY NewInterfaceOK, Zenon DEF Good
  <2>2. j = IF Carrier(n.link) /\ ~Carrier([n EXCEPT !.link = LinkOf(o), !.rejudge = FALSE].link)
            THEN [stop_ipv6(stop_dhcp([n EXCEPT !.link = LinkOf(o), !.rejudge = FALSE])) EXCEPT !.network = None]
            ELSE [n EXCEPT !.link = LinkOf(o), !.rejudge = FALSE]
    BY <1>1, Zenon DEF CarrierSynced
  <2> HIDE DEF n
  <2>3. [n EXCEPT !.link = LinkOf(o), !.rejudge = FALSE] = n
    BY <2>1, Zenon DEF Interface
  <2>4. j = n
    BY <2>1, <2>2, <2>3
  <2> QED
    BY <2>4, NewInterfaceOK, Zenon DEF n
<1>2. CASE i # None /\ i.link.index = o.index
  <2> DEFINE new == [i EXCEPT !.link = LinkOf(o), !.rejudge = FALSE]
  <2>1. i \in Interface /\ Held(i) /\ Belongs(i) /\ Attached(i, r)
    BY <1>2 DEF Good
  <2>2. j = IF Carrier(i.link) /\ ~Carrier(new.link)
            THEN [stop_ipv6(stop_dhcp(new)) EXCEPT !.network = None]
            ELSE new
    BY <1>2 DEF CarrierSynced
  <2>3. LinkOf(o) \in Link
    BY DEF LinkOf, Link, Kernel
  <2>4. /\ new \in Interface /\ new.link = LinkOf(o) /\ new.rejudge = FALSE
        /\ Same(i, new, {"judgment", "network", "dhcp", "lease", "restart", "link_local", "ndp", "dhcp6"})
    BY <2>1, <2>3, Zenon DEF Interface, Same
  <2> HIDE DEF new
  <2>5. CASE Carrier(i.link) /\ ~Carrier(new.link)
    <3> DEFINE k == stop_ipv6(stop_dhcp(new))
    <3>1. /\ k \in Interface
          /\ k.dhcp = None /\ k.lease = None /\ k.restart = None /\ k.link_local = FALSE
          /\ k.ndp = None /\ k.dhcp6 = None
          /\ Same(new, k, {"link", "judgment", "network", "rejudge"})
      BY <2>4, StopBoth, Zenon
    <3>2. j = [k EXCEPT !.network = None]
      BY <2>2, <2>5
    <3> HIDE DEF k, j
    <3>3. /\ j \in Interface
          /\ j.dhcp = None /\ j.lease = None /\ j.restart = None /\ j.link_local = FALSE
          /\ j.ndp = None /\ j.dhcp6 = None /\ j.network = None
          /\ Same(k, j, {"link", "rejudge"})
      BY <3>1, <3>2 DEF Interface, Same
    <3>4. Held(j) /\ Belongs(j) /\ Here(j)
      BY <3>3 DEF Held, Belongs, Here
    <3>5. Attached(j, r)
      BY <3>3 DEF Attached, Identifiable, identity
    <3>6. j.link = LinkOf(o) /\ j.rejudge = FALSE
      BY <2>4, <3>1, <3>3 DEF Same
    <3> QED
      BY <3>3, <3>4, <3>5, <3>6 DEF Good, j
  <2>6. CASE ~(Carrier(i.link) /\ ~Carrier(new.link))
    <3>1. j = new
      BY <2>2, <2>6
    <3>2. managed(new) = managed(i) /\ profile(new) = profile(i) /\ identity(new) = identity(i)
      BY <2>4 DEF managed, profile, identity, Same
    <3>3. Held(new)
      BY <2>1, <2>4, <3>2 DEF Held, Same
    <3>4. Belongs(new)
      BY <2>1, <2>4, <2>6, <3>2 DEF Belongs, Same
    <3>5. Here(i) => Here(new)
      BY <2>4 DEF Here, Same
    <3>6. Attached(new, r)
      <4>1. CASE Carrier(i.link)
        BY <2>1, <2>4, <3>2, <4>1 DEF Attached, Identifiable, Same
      <4>2. CASE ~Carrier(i.link)
        <5>1. i.dhcp = None /\ i.ndp = None
          BY <2>1, <4>2 DEF Belongs
        <5>2. identity(i) = None
          BY <2>1, <5>1 DEF Held, identity
        <5> QED
          BY <3>2, <5>2 DEF Attached, Identifiable
      <4> QED
        BY <4>1, <4>2
    <3> QED
      BY <1>2, <2>4, <3>1, <3>3, <3>4, <3>5, <3>6 DEF Good, Same
  <2> QED
    BY <2>5, <2>6, Zenon
<1> QED
  BY <1>1, <1>2, Zenon

(***************************************************************************)
(* The second half of sync_links: the judgment is the policy's for the     *)
(* facts as they stand, and another outcome stops the clients.             *)
(***************************************************************************)
LEMMA JudgedOK ==
    ASSUME NEW i, NEW r, NEW p \in Policy, Good(i), Attached(i, r), i.rejudge = FALSE
    PROVE  LET j == Judged(i, p)
           IN  /\ Good(j) /\ Attached(j, r)
               /\ Here(i) => Here(j)
               /\ j.link = i.link /\ j.rejudge = FALSE
               /\ j.network = i.network
               /\ j.judgment = judge(p, facts(j))
               /\ j.lease # None => j.lease = i.lease
<1> DEFINE new == judge(p, facts(i))
           k == IF new.outcome # i.judgment.outcome THEN stop_ipv6(stop_dhcp(i)) ELSE i
           j == Judged(i, p)
<1>1. i \in Interface /\ Held(i) /\ Belongs(i) /\ Attached(i, r)
  BY DEF Good
<1>2. j = [k EXCEPT !.judgment = new]
  BY DEF Judged
<1>3. new \in Judgment
  BY <1>1, JudgeType, FactsType
<1>4. k \in Interface /\ Same(i, k, {"link", "network", "rejudge"})
  BY <1>1, StopBoth, Zenon DEF Same
<1>5. new.outcome # i.judgment.outcome =>
         /\ k.dhcp = None /\ k.lease = None /\ k.restart = None /\ k.link_local = FALSE
         /\ k.ndp = None /\ k.dhcp6 = None
  BY <1>1, StopBoth, Zenon
<1>6. new.outcome = i.judgment.outcome => k = i
  OBVIOUS
<1> HIDE DEF k, j, new
<1>7. /\ j \in Interface /\ j.judgment = new
      /\ Same(k, j, {"link", "network", "rejudge", "dhcp", "lease", "restart", "link_local", "ndp", "dhcp6"})
  BY <1>2, <1>3, <1>4 DEF Interface, Same
<1>8. facts(j) = facts(i) /\ j.network = i.network /\ j.link = i.link /\ j.rejudge = FALSE
  BY <1>4, <1>7 DEF facts, Same
<1>9. CASE new.outcome # i.judgment.outcome
  <2>1. Held(j) /\ Belongs(j)
    BY <1>1, <1>5, <1>7, <1>8, <1>9 DEF Held, Belongs, Same
  <2>2. Here(i) => Here(j)
    BY <1>5, <1>7, <1>8, <1>9 DEF Here, Same
  <2>3. Attached(j, r)
    BY <1>5, <1>7, <1>9 DEF Attached, Identifiable, identity, Same
  <2>4. j.lease = None
    BY <1>5, <1>7, <1>9 DEF Same
  <2> QED
    BY <1>7, <1>8, <2>1, <2>2, <2>3, <2>4 DEF Good, j, new
<1>10. CASE new.outcome = i.judgment.outcome
  <2>1. Same(i, j, {"link", "network", "rejudge", "dhcp", "lease", "restart", "link_local", "ndp", "dhcp6"})
    BY <1>6, <1>7, <1>10
  <2>2. managed(j) = managed(i) /\ profile(j) = profile(i) /\ identity(j) = identity(i)
    BY <1>7, <1>10, <2>1 DEF managed, profile, identity, Same
  <2>3. Held(j)
    BY <1>1, <2>1, <2>2 DEF Held, Same
  <2>4. Belongs(j)
    BY <1>1, <2>1, <2>2 DEF Belongs, Same
  <2>5. Here(i) => Here(j)
    BY <2>1 DEF Here, Same
  <2>6. Attached(j, r)
    BY <1>1, <2>1, <2>2 DEF Attached, Identifiable, Same
  <2>7. j.lease = i.lease
    BY <2>1 DEF Same
  <2> QED
    BY <1>7, <1>8, <2>3, <2>4, <2>5, <2>6, <2>7 DEF Good, j, new
<1> QED
  BY <1>9, <1>10, Zenon

(***************************************************************************)
(* The address an INIT-REBOOT asks for was leased once.                    *)
(***************************************************************************)
LEMMA PreviousType ==
    ASSUME NEW i \in Interface, NEW r \in Registry
    PROVE  previous(i, r) \in Leasable \cup {None}
<1>1. i.network # None => i.network.requested_address \in Leasable \cup {None}
  BY DEF Interface, Record
<1>2. r.last_network # None => r.requested_address[r.last_network] \in Leasable \cup {None}
  BY DEF Registry
<1> QED
  BY <1>1, <1>2 DEF previous

(***************************************************************************)
(* restart.capture adopts the address asked for or nothing.                *)
(***************************************************************************)
LEMMA CaptureType ==
    ASSUME NEW o \in Kernel, NEW a \in Leasable \cup {None}
    PROVE  /\ capture(o, a) \in Restart \cup {None}
           /\ capture(o, a) # None => a # None /\ capture(o, a).address = a
  BY DEF capture, Restart, Kernel, Route, Networks

\* The interface as start_dhcp leaves it, with a client c and what k it adopted.
Started(i, c, k) == [i EXCEPT !.dhcp = c, !.lease = None, !.restart = k, !.first_dhcp_start = FALSE]

(***************************************************************************)
(* What a started client changes in the interface.                         *)
(***************************************************************************)
LEMMA StartedType ==
    ASSUME NEW i \in Interface, NEW c \in Client, NEW k \in Restart \cup {None}
    PROVE  LET j == Started(i, c, k)
           IN  /\ j \in Interface /\ j.dhcp = c /\ j.lease = None /\ j.restart = k
               /\ Same(i, j, {"link", "judgment", "network", "rejudge", "ndp", "dhcp6", "link_local"})
  BY Zenon DEF Started, Interface, Same

(***************************************************************************)
(* start_dhcp_where_due never takes a lease: the client it would stop is   *)
(* not there (Belongs), and one it starts replaces none.                   *)
(***************************************************************************)
LEMMA StartDhcpOK ==
    ASSUME NEW i, NEW o \in Kernel, NEW r \in Registry, NEW opens, NEW q, Good(i), Attached(i, q)
    PROVE  LET j == start_dhcp_where_due(i, o, r, opens)
           IN  /\ Good(j) /\ Attached(j, q)
               /\ Here(i) => Here(j)
               /\ Same(i, j, {"link", "judgment", "network", "rejudge", "ndp", "lease"})
<1> DEFINE j == start_dhcp_where_due(i, o, r, opens)
<1>1. i \in Interface /\ Held(i) /\ Belongs(i) /\ Attached(i, q) /\ i # None
  BY NoneApart DEF Good
<1>2. ~managed(i) \/ ~(profile(i).dhcp4 /\ Carrier(i.link)) => i.dhcp = None
  BY <1>1 DEF Belongs
<1>3. CASE j = i
  BY <1>1, <1>3 DEF Good, Same
<1>4. CASE /\ managed(i) /\ profile(i).dhcp4 /\ Carrier(i.link)
           /\ i.dhcp = None /\ "dhcp" \in opens
  <2> DEFINE a == previous(i, r)
             c == [phase |-> IF a = None THEN "acquiring" ELSE "rebooting",
                   lease |-> None, previous |-> a, reported |-> FALSE]
             k == IF i.first_dhcp_start THEN capture(o, a) ELSE None
  <2>1. j = Started(i, c, k)
    BY <1>1, <1>4 DEF start_dhcp_where_due, StartedDhcp, Started
  <2>2. a \in Leasable \cup {None}
    BY <1>1, PreviousType
  <2> HIDE DEF a
  <2>3. c \in Client
    BY <2>2 DEF Client
  <2>31. c # None /\ c.lease = None /\ c.previous = a /\ (a # None => c.phase = "rebooting")
    BY <2>3, NoneApart, Zenon
  <2>4. k \in Restart \cup {None} /\ (k # None => a # None /\ k.address = a)
    BY <2>2, CaptureType
  <2> HIDE DEF c, k, j
  <2>5. /\ j \in Interface /\ j.dhcp = c /\ j.lease = None /\ j.restart = k
        /\ Same(i, j, {"link", "judgment", "network", "rejudge", "ndp", "dhcp6", "link_local"})
    BY <1>1, <2>1, <2>3, <2>4, StartedType
  <2>6. i.lease = None /\ ~i.link_local
    BY <1>1, <1>4 DEF Held, Belongs, Interface
  <2>7. managed(j) = managed(i) /\ profile(j) = profile(i) /\ identity(j) = identity(i)
    BY <2>5, <2>6 DEF managed, profile, identity, Same
  <2>8. Held(j)
    BY <2>31, <2>4, <2>5 DEF Held
  <2>9. Belongs(j)
    BY <1>1, <1>4, <2>5, <2>6, <2>7 DEF Belongs, Same
  <2>10. Here(i) => Here(j)
    BY <2>5 DEF Here, Same
  <2>11. Attached(j, q)
    BY <1>1, <2>5, <2>7 DEF Attached, Identifiable, Same
  <2> QED
    BY <2>5, <2>6, <2>8, <2>9, <2>10, <2>11 DEF Good, j, Same
<1> QED
  BY <1>1, <1>2, <1>3, <1>4 DEF start_dhcp_where_due

(***************************************************************************)
(* Router discovery runs after start_ipv6_where_due only where the         *)
(* link-local address is ready.                                            *)
(***************************************************************************)
LEMMA NdpOK ==
    ASSUME NEW i, NEW o, NEW opens, NEW q, Good(i), Attached(i, q), managed(i)
    PROVE  LET j == NdpWhereDue(i, o, opens)
           IN  /\ Good(j) /\ Attached(j, q)
               /\ Here(i) => Here(j)
               /\ Same(i, j, {"link", "judgment", "network", "rejudge", "lease"})
               /\ j.ndp # None => o.link_local = "ready"
<1> DEFINE j == NdpWhereDue(i, o, opens)
           due == profile(i).autoconf6 /\ Carrier(i.link) /\ o.link_local = "ready"
<1>1. i \in Interface /\ Held(i) /\ Belongs(i) /\ Attached(i, q)
  BY DEF Good
<1>2. CASE j = i /\ (i.ndp # None => o.link_local = "ready")
  BY <1>1, <1>2 DEF Good, Same
<1>3. CASE ~due /\ i.ndp # None
  <2>1. j = stop_ipv6(i)
    BY <1>3 DEF NdpWhereDue
  <2>2. /\ j \in Interface /\ j.ndp = None /\ j.dhcp6 = None
        /\ Same(i, j, {"link", "judgment", "network", "rejudge", "dhcp", "lease", "restart", "link_local"})
    BY <1>1, <2>1, StopIpv6
  <2> HIDE DEF j
  <2>3. managed(j) = managed(i) /\ profile(j) = profile(i)
    BY <2>2 DEF managed, profile, Same
  <2>4. Held(j) /\ Belongs(j)
    BY <1>1, <2>2, <2>3 DEF Held, Belongs, Same
  <2>5. Here(i) => Here(j)
    BY <2>2 DEF Here, Same
  <2>6. Attached(j, q)
    BY <1>1, <2>2, <2>3 DEF Attached, Identifiable, identity, Same
  <2> QED
    BY <2>2, <2>4, <2>5, <2>6 DEF Good, j, Same
<1>4. CASE due /\ i.ndp = None /\ "ndp" \in opens
  <2> DEFINE e == [router |-> None, dhcp6_wanted |-> FALSE]
  <2>1. j = [i EXCEPT !.ndp = e]
    BY <1>4 DEF NdpWhereDue
  <2>2. e \in Engine /\ e.router = None
    BY DEF Engine
  <2> HIDE DEF e, j
  <2>3. /\ j \in Interface /\ j.ndp = e
        /\ Same(i, j, {"link", "judgment", "network", "rejudge", "dhcp", "lease", "restart", "link_local", "dhcp6"})
    BY <1>1, <2>1, <2>2 DEF Interface, Same
  <2>4. managed(j) = managed(i) /\ profile(j) = profile(i)
    BY <2>3 DEF managed, profile, Same
  <2>5. Held(j)
    BY <1>1, <2>3, <2>4 DEF Held, Same
  <2>6. i.dhcp6 = None
    BY <1>1, <1>4 DEF Belongs
  <2>7. Belongs(j)
    BY <1>1, <1>4, <2>3, <2>4, <2>6 DEF Belongs, Same
  <2>8. Here(i) => Here(j)
    BY <2>2, <2>3 DEF Here, Same
  <2>9. identity(j) = identity(i)
    BY <1>4, <2>2, <2>3 DEF identity, Same
  <2>10. Attached(j, q)
    BY <1>1, <2>3, <2>4, <2>9 DEF Attached, Identifiable, Same
  <2> QED
    BY <1>4, <2>3, <2>5, <2>7, <2>8, <2>10 DEF Good, j, Same
<1> QED
  BY <1>2, <1>3, <1>4 DEF NdpWhereDue

(***************************************************************************)
(* DHCPv6 runs after start_ipv6_where_due only beside a router that asked  *)
(* for it.                                                                 *)
(***************************************************************************)
LEMMA Dhcp6OK ==
    ASSUME NEW i, NEW o, NEW opens, NEW q, Good(i), Attached(i, q)
    PROVE  LET j == Dhcp6WhereDue(i, o, opens)
           IN  /\ Good(j) /\ Attached(j, q)
               /\ Here(i) => Here(j)
               /\ Same(i, j, {"link", "judgment", "network", "rejudge", "lease", "ndp"})
<1> DEFINE j == Dhcp6WhereDue(i, o, opens)
<1>1. i \in Interface /\ Held(i) /\ Belongs(i) /\ Attached(i, q)
  BY DEF Good
<1>2. CASE j = i
  BY <1>1, <1>2 DEF Good, Same
<1>3. ASSUME NEW d \in {None, "asking"}, j = [i EXCEPT !.dhcp6 = d],
             d # None => i.ndp # None /\ i.ndp.dhcp6_wanted
      PROVE  /\ Good(j) /\ Attached(j, q)
             /\ Here(i) => Here(j)
             /\ Same(i, j, {"link", "judgment", "network", "rejudge", "lease", "ndp"})
  <2> HIDE DEF j
  <2>1. /\ j \in Interface /\ j.dhcp6 = d
        /\ Same(i, j, {"link", "judgment", "network", "rejudge", "dhcp", "lease", "restart", "link_local", "ndp"})
    BY <1>1, <1>3 DEF Interface, Same
  <2>2. managed(j) = managed(i) /\ profile(j) = profile(i) /\ identity(j) = identity(i)
    BY <2>1 DEF managed, profile, identity, Same
  <2>3. Held(j)
    BY <1>1, <2>1, <2>2 DEF Held, Same
  <2>4. Belongs(j)
    BY <1>1, <1>3, <2>1, <2>2 DEF Belongs, Same
  <2>5. Here(i) => Here(j)
    BY <2>1 DEF Here, Same
  <2>6. Attached(j, q)
    BY <1>1, <2>1, <2>2 DEF Attached, Identifiable, Same
  <2> QED
    BY <2>1, <2>3, <2>4, <2>5, <2>6 DEF Good, Same
<1> QED
  BY <1>2, <1>3 DEF Dhcp6WhereDue

(***************************************************************************)
(* start_ipv6_where_due as a whole.                                        *)
(***************************************************************************)
LEMMA StartIpv6OK ==
    ASSUME NEW i, NEW o, NEW opens, NEW q, Good(i), Attached(i, q)
    PROVE  LET j == start_ipv6_where_due(i, o, opens)
           IN  /\ Good(j) /\ Attached(j, q)
               /\ Here(i) => Here(j)
               /\ Same(i, j, {"link", "judgment", "network", "rejudge", "lease"})
               /\ j.ndp # None => o.link_local = "ready"
<1> DEFINE j == start_ipv6_where_due(i, o, opens)
           k == NdpWhereDue(i, o, opens)
<1>1. i \in Interface /\ Belongs(i) /\ i # None
  BY NoneApart DEF Good
<1>2. CASE ~managed(i)
  <2>1. j = i /\ i.ndp = None
    BY <1>1, <1>2 DEF start_ipv6_where_due, Belongs
  <2> QED
    BY <2>1 DEF Same
<1>3. CASE managed(i)
  <2>1. j = Dhcp6WhereDue(k, o, opens)
    BY <1>1, <1>3 DEF start_ipv6_where_due
  <2>2. /\ Good(k) /\ Attached(k, q)
        /\ Here(i) => Here(k)
        /\ Same(i, k, {"link", "judgment", "network", "rejudge", "lease"})
        /\ k.ndp # None => o.link_local = "ready"
    BY <1>3, NdpOK
  <2> HIDE DEF k, j
  <2>3. /\ Good(j) /\ Attached(j, q)
        /\ Here(k) => Here(j)
        /\ Same(k, j, {"link", "judgment", "network", "rejudge", "lease", "ndp"})
    BY <2>1, <2>2, Dhcp6OK
  <2>4. Same(i, j, {"link", "judgment", "network", "rejudge", "lease"}) /\ j.ndp = k.ndp
    BY <2>2, <2>3 DEF Same
  <2> QED
    BY <2>2, <2>3, <2>4 DEF j
<1> QED
  BY <1>2, <1>3

(***************************************************************************)
(* An interface with a lease always identifies its network: the lease is   *)
(* its client's, and the client runs where it belongs.                     *)
(***************************************************************************)
LEMMA LeaseIdentifies ==
    ASSUME NEW i, Good(i), i.lease # None
    PROVE  Identifiable(i) /\ i.lease \in Lease /\ identity(i) = i.lease.network
<1>1. i.lease \in Lease /\ i.lease.network \in Networks
  BY DEF Good, Interface, Lease, Networks
<1>2. i.dhcp # None
  BY DEF Good, Held
<1>3. managed(i) /\ Carrier(i.link)
  BY <1>2 DEF Good, Belongs
<1> QED
  BY <1>1, <1>3, NoneApart DEF Identifiable, identity

(***************************************************************************)
(* set_requested_address leaves the leased address in the network's        *)
(* record.                                                                 *)
(***************************************************************************)
LEMMA NotedOK ==
    ASSUME NEW i, Good(i), NEW r \in Registry
    PROVE  /\ set_requested_address(i, r) \in Registry
           /\ i.lease # None => set_requested_address(i, r).requested_address[i.lease.network] = i.lease.address
<1>1. CASE i.lease = None
  BY <1>1 DEF set_requested_address
<1>2. CASE i.lease # None
  <2>1. Identifiable(i) /\ i.lease.network \in Networks /\ i.lease.address \in Leasable
    BY <1>2, LeaseIdentifies DEF Lease, Networks
  <2>2. set_requested_address(i, r) = [r EXCEPT !.requested_address[i.lease.network] = i.lease.address]
    BY <1>2, <2>1 DEF set_requested_address
  <2> QED
    BY <2>1, <2>2 DEF Registry
<1> QED
  BY <1>1, <1>2

(***************************************************************************)
(* inventory.sync writes the network of the interface and leaves the       *)
(* addresses in the records alone.                                         *)
(***************************************************************************)
LEMMA InventoryOK ==
    ASSUME NEW i \in Interface, NEW r \in Registry
    PROVE  /\ inventory_sync(i, r) \in Registry
           /\ Recorded(i, inventory_sync(i, r))
           /\ inventory_sync(i, r).requested_address = r.requested_address
<1>1. i # None /\ (i.network # None => i.network.id \in Networks)
  BY NoneApart DEF Interface, Record
<1>2. CASE i.network = None
  BY <1>1, <1>2 DEF inventory_sync, Registry, Recorded, NetId
<1>3. CASE i.network # None
  BY <1>1, <1>3, Zenon DEF inventory_sync, Registry, Recorded, NetId
<1> QED
  BY <1>2, <1>3

(***************************************************************************)
(* One round of Netd::converge. It keeps what holds of an interface,       *)
(* follows the dump, and when it wrote nothing to the registry it has left *)
(* no decision unmade.                                                     *)
(***************************************************************************)
LEMMA RoundOK ==
    ASSUME TypeOK, iface # None => Held(iface) /\ Belongs(iface), NEW opens
    PROVE  LET j == Round(opens).iface
               r == Round(opens).registry
           IN  /\ r \in Registry
               /\ ~observed.present => j = None
               /\ observed.present =>
                     /\ Good(j) /\ Recorded(j, r)
                     /\ j.link = LinkOf(observed) /\ j.rejudge = FALSE
                     /\ (iface # None => Here(iface)) => Here(j)
                     /\ r = registry => Settled(j, registry, observed, policy)
<1> DEFINE i1 == IF iface = None THEN None ELSE identify(iface, registry)
           noted == IF iface = None THEN registry ELSE set_requested_address(iface, registry)
           i2 == sync_links(i1, observed, policy)
           r == inventory_sync(i2, noted)
           i3 == start_dhcp_where_due(i2, observed, r, opens)
           j == start_ipv6_where_due(i3, observed, opens)
<1>0. Round(opens) = [iface |-> j, registry |-> r]
  BY DEF Round
<1>1. registry \in Registry /\ observed \in Kernel /\ policy \in Policy
  BY DEF TypeOK
<1>2. iface # None => Good(iface)
  BY DEF TypeOK, Good
<1>3. i1 # None => /\ iface # None /\ Good(i1) /\ Attached(i1, registry)
                   /\ Same(iface, i1, {"lease"})
  BY <1>1, <1>2, IdentifyOK DEF Same
<1>4. iface # None /\ Here(iface) => Here(i1)
  <2> SUFFICES ASSUME iface # None, Here(iface)
               PROVE  Here(i1)
    OBVIOUS
  <2>1. /\ Same(iface, i1, {"link", "judgment", "lease", "ndp", "dhcp"})
        /\ Identifiable(iface) => i1.network # None /\ i1.network.id = identity(iface)
        /\ ~Identifiable(iface) => i1.network = iface.network
    BY <1>1, <1>2, IdentifyOK
  <2>2. Identifiable(iface) => identity(iface) \in IdentitiesOf(lan)
    BY DEF Here, identity, Identifiable
  <2> HIDE DEF i1
  <2> QED
    BY <2>1, <2>2 DEF Here, Same
<1>5. noted \in Registry
  BY <1>1, <1>2, NotedOK
<1>6. iface # None /\ iface.lease # None =>
         noted.requested_address[iface.lease.network] = iface.lease.address
  BY <1>1, <1>2, NotedOK
<1> HIDE DEF i1, noted
<1>7. CASE ~observed.present
  <2>1. i2 = None
    BY <1>7 DEF sync_links
  <2>2. r = noted /\ j = None
    BY <2>1 DEF inventory_sync, start_dhcp_where_due, start_ipv6_where_due
  <2> QED
    BY <1>0, <1>5, <1>7, <2>2
<1>8. CASE observed.present
  <2> DEFINE c == CarrierSynced(i1, observed)
  <2>1. i2 = Judged(c, policy)
    BY <1>8 DEF sync_links
  <2>2. /\ Good(c) /\ Attached(c, registry)
        /\ (i1 # None => Here(i1)) => Here(c)
        /\ c.link = LinkOf(observed) /\ c.rejudge = FALSE
        /\ c.lease # None => i1 # None /\ c.lease = i1.lease
    BY <1>1, <1>3, CarrierSyncedOK, Zenon
  <2> HIDE DEF c, i2
  <2>3. /\ Good(i2) /\ Attached(i2, registry)
        /\ Here(c) => Here(i2)
        /\ i2.link = c.link /\ i2.rejudge = FALSE
        /\ i2.judgment = judge(policy, facts(i2))
        /\ i2.lease # None => i2.lease = c.lease
    BY <1>1, <2>1, <2>2, JudgedOK, Zenon
  <2>4. r \in Registry /\ Recorded(i2, r) /\ r.requested_address = noted.requested_address
    BY <1>5, <2>3, InventoryOK DEF Good
  <2> HIDE DEF r, i3
  <2>5. /\ Good(i3) /\ Attached(i3, registry)
        /\ Here(i2) => Here(i3)
        /\ Same(i2, i3, {"link", "judgment", "network", "rejudge", "ndp", "lease"})
    BY <1>1, <2>3, <2>4, StartDhcpOK, Zenon DEF i3
  <2> HIDE DEF j
  <2>6. /\ Good(j) /\ Attached(j, registry)
        /\ Here(i3) => Here(j)
        /\ Same(i3, j, {"link", "judgment", "network", "rejudge", "lease"})
        /\ j.ndp # None => observed.link_local = "ready"
    BY <2>5, StartIpv6OK DEF j
  <2>7. /\ j.link = LinkOf(observed) /\ j.rejudge = FALSE /\ j.network = i2.network
        /\ j.judgment = i2.judgment /\ j.lease = i2.lease
    BY <2>2, <2>3, <2>5, <2>6 DEF Same
  <2>8. Recorded(j, r)
    BY <2>4, <2>7, ZenonT(30) DEF Recorded, NetId
  <2>9. j.judgment = judge(policy, facts(j))
    BY <2>3, <2>7 DEF facts
  <2>10. j.lease # None => iface # None /\ j.lease = iface.lease
    BY <1>3, <2>2, <2>3, <2>7 DEF Same
  <2>11. j.lease # None => r.requested_address[j.lease.network] = j.lease.address
    BY <1>6, <2>4, <2>10
  <2>12. r = registry => Settled(j, registry, observed, policy)
    BY <2>6, <2>9, <2>11, Zenon DEF Settled, Attached, RecordOf
  <2>13. (iface # None => Here(iface)) => Here(j)
    BY <1>3, <1>4, <2>2, <2>3, <2>5, <2>6
  <2>14. Round(opens).iface = j /\ Round(opens).registry = r
    BY <1>0
  <2>15. Good(j) /\ r \in Registry /\ j.link = LinkOf(observed) /\ j.rejudge = FALSE
    BY <2>4, <2>6, <2>7, Zenon
  <2> QED
    BY <1>8, <2>8, <2>12, <2>13, <2>14, <2>15, Zenon
<1> QED
  BY <1>7, <1>8, Zenon

(***************************************************************************)
(* What a profile desires has the shape of a plan.                         *)
(***************************************************************************)
LEMMA DesiredShape ==
    ASSUME NEW i \in Interface, i.judgment.outcome \notin {Ignore, Down}
    PROVE  desired(i) \in Desired /\ desired(i).up
<1> DEFINE router == IF i.ndp # None /\ i.ndp.router # None THEN {i.ndp.router} ELSE {}
           a == desired(i).addresses
           g == desired(i).routes
<1>1. /\ i.lease # None => i.lease.address \in Leasable /\ i.lease.network \in Networks
      /\ i.ndp # None /\ i.ndp.router # None => i.ndp.router \in Networks
      /\ i.restart # None => i.restart.address \in Leasable /\ i.restart.routes \subseteq Route
  BY DEF Interface, Lease, Engine, Restart, Networks, Route
<1>2. PreservedRoute(i) \subseteq Route
  <2>1. i.restart # None /\ i.restart.routes # {} => (CHOOSE x \in i.restart.routes : TRUE) \in Route
    BY <1>1
  <2> QED
    BY <2>1, Zenon DEF PreservedRoute
<1>3. Preserved(i) \subseteq Address
  BY <1>1 DEF Preserved, Address
<1>4. desired(i) = [up |-> TRUE, addresses |-> a, routes |-> g]
  BY Zenon DEF desired
<1>5. a \subseteq Address
  BY <1>1, <1>3, Zenon DEF desired, Address
<1>6. router \subseteq Route /\ Static \in Route
  BY <1>1 DEF Route
<1>7. (IF profile(i).route_offered /\ i.lease # None THEN {i.lease.network} ELSE {}) \subseteq Route
  BY <1>1 DEF Route
<1>8. g = (IF (IF profile(i).static THEN {Static}
               ELSE IF profile(i).route_offered /\ i.lease # None THEN {i.lease.network} ELSE {}) # {}
           THEN (IF profile(i).static THEN {Static}
                 ELSE IF profile(i).route_offered /\ i.lease # None THEN {i.lease.network} ELSE {})
           ELSE PreservedRoute(i))
          \cup (IF profile(i).route_offered THEN router ELSE {})
  BY DEF desired
<1> HIDE DEF g, router
<1>9. g \subseteq Route
  BY <1>2, <1>6, <1>7, <1>8
<1> HIDE DEF a
<1> QED
  BY <1>4, <1>5, <1>9 DEF Desired

(***************************************************************************)
(* What is desired has the shape of a plan, and an interface taken down    *)
(* carries nothing.                                                        *)
(***************************************************************************)
LEMMA DesiredType ==
    ASSUME NEW i \in Interface, desired(i) # None
    PROVE  /\ desired(i) \in Desired
           /\ ~desired(i).up => desired(i).addresses = {} /\ desired(i).routes = {}
<1>1. CASE i.judgment.outcome = Down
  BY <1>1, DistinctAssumption, Zenon DEF desired, Desired
<1>2. CASE i.judgment.outcome # Down
  <2>1. i.judgment.outcome # Ignore
    BY DEF desired
  <2> QED
    BY <1>2, <2>1, DesiredShape, Zenon
<1> QED
  BY <1>1, <1>2

(***************************************************************************)
(* What is desired of an interface whose DHCPv4 client runs: the leased    *)
(* address, the adopted one, and without either none that servers lease.   *)
(***************************************************************************)
LEMMA DesiredOfClient ==
    ASSUME NEW i, Good(i), i.dhcp # None
    PROVE  /\ desired(i) # None
           /\ i.lease # None => i.lease.address \in desired(i).addresses
           /\ i.restart # None => i.restart.address \in desired(i).addresses
           /\ i.lease = None /\ i.restart = None =>
                 desired(i).addresses \subseteq {Static, LinkLocal4, Slaac}
<1>1. i.judgment.outcome # Ignore /\ i.judgment.outcome # Down
  BY DistinctAssumption DEF Good, Belongs, managed
<1>3. desired(i) # None
  BY <1>1, DesiredShape, DistinctAssumption DEF Good
<1>4. i.lease # None => i.lease.address \in desired(i).addresses
  BY <1>1, Zenon DEF desired
<1>5. i.restart # None => i.restart.address \in desired(i).addresses
  BY <1>1, Zenon DEF desired, Preserved
<1>6. i.lease = None /\ i.restart = None => desired(i).addresses \subseteq {Static, LinkLocal4, Slaac}
  BY <1>1, Zenon DEF desired, Preserved
<1> QED
  BY <1>3, <1>4, <1>5, <1>6

(***************************************************************************)
(* Taking a link down takes the carrier and every route.                   *)
(***************************************************************************)
LEMMA LoweredType ==
    ASSUME NEW k \in Kernel
    PROVE  /\ Lowered(k) \in Kernel /\ ~Lowered(k).up /\ ~Lowered(k).carrier /\ Lowered(k).routes = {}
           /\ Lowered(k).addresses = k.addresses \ {Slaac}
           /\ Lowered(k).index = k.index
  BY Zenon DEF Lowered, Kernel

(***************************************************************************)
(* Bringing a link up keeps its addresses and routes.                      *)
(***************************************************************************)
LEMMA RaisedType ==
    ASSUME NEW k \in Kernel, NEW c \in BOOLEAN
    PROVE  /\ Raised(k, c) \in Kernel /\ Raised(k, c).up /\ Raised(k, c).carrier = c
           /\ Raised(k, c).addresses = k.addresses /\ Raised(k, c).routes = k.routes
  BY Zenon DEF Raised, Kernel

\* The link of a request, and the addresses and routes it leaves.
RequestedLink(k, o, d, c) ==
    IF d.up /\ ~o.up /\ ~k.up THEN Raised(k, c)
    ELSE IF ~d.up /\ o.up /\ k.up THEN Lowered(k) ELSE k
RequestedAddresses(l, o, d) ==
    (l.addresses \ (o.addresses \ d.addresses))
    \cup {a \in d.addresses \ o.addresses : a = Slaac => l.up}

RequestedRoutes(l, o, d) ==
    IF l.up THEN (l.routes \ (o.routes \ d.routes)) \cup (d.routes \ o.routes) ELSE l.routes

(***************************************************************************)
(* A plan applied, part by part.                                           *)
(***************************************************************************)
LEMMA RequestedParts ==
    ASSUME NEW k \in Kernel, NEW o \in Kernel, NEW d \in Desired, NEW c \in BOOLEAN
    PROVE  LET l == RequestedLink(k, o, d, c)
               q == Requested(k, o, d, c)
           IN  /\ l \in Kernel /\ q \in Kernel
               /\ q.up = l.up /\ q.carrier = l.carrier
               /\ q.addresses = RequestedAddresses(l, o, d)
               /\ q.routes = RequestedRoutes(l, o, d)
<1> DEFINE l == RequestedLink(k, o, d, c)
           q == Requested(k, o, d, c)
           a == RequestedAddresses(l, o, d)
           g == RequestedRoutes(l, o, d)
<1>1. l \in Kernel
  BY RaisedType, LoweredType DEF RequestedLink
<1>2. q = IF l.up THEN [[l EXCEPT !.addresses = a] EXCEPT
                           !.routes = (@ \ (o.routes \ d.routes)) \cup (d.routes \ o.routes)]
          ELSE [l EXCEPT !.addresses = a]
  BY <1>1 DEF Requested, RequestedLink, RequestedAddresses, Kernel
<1>3. a \in SUBSET Address /\ g \in SUBSET Route
  BY <1>1 DEF RequestedAddresses, RequestedRoutes, Kernel, Desired
<1>4. l.up => g = (l.routes \ (o.routes \ d.routes)) \cup (d.routes \ o.routes)
  BY DEF RequestedRoutes
<1>5. ~l.up => g = l.routes
  BY DEF RequestedRoutes
<1> HIDE DEF l, q, a, g
<1>6. CASE l.up
  <2> DEFINE m == [l EXCEPT !.addresses = a]
  <2>1. /\ m \in Kernel /\ m.up = l.up /\ m.carrier = l.carrier /\ m.addresses = a
        /\ m.routes = l.routes
    BY <1>1, <1>3 DEF Kernel
  <2>2. q = [m EXCEPT !.routes = (@ \ (o.routes \ d.routes)) \cup (d.routes \ o.routes)]
    BY <1>2, <1>6
  <2> HIDE DEF m
  <2>3. q = [m EXCEPT !.routes = g]
    BY <1>4, <1>6, <2>1, <2>2, Zenon DEF Kernel
  <2>4. q \in Kernel /\ q.up = m.up /\ q.carrier = m.carrier /\ q.addresses = m.addresses /\ q.routes = g
    BY <1>3, <2>1, <2>3 DEF Kernel
  <2> QED
    BY <1>1, <2>1, <2>4 DEF l, q, a, g
<1>7. CASE ~l.up
  <2>1. q = [l EXCEPT !.addresses = a]
    BY <1>2, <1>7
  <2>2. q \in Kernel /\ q.up = l.up /\ q.carrier = l.carrier /\ q.addresses = a /\ q.routes = g
    BY <1>1, <1>3, <1>5, <1>7, <2>1 DEF Kernel
  <2> QED
    BY <1>1, <2>2 DEF l, q, a, g
<1> QED
  BY <1>6, <1>7, SMTT(20)

(***************************************************************************)
(* A plan made from the kernel as it is that changes nothing was made for  *)
(* a kernel that carries what is desired.                                  *)
(***************************************************************************)
LEMMA NothingRequested ==
    ASSUME NEW k \in Kernel, NEW d \in Desired, NEW c \in BOOLEAN,
           ~k.up => k.routes = {},
           ~d.up => d.addresses = {} /\ d.routes = {},
           Requested(k, k, d, c) = k
    PROVE  Matches(k, d)
<1> DEFINE l == RequestedLink(k, k, d, c)
<1>1. /\ k.up = l.up /\ k.addresses = RequestedAddresses(l, k, d)
      /\ k.routes = RequestedRoutes(l, k, d)
  BY RequestedParts
<1>2. k.up \in BOOLEAN /\ d.up \in BOOLEAN
  BY SMTT(20) DEF Kernel, Desired
<1>3. k.up = d.up
  BY <1>1, <1>2, RaisedType, LoweredType, SMTT(20) DEF RequestedLink
<1>4. l = k
  BY <1>3 DEF RequestedLink
<1>5. k.addresses = d.addresses
  BY <1>1, <1>3, <1>4, Zenon DEF RequestedAddresses
<1>6. k.routes = d.routes
  BY <1>1, <1>3, <1>4 DEF RequestedRoutes
<1> QED
  BY <1>3, <1>5, <1>6 DEF Matches

(***************************************************************************)
(* The requests of a pass: the kernel stays well formed; a pass that saw   *)
(* the kernel as it is and left it so found what is desired; and nothing   *)
(* desired is removed.                                                     *)
(***************************************************************************)
LEMMA ApplyOK ==
    ASSUME TypeOK, KernelOK, lan' = lan, NEW i \in Interface \cup {None}, Apply(i)
    PROVE  /\ kernel' \in Kernel
           /\ kernel'.carrier => lan # None
           /\ ~kernel'.up => kernel'.routes = {}
           /\ i # None /\ ~events /\ kernel' = kernel /\ observed.present /\ desired(i) # None
                 => Matches(kernel, desired(i))
           /\ i # None /\ Good(i) /\ i.dhcp # None =>
                 \A a \in kernel.addresses \ kernel'.addresses : a \notin desired(i).addresses
<1>1. kernel \in Kernel /\ observed \in Kernel
  BY DEF TypeOK
<1>2. CASE i = None \/ ~observed.present \/ ~kernel.present
  <2>1. kernel' = kernel
    BY <1>2, Zenon DEF Apply
  <2> QED
    BY <1>1, <1>2, <2>1 DEF KernelOK
<1>3. CASE ~(i = None \/ ~observed.present \/ ~kernel.present) /\ desired(i) = None
  <2>1. kernel' = kernel
    BY <1>3 DEF Apply
  <2> QED
    BY <1>1, <1>3, <2>1, Zenon DEF KernelOK
<1>4. CASE ~(i = None \/ ~observed.present \/ ~kernel.present) /\ desired(i) # None
  <2> DEFINE d == desired(i)
  <2>1. PICK c \in {FALSE, lan # None} : kernel' = Requested(kernel, observed, d, c)
    BY <1>4, Zenon DEF Apply
  <2>2. c \in BOOLEAN /\ (c => lan # None)
    BY Zenon
  <2>3. /\ d \in Desired
        /\ ~d.up => d.addresses = {} /\ d.routes = {}
    BY <1>4, DesiredType, Zenon
  <2> HIDE DEF d
  <2> DEFINE l == RequestedLink(kernel, observed, d, c)
  <2>4. /\ l \in Kernel /\ kernel' \in Kernel
        /\ kernel'.up = l.up /\ kernel'.carrier = l.carrier
        /\ kernel'.addresses = RequestedAddresses(l, observed, d)
        /\ kernel'.routes = RequestedRoutes(l, observed, d)
    <3> DEFINE q == Requested(kernel, observed, d, c)
    <3>1. /\ l \in Kernel /\ q \in Kernel
          /\ q.up = l.up /\ q.carrier = l.carrier
          /\ q.addresses = RequestedAddresses(l, observed, d)
          /\ q.routes = RequestedRoutes(l, observed, d)
      BY <1>1, <2>2, <2>3, RequestedParts
    <3> HIDE DEF l
    <3> QED
      BY <2>1, <3>1, SMTT(20)
  <2>5. /\ kernel.carrier => lan # None
        /\ ~kernel.up => kernel.routes = {}
        /\ ~events => observed = kernel
    BY DEF KernelOK
  <2>6. /\ l.carrier => lan # None
        /\ ~l.up => l.routes = {}
    BY <1>1, <2>2, <2>5, RaisedType, LoweredType, SMTT(20) DEF RequestedLink
  <2>7. ~kernel'.up => kernel'.routes = {}
    BY <2>4, <2>6 DEF RequestedRoutes
  <2>8. ~events /\ kernel' = kernel => Matches(kernel, d)
    BY <1>1, <2>1, <2>2, <2>3, <2>5, NothingRequested, ZenonT(30)
  <2>9. ASSUME Good(i), i.dhcp # None, NEW a \in kernel.addresses \ kernel'.addresses
        PROVE  a \notin d.addresses
    <3>1. i.judgment.outcome \notin {Ignore, Down}
      BY <2>9, DistinctAssumption, SMTT(20) DEF Good, Belongs, managed
    <3>2. d.up
      BY <1>4, <3>1, DesiredShape, Zenon DEF d
    <3>3. l.addresses = kernel.addresses
      BY <1>1, <2>2, <3>2, RaisedType DEF RequestedLink
    <3> QED
      BY <2>4, <3>3, <2>9, ZenonT(30) DEF RequestedAddresses
  <2> QED
    BY <1>4, <2>4, <2>6, <2>7, <2>8, <2>9, Zenon DEF d
<1> QED
  BY <1>2, <1>3, <1>4, Zenon

(***************************************************************************)
(* What is desired depends on these fields alone.                          *)
(***************************************************************************)
LEMMA DesiredSame ==
    ASSUME NEW i, NEW j, Same(i, j, {"judgment", "lease", "restart", "link_local", "ndp"})
    PROVE  desired(j) = desired(i)
<1>1. /\ j.judgment = i.judgment /\ j.lease = i.lease /\ j.restart = i.restart
      /\ j.link_local = i.link_local /\ j.ndp = i.ndp
  BY DEF Same
<1>2. profile(j) = profile(i) /\ Preserved(j) = Preserved(i)
  BY <1>1, Zenon DEF profile, Preserved
<1>3. PreservedRoute(j) = PreservedRoute(i)
  BY <1>1, <1>2, Zenon DEF PreservedRoute
<1> QED
  BY <1>1, <1>2, <1>3, Zenon DEF desired

(***************************************************************************)
(* What a snapshot shows depends on these fields alone.                    *)
(***************************************************************************)
LEMMA SnapshotSame ==
    ASSUME NEW i, NEW j, NEW o, i # None, j # None,
           Same(i, j, {"link", "judgment", "lease", "ndp", "dhcp6"})
    PROVE  snapshot(j, o) = snapshot(i, o)
<1>1. /\ j.judgment = i.judgment /\ j.lease = i.lease /\ j.link = i.link
      /\ j.dhcp6 = i.dhcp6 /\ j.ndp = i.ndp
  BY DEF Same
<1>2. managed(j) = managed(i) /\ profile(j) = profile(i) /\ level(j, o) = level(i, o)
  BY <1>1 DEF managed, profile, level
<1>3. dns(j) = dns(i)
  BY <1>1, <1>2, Zenon DEF dns
<1> QED
  BY <1>2, <1>3 DEF snapshot

(***************************************************************************)
(* A handler of the loop, and one that passes on what a client reports: it *)
(* keeps link, verdict and network; what it changes without asking for a   *)
(* full pass is at most a lease that goes and what was adopted, with a     *)
(* reconcile asked for, and without one nothing that is desired or shown.  *)
(***************************************************************************)
LoopStep ==
    /\ pc = "loop" /\ pc' = "loop" /\ stage' \in 1 .. 8
    /\ converge' \in BOOLEAN /\ reconcile' \in BOOLEAN
    /\ UNCHANGED <<kernel, lan, registry, written, published>>

ClientStep ==
    /\ LoopStep
    /\ iface # None /\ iface' # None /\ iface' \in Interface
    /\ UNCHANGED <<observed, config, policy, watch, events, full>>
    /\ converge => converge'
    /\ reconcile => reconcile'
    /\ Same(iface, iface', {"link", "judgment", "network"})
    /\ iface.rejudge => iface'.rejudge
    /\ Held(iface') /\ Belongs(iface') /\ (lan # None /\ Here(iface) => Here(iface)')
    /\ ~converge' /\ ~iface'.rejudge =>
          /\ iface'.ndp = iface.ndp
          /\ iface'.lease = iface.lease \/ (iface'.lease = None /\ reconcile')
          /\ iface.dhcp # None => iface'.dhcp # None
          /\ iface'.restart \in {iface.restart, None}
          /\ ~reconcile' => Same(iface, iface', {"lease", "restart", "link_local", "dhcp6"})

(***************************************************************************)
(* finish_restart, once the INIT-REBOOT is over.                           *)
(***************************************************************************)
LEMMA FinishOK ==
    ASSUME NEW i \in Interface, i.dhcp.phase # "rebooting"
    PROVE  LET j == finish_restart(i)
           IN  /\ j \in Interface /\ j.restart = None
               /\ Same(i, j, {"link", "judgment", "network", "rejudge", "dhcp", "lease", "link_local",
                              "ndp", "dhcp6"})
  BY DEF finish_restart, Interface, Same

(***************************************************************************)
(* What Interface::perform owes for an action of the DHCPv4 client to be   *)
(* one of the steps above.                                                 *)
(***************************************************************************)
LEMMA DhcpStep ==
    ASSUME TypeOK, IfaceOK, iface # None, iface.dhcp # None, NEW changed \in BOOLEAN,
           NEW x \in Interface,
           pc = "loop" /\ UNCHANGED <<world, registry, pc, full, pass, published>>,
           stage' \in 1 .. 8,
           DhcpEvent(x, changed),
           Same(iface, x, {"link", "judgment", "network", "ndp", "dhcp6", "restart"}),
           iface.rejudge => x.rejudge,
           x.dhcp # None, x.dhcp.phase # "rebooting",
           x.lease = x.dhcp.lease \/ (x.dhcp.phase = "acquiring" /\ managed(iface) /\ profile(iface).keep),
           x.link_local => x.dhcp.phase = "acquiring",
           lan # None /\ x.lease # None => x.lease = iface.lease \/ x.lease.network \in IdentitiesOf(lan),
           x.lease = iface.lease \/ (x.lease = None /\ changed) \/ x.rejudge,
           ~changed /\ ~x.rejudge => x.link_local = iface.link_local
    PROVE  ClientStep
<1> DEFINE j == finish_restart(x)
<1>1. /\ j \in Interface /\ j.restart = None
      /\ Same(x, j, {"link", "judgment", "network", "rejudge", "dhcp", "lease", "link_local",
                     "ndp", "dhcp6"})
  BY FinishOK, Zenon
<1>2. /\ iface' = j
      /\ reconcile' = (reconcile \/ changed \/ j.restart # x.restart)
      /\ UNCHANGED <<observed, config, policy, watch, events, converge>>
  BY ZenonT(30) DEF DhcpEvent, generation, inputs
<1> HIDE DEF j
<1>3. /\ j # None
      /\ j.link = iface.link /\ j.judgment = iface.judgment /\ j.network = iface.network
      /\ j.ndp = iface.ndp /\ j.dhcp6 = iface.dhcp6
      /\ j.rejudge = x.rejudge /\ j.dhcp = x.dhcp /\ j.lease = x.lease /\ j.link_local = x.link_local
      /\ x.restart = iface.restart
  BY <1>1, NoneApart DEF Same
<1>4. managed(j) = managed(iface) /\ profile(j) = profile(iface)
  BY <1>3, Zenon DEF managed, profile
<1>5. Held(j)
  BY <1>1, <1>3, <1>4, Zenon DEF Held
<1>6. Belongs(j)
  BY <1>3, <1>4, Zenon DEF IfaceOK, Belongs
<1>7. lan # None /\ Here(iface) => Here(iface)'
  BY <1>2, <1>3, Zenon DEF IfaceOK, Here, world, IdentitiesOf
<1>8. LoopStep
  BY <1>2, Zenon DEF LoopStep, TypeOK, world
<1>9. ~converge' /\ ~iface'.rejudge =>
          /\ iface'.ndp = iface.ndp
          /\ iface'.lease = iface.lease \/ (iface'.lease = None /\ reconcile')
          /\ iface.dhcp # None => iface'.dhcp # None
          /\ iface'.restart \in {iface.restart, None}
          /\ ~reconcile' => Same(iface, iface', {"lease", "restart", "link_local", "dhcp6"})
  <2> SUFFICES ASSUME ~converge', ~iface'.rejudge
               PROVE  /\ iface'.ndp = iface.ndp
                      /\ iface'.lease = iface.lease \/ (iface'.lease = None /\ reconcile')
                      /\ iface.dhcp # None => iface'.dhcp # None
                      /\ iface'.restart \in {iface.restart, None}
                      /\ ~reconcile' => Same(iface, iface', {"lease", "restart", "link_local", "dhcp6"})
    BY Zenon
  <2>1. ~x.rejudge
    BY <1>2, <1>3, Zenon
  <2>2. changed => reconcile'
    BY <1>2, Zenon
  <2>3. ~reconcile' => ~changed /\ j.restart = x.restart
    BY <1>2, Zenon
  <2>4. ~reconcile' => Same(iface, j, {"lease", "restart", "link_local", "dhcp6"})
    BY <1>3, <2>1, <2>3, Zenon DEF Same
  <2>5. j.lease = iface.lease \/ (j.lease = None /\ reconcile')
    BY <1>3, <2>1, <2>2, Zenon
  <2> QED
    BY <1>1, <1>2, <1>3, <2>4, <2>5, Zenon
<1>10. Same(iface, iface', {"link", "judgment", "network"})
  BY <1>2, <1>3, Zenon DEF Same
<1>11. (converge => converge') /\ (reconcile => reconcile') /\ UNCHANGED full
  BY <1>2, Zenon
<1> QED
  BY <1>1, <1>2, <1>3, <1>5, <1>6, <1>7, <1>8, <1>9, <1>10, <1>11, Zenon DEF ClientStep

(***************************************************************************)
(* A handler moves the iteration on and leaves the world, the records and  *)
(* what was published alone.                                               *)
(***************************************************************************)
LEMMA LoopFacts ==
    ASSUME NEW n \in 1 .. 8, Handler(n)
    PROVE  /\ pc = "loop" /\ UNCHANGED <<world, registry, pc, full, pass, published>>
           /\ stage' \in 1 .. 8
  BY DEF Handler

(***************************************************************************)
(* An ACK: the lease is the client's, on this LAN, and asks for a full     *)
(* pass.                                                                   *)
(***************************************************************************)
LEMMA BoundStep ==
    ASSUME TypeOK, IfaceOK, NEW l, Bound(l)
    PROVE  ClientStep
<1> DEFINE c == [phase |-> "held", lease |-> l, previous |-> None, reported |-> FALSE]
           x == [iface EXCEPT !.dhcp = c, !.lease = l, !.link_local = FALSE,
                              !.discovery_unanswered = FALSE, !.rejudge = TRUE]
<1>1. iface \in Interface /\ iface # None /\ iface.dhcp # None
  BY DEF TypeOK, Bound, Running
<1>2. lan \in Lans /\ l \in LeasesOf[lan]
  BY DEF TypeOK, Bound, Answering
<1>3. l \in Lease /\ l.network \in IdentitiesOf(lan)
  BY <1>2, DaemonAssumption DEF IdentitiesOf
<1>4. c \in Client /\ c # None /\ c.phase = "held" /\ c.lease = l
  <2>1. c \in Client
    BY <1>3 DEF Client
  <2> QED
    BY <2>1, NoneApart, Zenon
<1>5. DhcpEvent(x, TRUE)
  BY Zenon DEF Bound
<1>6. pc = "loop" /\ UNCHANGED <<world, registry, pc, full, pass, published>> /\ stage' \in 1 .. 8
  BY LoopFacts DEF Bound
<1> HIDE DEF c
<1>7. /\ x \in Interface
      /\ Same(iface, x, {"link", "judgment", "network", "ndp", "dhcp6", "restart"})
      /\ x.dhcp = c /\ x.lease = l /\ x.link_local = FALSE /\ x.rejudge = TRUE
  BY <1>1, <1>3, <1>4, Zenon DEF Interface, Same
<1> HIDE DEF x
<1> QED
  BY <1>1, <1>3, <1>4, <1>5, <1>6, <1>7, DhcpStep, Zenon

(***************************************************************************)
(* The end of an INIT-REBOOT: what was adopted for it goes, with a         *)
(* reconcile.                                                              *)
(***************************************************************************)
LEMMA RebootEndsStep ==
    ASSUME TypeOK, IfaceOK, RebootEnds
    PROVE  ClientStep
<1> DEFINE c == [iface.dhcp EXCEPT !.phase = "acquiring", !.previous = None]
           x == [iface EXCEPT !.dhcp.phase = "acquiring", !.dhcp.previous = None]
<1>1. iface \in Interface /\ iface # None /\ iface.dhcp # None /\ iface.dhcp.phase = "rebooting"
  BY DEF TypeOK, RebootEnds, Running
<1>2. iface.dhcp \in Client
  BY <1>1 DEF Interface
<1>3. c \in Client /\ c # None /\ c.phase = "acquiring" /\ c.lease = iface.dhcp.lease
  BY <1>2, NoneApart, Zenon DEF Client
<1>4. x = [iface EXCEPT !.dhcp = c]
  BY <1>1, Zenon DEF Interface
<1>5. DhcpEvent(x, FALSE)
  BY Zenon DEF RebootEnds
<1>6. pc = "loop" /\ UNCHANGED <<world, registry, pc, full, pass, published>> /\ stage' \in 1 .. 8
  BY LoopFacts DEF RebootEnds
<1> HIDE DEF c, x
<1>7. /\ x \in Interface
      /\ Same(iface, x, {"link", "judgment", "network", "ndp", "dhcp6", "restart", "lease",
                         "link_local", "rejudge"})
      /\ x.dhcp = c
  BY <1>1, <1>3, <1>4 DEF Interface, Same
<1>8. /\ Same(iface, x, {"link", "judgment", "network", "ndp", "dhcp6", "restart"})
      /\ x.lease = iface.lease /\ x.link_local = iface.link_local /\ x.rejudge = iface.rejudge
  BY <1>7 DEF Same
<1>9. iface.lease = iface.dhcp.lease
  BY <1>1, Zenon DEF IfaceOK, Held
<1> QED
  BY <1>1, <1>3, <1>5, <1>6, <1>7, <1>8, <1>9, DhcpStep, Zenon

(***************************************************************************)
(* An unanswered discovery: a fallback address comes with a reconcile.     *)
(***************************************************************************)
LEMMA NoOfferStep ==
    ASSUME TypeOK, IfaceOK, NoOffer
    PROVE  ClientStep
<1> DEFINE falls_back == managed(iface) /\ profile(iface).link_local /\ ~iface.link_local
           b == iface.link_local \/ falls_back
           c == [iface.dhcp EXCEPT !.reported = TRUE]
           x == [iface EXCEPT !.dhcp.reported = TRUE, !.discovery_unanswered = TRUE,
                              !.link_local = @ \/ falls_back]
<1>1. iface \in Interface /\ iface # None /\ iface.dhcp # None /\ iface.dhcp.phase = "acquiring"
  BY DEF TypeOK, NoOffer, Running
<1>2. iface.dhcp \in Client /\ iface.link_local \in BOOLEAN
  BY <1>1 DEF Interface
<1>3. c \in Client /\ c # None /\ c.phase = "acquiring" /\ c.lease = iface.dhcp.lease
  BY <1>1, <1>2, NoneApart, Zenon DEF Client
<1>5. DhcpEvent(x, falls_back)
  BY DEF NoOffer
<1>6. pc = "loop" /\ UNCHANGED <<world, registry, pc, full, pass, published>> /\ stage' \in 1 .. 8
  BY LoopFacts DEF NoOffer
<1>10. falls_back \in BOOLEAN
  OBVIOUS
<1> HIDE DEF falls_back
<1>4. x = [iface EXCEPT !.dhcp = c, !.discovery_unanswered = TRUE, !.link_local = b]
  BY <1>1 DEF Interface
<1>11. b \in BOOLEAN /\ (~falls_back => b = iface.link_local)
  BY <1>2, <1>10
<1> HIDE DEF c, x, b
<1>7. /\ x \in Interface
      /\ Same(iface, x, {"link", "judgment", "network", "ndp", "dhcp6", "restart", "lease", "rejudge"})
      /\ x.dhcp = c /\ x.link_local = b
  BY <1>1, <1>3, <1>4, <1>11, Zenon DEF Interface, Same
<1>8. /\ Same(iface, x, {"link", "judgment", "network", "ndp", "dhcp6", "restart"})
      /\ x.lease = iface.lease /\ x.rejudge = iface.rejudge
  BY <1>7 DEF Same
<1>9. iface.lease = iface.dhcp.lease \/ (managed(iface) /\ profile(iface).keep)
  BY <1>1 DEF IfaceOK, Held
<1> QED
  BY <1>1, <1>3, <1>5, <1>6, <1>7, <1>8, <1>9, <1>10, <1>11, DhcpStep, Zenon

(***************************************************************************)
(* A lost lease: it is kept where the profile says so, and else goes with  *)
(* a reconcile.                                                            *)
(***************************************************************************)
LEMMA LostStep ==
    ASSUME TypeOK, IfaceOK, Lost
    PROVE  ClientStep
<1> DEFINE keep == managed(iface) /\ profile(iface).keep
           m == IF keep THEN iface.lease ELSE None
           c == [iface.dhcp EXCEPT !.phase = "acquiring", !.lease = None]
           x == [iface EXCEPT !.dhcp.phase = "acquiring", !.dhcp.lease = None,
                              !.lease = IF keep THEN @ ELSE None]
<1>1. iface \in Interface /\ iface # None /\ iface.dhcp # None /\ iface.dhcp.phase = "held"
  BY DEF TypeOK, Lost, Running
<1>2. iface.dhcp \in Client
  BY <1>1 DEF Interface
<1>3. c \in Client /\ c # None /\ c.phase = "acquiring" /\ c.lease = None
  BY <1>1, <1>2, NoneApart, Zenon DEF Client
<1>5. DhcpEvent(x, ~keep)
  BY DEF Lost
<1>6. pc = "loop" /\ UNCHANGED <<world, registry, pc, full, pass, published>> /\ stage' \in 1 .. 8
  BY LoopFacts DEF Lost
<1>10. (~keep) \in BOOLEAN /\ (keep => managed(iface) /\ profile(iface).keep)
  OBVIOUS
<1> HIDE DEF keep
<1>4. x = [iface EXCEPT !.dhcp = c, !.lease = m]
  BY <1>1, Zenon DEF Interface
<1>11. m \in Lease \cup {None} /\ (keep => m = iface.lease) /\ (~keep => m = None)
  BY <1>1 DEF Interface
<1> HIDE DEF c, x, m
<1>7. /\ x \in Interface
      /\ Same(iface, x, {"link", "judgment", "network", "ndp", "dhcp6", "restart", "link_local", "rejudge"})
      /\ x.dhcp = c /\ x.lease = m
  BY <1>1, <1>3, <1>4, <1>11, ZenonT(30) DEF Interface, Same
<1>8. /\ Same(iface, x, {"link", "judgment", "network", "ndp", "dhcp6", "restart"})
      /\ x.link_local = iface.link_local /\ x.rejudge = iface.rejudge
  BY <1>7 DEF Same
<1>9. x.lease = x.dhcp.lease \/ (x.dhcp.phase = "acquiring" /\ managed(iface) /\ profile(iface).keep)
  BY <1>3, <1>7, <1>10, <1>11
<1>12. x.lease = iface.lease \/ (x.lease = None /\ ~keep)
  BY <1>7, <1>11
<1> QED
  BY <1>1, <1>3, <1>5, <1>6, <1>7, <1>8, <1>9, <1>10, <1>12, DhcpStep, Zenon

(***************************************************************************)
(* What the engine owes for an event of it to be one of the steps above.   *)
(***************************************************************************)
LEMMA NdpStep ==
    ASSUME TypeOK, IfaceOK, iface # None, iface.ndp # None, NEW e \in Engine,
           pc = "loop" /\ UNCHANGED <<world, registry, pc, full, pass, published>>,
           stage' \in 1 .. 8,
           NdpEvent(e),
           iface.ndp.dhcp6_wanted => e.dhcp6_wanted,
           lan # None => e.router \in IdentitiesOf(lan) \cup {None}
    PROVE  ClientStep
<1> DEFINE j == [iface EXCEPT !.ndp = e]
<1>1. iface \in Interface /\ Held(iface) /\ Belongs(iface)
  BY Zenon DEF TypeOK, IfaceOK
<1>2. /\ iface' = j
      /\ converge' = (converge \/ e # iface.ndp)
      /\ UNCHANGED <<observed, config, policy, watch, events, reconcile>>
  BY DEF NdpEvent, generation, inputs
<1>3. j \in Interface /\ j.ndp = e
      /\ Same(iface, j, {"link", "judgment", "network", "rejudge", "dhcp", "lease", "restart", "link_local", "dhcp6"})
  BY <1>1 DEF Interface, Same
<1> HIDE DEF j
<1>4. j # None /\ e # None
  BY <1>3, NoneApart
<1>5. managed(j) = managed(iface) /\ profile(j) = profile(iface)
  BY <1>3 DEF managed, profile, Same
<1>6. Held(j)
  BY <1>1, <1>3, <1>5, Zenon DEF Held, Same
<1>7. Belongs(j)
  BY <1>1, <1>3, <1>4, <1>5, Zenon DEF Belongs, Same
<1>8. lan # None /\ Here(iface) => Here(iface)'
  BY <1>2, <1>3, Zenon DEF Here, world, IdentitiesOf, Same
<1>9. LoopStep
  BY <1>2, Zenon DEF LoopStep, TypeOK, world
<1>10. ~converge' => iface.ndp = j.ndp
  BY <1>2, <1>3, Zenon
<1>11. /\ j.lease = iface.lease /\ j.dhcp = iface.dhcp /\ j.restart = iface.restart /\ j.rejudge = iface.rejudge
       /\ Same(iface, j, {"link", "judgment", "network"})
       /\ Same(iface, j, {"lease", "restart", "link_local", "dhcp6"})
  BY <1>3, Zenon DEF Same
<1> QED
  BY <1>2, <1>3, <1>4, <1>6, <1>7, <1>8, <1>9, <1>10, <1>11, Zenon DEF ClientStep

(***************************************************************************)
(* A router advertisement: the router is on this LAN, and news of it asks  *)
(* for a full pass.                                                        *)
(***************************************************************************)
LEMMA RouterAdvertStep ==
    ASSUME TypeOK, IfaceOK, RouterAdvert
    PROVE  ClientStep
<1> DEFINE e == [router |-> RouterOf[lan],
                 dhcp6_wanted |-> iface.ndp.dhcp6_wanted \/ lan \in Asks6]
<1>1. iface \in Interface /\ iface # None /\ iface.ndp # None /\ lan \in Lans
  BY DEF TypeOK, RouterAdvert, Running, Answering
<1>2. iface.ndp \in Engine /\ RouterOf[lan] \in Networks6 \cup {None}
  BY <1>1, DaemonAssumption DEF Interface
<1>3. e \in Engine /\ (iface.ndp.dhcp6_wanted => e.dhcp6_wanted) /\ e.router \in IdentitiesOf(lan) \cup {None}
  BY <1>2 DEF Engine, IdentitiesOf
<1>4. NdpEvent(e)
  BY DEF RouterAdvert
<1>5. pc = "loop" /\ UNCHANGED <<world, registry, pc, full, pass, published>> /\ stage' \in 1 .. 8
  BY LoopFacts DEF RouterAdvert
<1> HIDE DEF e
<1> QED
  BY <1>1, <1>3, <1>4, <1>5, NdpStep, SMTT(20)

(***************************************************************************)
(* A router that falls silent.                                             *)
(***************************************************************************)
LEMMA RouterExpiresStep ==
    ASSUME TypeOK, IfaceOK, RouterExpires
    PROVE  ClientStep
<1> DEFINE e == [iface.ndp EXCEPT !.router = None]
<1>1. iface \in Interface /\ iface # None /\ iface.ndp # None
  BY DEF TypeOK, RouterExpires, Running
<1>2. iface.ndp \in Engine
  BY <1>1 DEF Interface
<1>3. e \in Engine /\ (iface.ndp.dhcp6_wanted => e.dhcp6_wanted) /\ e.router = None
  BY <1>2 DEF Engine
<1>4. NdpEvent(e)
  BY DEF RouterExpires
<1>5. pc = "loop" /\ UNCHANGED <<world, registry, pc, full, pass, published>> /\ stage' \in 1 .. 8
  BY LoopFacts DEF RouterExpires
<1> HIDE DEF e
<1> QED
  BY <1>1, <1>3, <1>4, <1>5, NdpStep, Zenon

(***************************************************************************)
(* A DHCPv6 reply, with a reconcile.                                       *)
(***************************************************************************)
LEMMA Dhcp6ReplyStep ==
    ASSUME TypeOK, IfaceOK, Dhcp6Reply
    PROVE  ClientStep
<1> DEFINE j == [iface EXCEPT !.dhcp6 = "answered"]
<1>1. iface \in Interface /\ Held(iface) /\ Belongs(iface) /\ iface # None /\ iface.dhcp6 # None
  BY DEF TypeOK, IfaceOK, Dhcp6Reply, Running
<1>2. /\ iface' = j /\ reconcile' = TRUE
      /\ UNCHANGED <<observed, config, policy, watch, events, converge>>
  BY DEF Dhcp6Reply, generation, inputs
<1>3. j \in Interface
      /\ Same(iface, j, {"link", "judgment", "network", "rejudge", "dhcp", "lease", "restart", "link_local", "ndp"})
  BY <1>1 DEF Interface, Same
<1> HIDE DEF j
<1>4. j # None
  BY <1>3, NoneApart
<1>5. managed(j) = managed(iface) /\ profile(j) = profile(iface)
  BY <1>3 DEF managed, profile, Same
<1>6. Held(j)
  BY <1>1, <1>3, <1>5 DEF Held, Same
<1>7. Belongs(j)
  BY <1>1, <1>3, <1>5 DEF Belongs, Same
<1>12. pc = "loop" /\ UNCHANGED <<world, registry, pc, full, pass, published>> /\ stage' \in 1 .. 8
  BY LoopFacts DEF Dhcp6Reply
<1>8. lan # None /\ Here(iface) => Here(iface)'
  BY <1>2, <1>3, <1>12, Zenon DEF Here, world, IdentitiesOf, Same
<1>9. LoopStep
  BY <1>2, <1>12 DEF LoopStep, TypeOK, world
<1>11. /\ j.lease = iface.lease /\ j.dhcp = iface.dhcp /\ j.restart = iface.restart /\ j.rejudge = iface.rejudge
       /\ j.ndp = iface.ndp
       /\ Same(iface, j, {"link", "judgment", "network"})
  BY <1>3 DEF Same
<1>13. /\ UNCHANGED <<observed, config, policy, watch, events, full>>
       /\ converge => converge'
       /\ reconcile'
  BY <1>2, <1>12
<1> QED
  BY <1>1, <1>2, <1>3, <1>4, <1>6, <1>7, <1>8, <1>9, <1>11, <1>13 DEF ClientStep

(***************************************************************************)
(* Every event of a client is such a step.                                 *)
(***************************************************************************)
LEMMA ClientSteps ==
    ASSUME TypeOK, IfaceOK, Clients
    PROVE  ClientStep
  BY BoundStep, RebootEndsStep, NoOfferStep, LostStep, RouterAdvertStep, Dhcp6ReplyStep,
     RouterExpiresStep DEF Clients

(***************************************************************************)
(* Such a step keeps the invariant. The one that matters is a lease lost   *)
(* without OnExpiry = Keep: the decision left unmade is covered because    *)
(* the kernel still carries the address, so that the reconcile asked for   *)
(* will change it.                                                         *)
(***************************************************************************)
LEMMA ClientStepInv ==
    ASSUME TypeOK, IInv, ClientStep
    PROVE  TypeOK' /\ IInv'
<1>1. TypeOK'
  <2>1. /\ UNCHANGED <<kernel, observed, lan, registry, written, config, policy, watch, events, full>>
        /\ iface' \in Interface /\ converge' \in BOOLEAN /\ reconcile' \in BOOLEAN
        /\ pc' = "loop" /\ stage' \in 1 .. 8
    BY Zenon DEF ClientStep, LoopStep
  <2>2. stage' \in 0 .. 8
    BY <2>1
  <2> QED
    BY <2>1, <2>2, Zenon DEF TypeOK
<1>2. IfaceOK'
  <2>1. Recorded(iface', registry')
    BY Zenon DEF IInv, IfaceOK, ClientStep, LoopStep, Recorded, NetId, Same
  <2>2. lan # None => Here(iface)'
    BY Zenon DEF IInv, IfaceOK, ClientStep
  <2> QED
    BY <2>1, <2>2, Zenon DEF IfaceOK, ClientStep, LoopStep, Held, Belongs, managed, profile, Recorded, NetId
<1>3. LoopOK' /\ KernelOK'
  <2>1. KernelOK'
    BY Zenon DEF IInv, KernelOK, ClientStep, LoopStep
  <2>2. pc' = "loop" /\ stage' \in 1 .. 8
    BY DEF ClientStep, LoopStep
  <2>3. LoopOK'
    BY <2>2 DEF LoopOK
  <2> QED
    BY <2>1, <2>3
<1>4. LinkSynced'
  BY ZenonT(30) DEF IInv, LinkSynced, ClientStep, LoopStep, Same
<1>5. KernelMatches'
  <2> SUFFICES ASSUME ~events', ~converge', ~reconcile', ~Rejudging', desired(iface') # None
               PROVE  Matches(kernel', desired(iface'))
    BY Zenon DEF KernelMatches, ClientStep, LoopStep
  <2>1. ~iface'.rejudge /\ ~Rejudging
    BY Zenon DEF Rejudging, ClientStep
  <2>2. desired(iface') = desired(iface)
    BY <2>1, DesiredSame, ZenonT(30) DEF ClientStep, Same
  <2> QED
    BY <2>1, <2>2, Zenon DEF IInv, KernelMatches, ClientStep, LoopStep, Matches
<1>6. LeaseCarried'
  BY Zenon DEF IInv, LeaseCarried, ClientStep, LoopStep, Rejudging
<1>7. Decided'
  <2> SUFFICES ASSUME ~events', ~watch', ~Rejudging', ~converge'
               PROVE  \/ Settled(iface', registry', observed', policy')
                      \/ reconcile' /\ Stray'
    BY Zenon DEF Decided, ClientStep, LoopStep
  <2>1. /\ ~events /\ ~watch /\ ~Rejudging /\ ~converge /\ pc = "loop" /\ ~iface'.rejudge
        /\ iface # None /\ iface' # None
    BY Zenon DEF Rejudging, ClientStep, LoopStep
  <2>2. /\ UNCHANGED <<registry, observed, policy, kernel>>
        /\ iface'.ndp = iface.ndp
        /\ iface'.lease = iface.lease \/ (iface'.lease = None /\ reconcile')
        /\ iface.dhcp # None => iface'.dhcp # None
        /\ iface'.restart \in {iface.restart, None}
        /\ iface'.link = iface.link /\ iface'.judgment = iface.judgment /\ iface'.network = iface.network
        /\ reconcile => reconcile'
    BY <2>1, Zenon DEF ClientStep, LoopStep, Same
  <2>3. Settled(iface, registry, observed, policy) \/ (reconcile /\ Stray)
    BY <2>1, SMTT(20) DEF IInv, Decided
  <2>4. CASE iface'.lease = iface.lease
    <3>1. /\ Identifiable(iface') = Identifiable(iface) /\ identity(iface') = identity(iface)
          /\ facts(iface') = facts(iface)
      BY <2>2, <2>4, Zenon DEF Identifiable, identity, facts, managed
    <3>2. Settled(iface, registry, observed, policy) => Settled(iface', registry', observed', policy')
      BY <2>2, <2>4, <3>1, Zenon DEF Settled
    <3>3. Stray => Stray'
      BY <2>2, <2>4, Zenon DEF Stray
    <3> QED
      BY <2>2, <2>3, <3>2, <3>3
  <2>5. CASE iface'.lease # iface.lease
    <3>1. iface.lease # None /\ iface'.lease = None /\ reconcile'
      BY <2>2, <2>5, ZenonT(30)
    <3>2. iface.dhcp # None /\ iface.restart = None
      BY <2>1, <3>1, Zenon DEF IInv, IfaceOK, Held
    <3>3. iface.lease.address \in kernel.addresses
      BY <2>1, <3>1 DEF IInv, LeaseCarried
    <3>4. iface.lease.address \in Leasable
      BY <2>1, <3>1 DEF TypeOK, Interface, Lease
    <3> QED
      BY <2>2, <3>1, <3>2, <3>3, <3>4 DEF Stray
  <2> QED
    BY <2>4, <2>5
<1>8. Published'
  <2> SUFFICES ASSUME ~converge', ~reconcile', ~Rejudging'
               PROVE  published' = snapshot(iface', observed')
    BY SMTT(20) DEF Published
  <2>1. ~iface'.rejudge /\ ~Rejudging /\ ~converge /\ ~reconcile
    BY DEF Rejudging, ClientStep
  <2>2. Same(iface, iface', {"link", "judgment", "lease", "ndp", "dhcp6"})
    BY <2>1, Zenon DEF ClientStep, Same
  <2>3. snapshot(iface', observed) = snapshot(iface, observed)
    BY <2>2, SnapshotSame, Zenon DEF ClientStep
  <2> QED
    BY <2>1, <2>3, Zenon DEF IInv, Published, ClientStep, LoopStep
<1> QED
  BY <1>1, <1>2, <1>3, <1>4, <1>5, <1>6, <1>7, <1>8 DEF IInv

(***************************************************************************)
(* The other steps                                                         *)
(***************************************************************************)
\* A step of the world.
WorldStep ==
    /\ events' = TRUE
    /\ kernel' \in Kernel /\ lan' \in Lans \cup {None}
    /\ kernel'.carrier => lan' # None
    /\ ~kernel'.up => kernel'.routes = {}
    /\ lan' = lan \/ lan' = None \/ SeenOut
    /\ UNCHANGED <<written, registry, iface, observed, config, policy, watch, stage, converge,
                   reconcile, pc, full, pass, published>>

(***************************************************************************)
(* Every step of the world is notified, and leaves a kernel that is well   *)
(* formed.                                                                 *)
(***************************************************************************)
LEMMA WorldSteps ==
    ASSUME TypeOK, KernelOK, World
    PROVE  WorldStep
<1> USE DEF KernelMoves, generation, loop
<1>1. /\ kernel \in Kernel /\ lan \in Lans \cup {None} /\ kernel.index \in Nat
      /\ kernel.carrier => lan # None
      /\ ~kernel.up => kernel.routes = {}
  BY DEF TypeOK, KernelOK, Kernel
<1>2. CASE Unplug
  <2>1. kernel' \in Kernel /\ kernel'.carrier = FALSE /\ kernel'.up = kernel.up /\ kernel'.routes = kernel.routes
    BY <1>1, <1>2, Zenon DEF Unplug, Kernel
  <2> QED
    BY <1>1, <1>2, <2>1 DEF Unplug, WorldStep
<1>3. CASE Plug
  <2>1. kernel' \in Kernel /\ kernel'.up = kernel.up /\ kernel'.routes = kernel.routes
    BY <1>1, <1>3 DEF Plug, Kernel
  <2>2. lan' \in Lans /\ lan' # None
    BY <1>3, NoneApart DEF Plug
  <2> QED
    BY <1>1, <1>3, <2>1, <2>2 DEF Plug, WorldStep
<1>4. CASE CarrierComes
  <2>1. kernel' \in Kernel /\ kernel'.up = kernel.up /\ kernel'.routes = kernel.routes
    BY <1>1, <1>4, Zenon DEF CarrierComes, Kernel
  <2> QED
    BY <1>1, <1>4, <2>1 DEF CarrierComes, WorldStep
<1>5. CASE DadDone
  <2>1. /\ kernel' \in Kernel /\ kernel'.up = kernel.up /\ kernel'.routes = kernel.routes
        /\ kernel'.carrier = kernel.carrier
    BY <1>1, <1>5 DEF DadDone, Kernel
  <2> QED
    BY <1>1, <1>5, <2>1 DEF DadDone, WorldStep
<1>6. CASE AdminDown
  <2>1. kernel' \in Kernel /\ ~kernel'.carrier /\ kernel'.routes = {}
    BY <1>1, <1>6, LoweredType, Zenon DEF AdminDown
  <2> QED
    BY <1>1, <1>6, <2>1, Zenon DEF AdminDown, WorldStep
<1>7. CASE Disappear
  <2> DEFINE l == Lowered(kernel)
  <2>1. l \in Kernel /\ ~l.carrier /\ l.routes = {}
    BY <1>1, LoweredType
  <2>2. kernel' = [l EXCEPT !.present = FALSE, !.addresses = {}]
    BY <1>7 DEF Disappear
  <2> HIDE DEF l
  <2>3. kernel' \in Kernel /\ ~kernel'.carrier /\ kernel'.routes = {}
    BY <2>1, <2>2, Zenon DEF Kernel
  <2> QED
    BY <1>1, <1>7, <2>3, SMTT(20) DEF Disappear, WorldStep
<1>8. CASE Appear
  <2> DEFINE n == kernel.index + 1
  <2>0. n \in Nat /\ kernel' = [kernel EXCEPT !.present = TRUE, !.index = n]
    BY <1>1, <1>8 DEF Appear
  <2> HIDE DEF n
  <2>1. /\ kernel' \in Kernel /\ kernel'.up = kernel.up /\ kernel'.routes = kernel.routes
        /\ kernel'.carrier = kernel.carrier
    BY <1>1, <2>0, Zenon DEF Kernel
  <2> QED
    BY <1>1, <1>8, <2>1 DEF Appear, WorldStep
<1> QED
  BY <1>2, <1>3, <1>4, <1>5, <1>6, <1>7, <1>8 DEF World

(***************************************************************************)
(* A step of the world keeps the invariant: what it may falsify is only    *)
(* said when no notification waits. A cable that comes in again finds no   *)
(* network, because netd saw it out.                                       *)
(***************************************************************************)
LEMMA WorldStepInv ==
    ASSUME TypeOK, IInv, WorldStep
    PROVE  TypeOK' /\ IInv'
<1>1. TypeOK'
  BY DEF TypeOK, WorldStep
<1>2. IfaceOK'
  <2> SUFFICES ASSUME iface # None
               PROVE  lan' # None => Here(iface)'
    BY Zenon DEF IInv, IfaceOK, WorldStep, Held, Belongs, Recorded, NetId, managed, profile
  <2>1. CASE lan' = lan
    BY <2>1, Zenon DEF IInv, IfaceOK, WorldStep, Here, IdentitiesOf
  <2>2. CASE SeenOut
    <3>1. iface.dhcp = None /\ iface.ndp = None /\ iface.network = None
      BY <2>2, ZenonT(30) DEF SeenOut, IInv, IfaceOK, Belongs
    <3>2. iface.lease = None
      BY <3>1 DEF IInv, IfaceOK, Held
    <3> QED
      BY <3>1, <3>2, Zenon DEF WorldStep, Here
  <2> QED
    BY <2>1, <2>2 DEF WorldStep
<1>3. LoopOK' /\ KernelOK' /\ LinkSynced' /\ KernelMatches' /\ LeaseCarried' /\ Decided'
  BY Zenon DEF IInv, WorldStep, LoopOK, Rejudging, KernelOK, LinkSynced, KernelMatches, LeaseCarried, Decided
<1>4. Published'
  BY Zenon DEF IInv, WorldStep, Published, Rejudging
<1> QED
  BY <1>1, <1>2, <1>3, <1>4 DEF IInv

(***************************************************************************)
(* The backstop is a policy.                                               *)
(***************************************************************************)
LEMMA BackstopType == Backstop \in Policy
  BY DEF Backstop, Policy, Outcome

(***************************************************************************)
(* A layer that builds is a policy.                                        *)
(***************************************************************************)
LEMMA PolicyType ==
    ASSUME NEW p \in Policies, p # Broken
    PROVE  p \in Policy
  BY DaemonAssumption

(***************************************************************************)
(* main starts with a full pass ahead of it.                               *)
(***************************************************************************)
LEMMA InitInv == Init => TypeOK /\ IInv
<1> SUFFICES ASSUME Init
             PROVE  TypeOK /\ IInv
  OBVIOUS
<1>1. /\ kernel \in Kernel /\ kernel.routes = {} /\ (kernel.carrier => lan # None)
  <2>1. PICK up \in BOOLEAN :
           kernel = [present |-> TRUE, index |-> 1, up |-> up, carrier |-> up /\ lan # None,
                     addresses |-> {}, routes |-> {},
                     link_local |-> IF up THEN "ready" ELSE "none"]
    BY Zenon DEF Init
  <2> DEFINE c == up /\ lan # None
             s == IF up THEN "ready" ELSE "none"
  <2>2. c \in BOOLEAN /\ (c => lan # None) /\ s \in {"none", "tentative", "ready"}
    OBVIOUS
  <2>3. kernel = [present |-> TRUE, index |-> 1, up |-> up, carrier |-> c,
                  addresses |-> {}, routes |-> {}, link_local |-> s]
    BY <2>1, Zenon
  <2> HIDE DEF c, s
  <2> QED
    BY <2>2, <2>3 DEF Kernel
<1>2. registry \in Registry
  BY DaemonAssumption, Zenon DEF Init, Registry
<1>3. policy \in Policy
  BY BackstopType, PolicyType, DaemonAssumption, Zenon DEF Init
<1>4. TypeOK
  <2>1. stage \in 0 .. 8 /\ pc \in {"loop", "pass", "dump"}
    BY DEF Init
  <2>2. watch \in BOOLEAN /\ events \in BOOLEAN /\ full \in BOOLEAN /\ converge \in BOOLEAN /\ reconcile \in BOOLEAN
    BY Zenon DEF Init
  <2>3. observed = kernel /\ lan \in Lans \cup {None} /\ iface = None /\ written \in Policies /\ config = written
    BY DaemonAssumption, Zenon DEF Init
  <2> QED
    BY <1>1, <1>2, <1>3, <2>1, <2>2, <2>3, ZenonT(30) DEF TypeOK
<1>5. IInv
  BY <1>1, Zenon DEF Init, IInv, IfaceOK, LoopOK, KernelOK, LinkSynced, KernelMatches, LeaseCarried, Decided,
              Published, Rejudging
<1> QED
  BY <1>4, <1>5

(***************************************************************************)
(* So does a netd started again, whatever the kernel carries by then.      *)
(***************************************************************************)
LEMMA RestartsInv ==
    ASSUME TypeOK, IInv, Restarts
    PROVE  TypeOK' /\ IInv'
<1> USE DEF Restarts, Booted, world
<1>1. policy' \in Policy
  BY BackstopType, PolicyType DEF TypeOK
<1>2. TypeOK'
  <2>1. stage' \in 0 .. 8 /\ pc' \in {"loop", "pass", "dump"}
    OBVIOUS
  <2>2. watch' \in BOOLEAN /\ events' \in BOOLEAN /\ full' \in BOOLEAN /\ converge' \in BOOLEAN /\ reconcile' \in BOOLEAN
    BY Zenon
  <2>3. UNCHANGED <<kernel, lan, written, registry>> /\ observed' = kernel /\ iface' = None /\ config' = written
    OBVIOUS
  <2> QED
    BY <1>1, <2>1, <2>2, <2>3, Zenon DEF TypeOK
<1>3. IInv'
  BY Zenon DEF IInv, IfaceOK, LoopOK, KernelOK, LinkSynced, KernelMatches, LeaseCarried, Decided,
         Published, Rejudging
<1> QED
  BY <1>2, <1>3

\* A handler that asks for a full pass.
ConvergeStep ==
    /\ LoopStep
    /\ converge'
    /\ UNCHANGED iface
    /\ observed' \in Kernel /\ policy' \in Policy /\ config' \in Policies
    /\ watch' \in BOOLEAN /\ events' \in BOOLEAN /\ full' = full
    /\ ~events' => observed' = kernel

(***************************************************************************)
(* Reading notifications, reloading and `net reconcile` ask for a full     *)
(* pass.                                                                   *)
(***************************************************************************)
LEMMA ConvergeSteps ==
    ASSUME TypeOK, KernelOK, DrainEvents \/ Reload \/ ControlReconcile
    PROVE  ConvergeStep
<1>1. CASE DrainEvents
  <2>1. /\ pc = "loop" /\ UNCHANGED <<world, registry, pc, full, pass, published>>
        /\ stage' \in 1 .. 8
    BY <1>1, LoopFacts DEF DrainEvents
  <2> QED
    BY <1>1, <2>1, Zenon DEF DrainEvents, ConvergeStep, LoopStep, TypeOK, generation, world
<1>2. CASE Reload
  <2>1. policy' \in Policy
    BY <1>2, PolicyType DEF Reload, take_generation, TypeOK
  <2>2. /\ pc = "loop" /\ UNCHANGED <<world, registry, pc, full, pass, published>>
        /\ stage' \in 1 .. 8
    BY <1>2, LoopFacts DEF Reload
  <2> QED
    BY <1>2, <2>1, <2>2, Zenon DEF Reload, ConvergeStep, LoopStep, TypeOK, KernelOK, world
<1>3. CASE ControlReconcile
  <2>1. /\ pc = "loop" /\ UNCHANGED <<world, registry, pc, full, pass, published>>
        /\ stage' \in 1 .. 8
    BY <1>3, LoopFacts DEF ControlReconcile
  <2> QED
    BY <1>3, <2>1, Zenon DEF ControlReconcile, ConvergeStep, LoopStep, TypeOK, KernelOK, generation, inputs, world
<1> QED
  BY <1>1, <1>2, <1>3

(***************************************************************************)
(* A handler that asks for a full pass keeps the invariant: what it may    *)
(* falsify is only said when none is due.                                  *)
(***************************************************************************)
LEMMA ConvergeStepInv ==
    ASSUME TypeOK, IInv, ConvergeStep
    PROVE  TypeOK' /\ IInv'
<1>1. TypeOK'
  BY DEF TypeOK, ConvergeStep, LoopStep
<1>2. IfaceOK'
  BY Zenon DEF IInv, IfaceOK, ConvergeStep, LoopStep, Held, Belongs, Recorded, NetId, Here, IdentitiesOf,
         managed, profile
<1>3. LoopOK'
  BY DEF IInv, ConvergeStep, LoopStep, LoopOK, Rejudging
<1>4. KernelOK'
  BY Zenon DEF IInv, ConvergeStep, LoopStep, KernelOK
<1>5. LinkSynced'
  BY Zenon DEF ConvergeStep, LoopStep, LinkSynced
<1>6. KernelMatches' /\ LeaseCarried'
  BY Zenon DEF ConvergeStep, LoopStep, KernelMatches, LeaseCarried
<1>7. Decided' /\ Published'
  BY Zenon DEF ConvergeStep, LoopStep, Decided, Published
<1> QED
  BY <1>1, <1>2, <1>3, <1>4, <1>5, <1>6, <1>7, Zenon DEF IInv

(***************************************************************************)
(* A write to the registry keeps the invariant: the watch has it.          *)
(***************************************************************************)
LEMMA OperatorInv ==
    ASSUME TypeOK, IInv,
           \/ \E p \in Policies : WritePolicy(p)
           \/ \E n \in Networks, l \in Labels : WriteLabel(n, l)
    PROVE  TypeOK' /\ IInv'
<1>1. /\ Operator /\ written' \in Policies /\ registry' \in Registry
      /\ registry'.network = registry.network /\ registry'.last_network = registry.last_network
  <2>1. CASE \E p \in Policies : WritePolicy(p)
    BY <2>1 DEF WritePolicy, TypeOK
  <2>2. CASE \E n \in Networks, l \in Labels : WriteLabel(n, l)
    <3>1. PICK n \in Networks, l \in Labels : WriteLabel(n, l)
      BY <2>2
    <3> QED
      BY <3>1 DEF WriteLabel, TypeOK, Registry
  <2> QED
    BY <2>1, <2>2
<1> USE DEF Operator, generation, loop
<1>2. TypeOK'
  BY <1>1 DEF TypeOK
<1>3. IfaceOK'
  BY <1>1, Zenon DEF IInv, IfaceOK, Held, Belongs, Recorded, NetId, Here, IdentitiesOf, managed, profile
<1>4. LoopOK' /\ KernelOK' /\ LinkSynced' /\ KernelMatches' /\ LeaseCarried' /\ Decided' /\ Published'
  BY <1>1, ZenonT(30) DEF IInv, LoopOK, Rejudging, KernelOK, LinkSynced, KernelMatches,
         LeaseCarried, Decided, Published, Matches
<1> QED
  BY <1>2, <1>3, <1>4 DEF IInv

(***************************************************************************)
(* The end of the iteration turns what handlers asked for into a pass, or  *)
(* into sleep.                                                             *)
(***************************************************************************)
LEMMA ActInv ==
    ASSUME TypeOK, IInv, Act
    PROVE  TypeOK' /\ IInv'
<1> DEFINE all == converge \/ (iface # None /\ iface.rejudge)
<1>1. /\ pc = "loop" /\ stage > 0
      /\ stage' = 0 /\ converge' = FALSE /\ reconcile' = FALSE
      /\ UNCHANGED <<kernel, lan, written, registry, iface, observed, config, policy, watch, events, published>>
  BY DEF Act, world, generation, inputs
<1>2. \/ (all \/ reconcile) /\ pc' = "pass" /\ full' = all
      \/ ~all /\ ~reconcile /\ pc' = pc /\ full' = full
  BY DEF Act
<1>3. all \in BOOLEAN /\ (all <=> converge \/ Rejudging)
  BY DEF TypeOK, Rejudging, Interface
<1> HIDE DEF all
<1>4. TypeOK'
  <2>1. stage' \in 0 .. 8 /\ pc' \in {"loop", "pass", "dump"}
    BY <1>1, <1>2
  <2>2. full' \in BOOLEAN /\ converge' \in BOOLEAN /\ reconcile' \in BOOLEAN
    BY <1>1, <1>2, <1>3, Zenon DEF TypeOK
  <2> QED
    BY <1>1, <2>1, <2>2 DEF TypeOK
<1>5. Rejudging' = Rejudging
  BY <1>1 DEF Rejudging
<1>6. IfaceOK'
  BY <1>1, Zenon DEF IInv, IfaceOK, Held, Belongs, Recorded, NetId, Here, IdentitiesOf, managed, profile
<1>7. LoopOK'
  BY <1>1, <1>2, <1>3, <1>5 DEF LoopOK
<1>8. KernelOK'
  BY <1>1 DEF IInv, KernelOK
<1>9. LinkSynced'
  BY <1>1, <1>2, <1>3 DEF IInv, LinkSynced
<1>10. KernelMatches'
  BY <1>1, <1>2, <1>3, <1>5, SMTT(20) DEF IInv, KernelMatches
<1>11. LeaseCarried'
  BY <1>1, <1>2, <1>3, <1>5 DEF IInv, LeaseCarried
<1>12. Decided'
  BY <1>1, <1>2, <1>3, <1>5, Zenon DEF IInv, Decided, Stray
<1>13. Published'
  BY <1>1, <1>2, <1>3, <1>5 DEF IInv, Published
<1> QED
  BY <1>4, <1>6, <1>7, <1>8, <1>9, <1>10, <1>11, <1>12, <1>13 DEF IInv

(***************************************************************************)
(* What a pass leaves, full or not.                                        *)
(***************************************************************************)
LEMMA PassFacts ==
    ASSUME TypeOK, IInv, Pass
    PROVE  /\ iface' \in Interface \cup {None} /\ registry' \in Registry
           /\ iface' # None => /\ Good(iface') /\ Recorded(iface', registry')
                               /\ iface'.rejudge = FALSE
                               /\ lan # None => Here(iface')
           /\ ~events => \/ iface' = None /\ ~observed.present
                         \/ iface' # None /\ observed.present /\ iface'.link = LinkOf(observed)
           /\ ~events /\ ~watch /\ registry' = registry /\ iface' # None =>
                 \/ Settled(iface', registry, observed, policy)
                 \/ /\ iface'.dhcp # None /\ iface'.lease = None /\ iface'.restart = None
                    /\ kernel.addresses \cap Leasable # {}
<1>1. CASE full
  <2>1. PICK opens \in SUBSET Sockets : iface' = Round(opens).iface /\ registry' = Round(opens).registry
    BY <1>1 DEF Pass
  <2> DEFINE j == Round(opens).iface
             r == Round(opens).registry
  <2>2. /\ r \in Registry
        /\ ~observed.present => j = None
        /\ observed.present =>
              /\ Good(j) /\ Recorded(j, r)
              /\ j.link = LinkOf(observed) /\ j.rejudge = FALSE
              /\ (iface # None => Here(iface)) => Here(j)
              /\ r = registry => Settled(j, registry, observed, policy)
    BY RoundOK, Zenon DEF IInv, IfaceOK
  <2>3. lan # None /\ iface # None => Here(iface)
    BY DEF IInv, IfaceOK
  <2> HIDE DEF j, r
  <2>4. observed.present => j \in Interface /\ j # None
    BY <2>2, NoneApart, Zenon DEF Good
  <2>5. iface' = j /\ registry' = r
    BY <2>1 DEF j, r
  <2> QED
    BY <2>2, <2>3, <2>4, <2>5, Zenon
<1>2. CASE ~full
  <2>1. iface' = iface /\ registry' = registry /\ pc = "pass"
    BY <1>2 DEF Pass
  <2>2. ~Rejudging
    BY <1>2, <2>1 DEF IInv, LoopOK
  <2>3. iface # None => /\ Good(iface) /\ Recorded(iface, registry)
                        /\ iface.rejudge = FALSE
                        /\ lan # None => Here(iface)
    BY <2>2 DEF IInv, IfaceOK, Good, TypeOK, Rejudging, Interface
  <2>4. ~events => \/ iface = None /\ ~observed.present
                   \/ iface # None /\ observed.present /\ iface.link = LinkOf(observed)
    BY <1>2, <2>1 DEF IInv, LinkSynced
  <2>5. ~events /\ ~watch /\ iface # None => Settled(iface, registry, observed, policy) \/ Stray
    BY <1>2, <2>1, <2>2 DEF IInv, Decided
  <2> QED
    BY <2>1, <2>3, <2>4, <2>5, Zenon DEF TypeOK, Stray
<1> QED
  BY <1>1, <1>2, Zenon DEF TypeOK

(***************************************************************************)
(* A pass keeps the invariant. If it changed nothing it found everything   *)
(* as desired; that also rules out a lost lease whose address is still     *)
(* there.                                                                  *)
(***************************************************************************)
LEMMA PassInv ==
    ASSUME TypeOK, IInv, Pass
    PROVE  TypeOK' /\ IInv'
<1>1. /\ iface' \in Interface \cup {None} /\ registry' \in Registry
      /\ iface' # None => /\ Good(iface') /\ Recorded(iface', registry')
                          /\ iface'.rejudge = FALSE
                          /\ lan # None => Here(iface')
      /\ ~events => \/ iface' = None /\ ~observed.present
                    \/ iface' # None /\ observed.present /\ iface'.link = LinkOf(observed)
      /\ ~events /\ ~watch /\ registry' = registry /\ iface' # None =>
            \/ Settled(iface', registry, observed, policy)
            \/ /\ iface'.dhcp # None /\ iface'.lease = None /\ iface'.restart = None
               /\ kernel.addresses \cap Leasable # {}
  BY PassFacts, Zenon
<1>2. /\ pc = "pass" /\ pc' = "dump" /\ Apply(iface')
      /\ events' = (events \/ kernel' # kernel)
      /\ watch' = (watch \/ registry' # registry)
      /\ UNCHANGED <<lan, written, observed, config, policy, stage, converge, reconcile, full, published>>
  BY SMTT(20) DEF Pass, generation
<1>3. /\ kernel' \in Kernel
      /\ kernel'.carrier => lan # None
      /\ ~kernel'.up => kernel'.routes = {}
      /\ iface' # None /\ ~events /\ kernel' = kernel /\ observed.present /\ desired(iface') # None
            => Matches(kernel, desired(iface'))
  <2> DEFINE i == iface'
  <2>1. i \in Interface \cup {None} /\ Apply(i)
    BY <1>1, <1>2, Zenon
  <2> HIDE DEF i
  <2>2. /\ kernel' \in Kernel
        /\ kernel'.carrier => lan # None
        /\ ~kernel'.up => kernel'.routes = {}
        /\ i # None /\ ~events /\ kernel' = kernel /\ observed.present /\ desired(i) # None
              => Matches(kernel, desired(i))
    BY <1>2, <2>1, ApplyOK, Zenon DEF IInv
  <2> QED
    BY <2>2, Zenon DEF i
<1>4. TypeOK'
  <2>1. watch' \in BOOLEAN /\ events' \in BOOLEAN
    BY <1>2 DEF TypeOK
  <2> QED
    BY <1>1, <1>2, <1>3, <2>1, Zenon DEF TypeOK
<1>5. ~Rejudging'
  BY <1>1, Zenon DEF Rejudging
<1>6. IfaceOK'
  <2>1. ASSUME iface' # None, lan # None
        PROVE  Here(iface)'
    BY <1>1, <1>2, <2>1, Zenon DEF Here, IdentitiesOf
  <2>2. ASSUME iface' # None
        PROVE  (Held(iface) /\ Belongs(iface) /\ Recorded(iface, registry))'
    BY <1>1, <2>2, Zenon DEF Good, Held, Belongs, Recorded, NetId, managed, profile
  <2> QED
    BY <1>2, <2>1, <2>2 DEF IfaceOK
<1>7. LoopOK'
  BY <1>2, <1>5 DEF IInv, LoopOK
<1>8. KernelOK'
  BY <1>2, <1>3, Zenon DEF IInv, KernelOK
<1>9. LinkSynced'
  BY <1>1, <1>2, Zenon DEF LinkSynced, LinkOf
<1>10. ~events' => ~events /\ kernel' = kernel
  BY <1>2, Zenon
<1>11. KernelMatches'
  <2> SUFFICES ASSUME ~events', iface' # None, desired(iface') # None
               PROVE  Matches(kernel', desired(iface'))
    BY DEF KernelMatches
  <2> QED
    BY <1>1, <1>3, <1>10, Zenon
<1>12. LeaseCarried'
  <2> SUFFICES ASSUME ~events', iface' # None, iface'.lease # None
               PROVE  iface'.lease.address \in kernel'.addresses
    BY DEF LeaseCarried
  <2> DEFINE i == iface'
  <2>1. Good(i) /\ i.lease # None
    BY <1>1, Zenon
  <2> HIDE DEF i
  <2>2. desired(i) # None /\ i.lease.address \in desired(i).addresses
    <3>1. i.dhcp # None
      BY <2>1 DEF Good, Held
    <3> QED
      BY <2>1, <3>1, DesiredOfClient, Zenon
  <2>3. Matches(kernel, desired(i)) /\ kernel' = kernel
    BY <1>1, <1>3, <1>10, <2>2, Zenon DEF i
  <2> QED
    BY <2>2, <2>3 DEF Matches, i
<1>13. Decided'
  <2> SUFFICES ASSUME ~events', ~watch', iface' # None
               PROVE  Settled(iface', registry', observed', policy')
    BY <1>2 DEF Decided
  <2>1. ~events /\ kernel' = kernel /\ ~watch /\ registry' = registry /\ observed' = observed /\ policy' = policy
    BY <1>2, Zenon
  <2>2. ASSUME iface'.dhcp # None, iface'.lease = None, iface'.restart = None,
               kernel.addresses \cap Leasable # {}
        PROVE  FALSE
    <3> DEFINE i == iface'
    <3>1. Good(i) /\ i.dhcp # None /\ i.lease = None /\ i.restart = None
      BY <1>1, <2>2, ZenonT(30)
    <3> HIDE DEF i
    <3>2. desired(i) # None /\ desired(i).addresses \subseteq {Static, LinkLocal4, Slaac}
      BY <3>1, DesiredOfClient
    <3>3. Matches(kernel, desired(i))
      BY <1>1, <1>3, <2>1, <3>2, Zenon DEF i
    <3>4. kernel.addresses \cap Leasable = {}
      BY <3>2, <3>3, DistinctAssumption, Zenon DEF Matches
    <3> QED
      BY <2>2, <3>4
  <2> QED
    BY <1>1, <2>1, <2>2, Zenon
<1>14. Published'
  BY <1>2 DEF Published
<1> QED
  BY <1>4, <1>6, <1>7, <1>8, <1>9, <1>11, <1>12, <1>13, <1>14 DEF IInv

(***************************************************************************)
(* The dump after a pass, and the publish after the last.                  *)
(***************************************************************************)
LEMMA DumpInv ==
    ASSUME TypeOK, IInv, Dump
    PROVE  TypeOK' /\ IInv'
<1>1. /\ pc = "dump" /\ observed' = kernel
      /\ UNCHANGED <<kernel, lan, written, registry, iface, config, policy, watch, events, stage,
                     converge, reconcile, full>>
  BY DEF Dump, world, generation, inputs
<1>2. \/ full /\ pc' = "pass"
      \/ pc' = "loop" /\ published' = snapshot(iface, kernel)
  BY DEF Dump
<1>3. ~converge /\ ~reconcile /\ ~Rejudging
  BY <1>1 DEF IInv, LoopOK
<1>4. ~events => observed' = observed
  BY <1>1 DEF IInv, KernelOK
<1>5. TypeOK'
  BY <1>1, <1>2 DEF TypeOK
<1>6. ~Rejudging'
  BY <1>1, <1>3 DEF Rejudging
<1>7. IfaceOK'
  BY <1>1, Zenon DEF IInv, IfaceOK, Held, Belongs, Recorded, NetId, Here, IdentitiesOf, managed, profile
<1>8. LoopOK'
  BY <1>1, <1>3, <1>6 DEF LoopOK
<1>9. KernelOK'
  BY <1>1, Zenon DEF IInv, KernelOK
<1>10. LinkSynced'
  BY <1>1, <1>4 DEF IInv, LinkSynced
<1>11. KernelMatches'
  BY <1>1, <1>2, SMTT(20) DEF IInv, KernelMatches
<1>12. LeaseCarried'
  BY <1>1, <1>2, <1>3, SMTT(20) DEF IInv, LeaseCarried
<1>13. Decided'
  BY <1>1, <1>2, <1>3, <1>4 DEF IInv, Decided
<1>14. Published'
  BY <1>1, <1>2 DEF Published
<1> QED
  BY <1>5, <1>7, <1>8, <1>9, <1>10, <1>11, <1>12, <1>13, <1>14 DEF IInv

(***************************************************************************)
(* Stuttering keeps the invariant.                                         *)
(***************************************************************************)
LEMMA StutterInv ==
    ASSUME TypeOK, IInv, UNCHANGED vars
    PROVE  TypeOK' /\ IInv'
<1> USE DEF vars, world, generation, inputs, loop
<1>1. TypeOK'
  BY DEF TypeOK
<1>2. IfaceOK'
  BY Zenon DEF IInv, IfaceOK, Held, Belongs, Recorded, NetId, Here, IdentitiesOf, managed, profile
<1>3. LoopOK' /\ KernelOK' /\ LinkSynced' /\ KernelMatches' /\ LeaseCarried' /\ Decided' /\ Published'
  BY ZenonT(30) DEF IInv, LoopOK, Rejudging, KernelOK, LinkSynced, KernelMatches, LeaseCarried, Decided, Published,
         Stray
<1> QED
  BY <1>1, <1>2, <1>3 DEF IInv

(***************************************************************************)
(* The inductive invariant holds throughout, for every policy, LAN, record *)
(* and bound.                                                              *)
(***************************************************************************)
THEOREM Invariance == Spec => [](TypeOK /\ IInv)
<1>1. Init => TypeOK /\ IInv
  BY InitInv
<1>2. TypeOK /\ IInv /\ [Next]_vars => TypeOK' /\ IInv'
  <2> SUFFICES ASSUME TypeOK, IInv, [Next]_vars
               PROVE  TypeOK' /\ IInv'
    OBVIOUS
  <2>1. CASE Clients
    BY <2>1, ClientSteps, ClientStepInv DEF IInv
  <2>2. CASE World
    BY <2>2, WorldSteps, WorldStepInv DEF IInv
  <2>3. CASE DrainEvents \/ Reload \/ ControlReconcile
    BY <2>3, ConvergeSteps, ConvergeStepInv DEF IInv
  <2>4. CASE Act
    BY <2>4, ActInv
  <2>5. CASE Pass
    BY <2>5, PassInv
  <2>6. CASE Dump
    BY <2>6, DumpInv
  <2>7. CASE Restarts
    BY <2>7, RestartsInv
  <2>8. CASE \/ \E p \in Policies : WritePolicy(p)
             \/ \E n \in Networks, l \in Labels : WriteLabel(n, l)
    BY <2>8, OperatorInv
  <2>9. CASE UNCHANGED vars
    BY <2>9, StutterInv
  <2> QED
    BY <2>1, <2>2, <2>3, <2>4, <2>5, <2>6, <2>7, <2>8, <2>9 DEF Next, Netd
<1> QED
  BY <1>1, <1>2, PTL DEF Spec

-----------------------------------------------------------------------------
(***************************************************************************)
(* What an interface holds is its client's, whatever the order of events,  *)
(* carrier changes and verdicts (Interface::perform, stop_dhcp,            *)
(* remember_restart, finish_restart).                                      *)
(***************************************************************************)
THEOREM HeldByClients == Spec => []HeldIsTheClients
<1>1. TypeOK /\ IInv => HeldIsTheClients
  BY Zenon DEF IInv, IfaceOK, Held, HeldIsTheClients
<1> QED
  BY <1>1, Invariance, PTL

(***************************************************************************)
(* Clients run only where they belong (start_dhcp_where_due,               *)
(* start_ipv6_where_due, sync_links).                                      *)
(***************************************************************************)
THEOREM RunWhereDue == Spec => []ClientsBelong
<1>1. TypeOK /\ IInv => ClientsBelong
  BY Zenon DEF IInv, IfaceOK, Belongs, ClientsBelong
<1> QED
  BY <1>1, Invariance, PTL

(***************************************************************************)
(* In poll, nothing is left to do from the iteration before.               *)
(***************************************************************************)
LEMMA AsleepFacts ==
    ASSUME TypeOK, IInv, Asleep
    PROVE  ~converge /\ ~reconcile /\ ~Rejudging /\ pc = "loop"
  BY SMTT(20) DEF IInv, LoopOK, Asleep, TypeOK

(***************************************************************************)
(* Status Network names a network the link is on (identify_networks,       *)
(* sync_links, inventory.sync).                                            *)
(***************************************************************************)
THEOREM NetworkTold == Spec => []NetworkIsHere
<1>1. TypeOK /\ IInv => NetworkIsHere
  <2> SUFFICES ASSUME TypeOK, IInv, Asleep, ~events, iface # None, registry.network # None
               PROVE  lan # None /\ registry.network \in IdentitiesOf(lan)
    BY DEF NetworkIsHere
  <2>1. iface.network # None /\ registry.network = iface.network.id
    BY DEF IInv, IfaceOK, Recorded, NetId
  <2>2. Carrier(iface.link)
    BY <2>1, Zenon DEF IInv, IfaceOK, Belongs
  <2>3. iface.link = LinkOf(observed) /\ observed = kernel
    BY AsleepFacts DEF IInv, LinkSynced, KernelOK
  <2>4. kernel.carrier
    BY <2>2, <2>3 DEF Carrier, LinkOf
  <2>5. lan # None
    BY <2>4 DEF IInv, KernelOK
  <2> QED
    BY <2>1, <2>5 DEF IInv, IfaceOK, Here
<1> QED
  BY <1>1, Invariance, PTL

(***************************************************************************)
(* A round finds nothing to change in an interface that is settled.        *)
(***************************************************************************)
LEMMA SettledRound ==
    ASSUME TypeOK, iface # None, Good(iface), Recorded(iface, registry), iface.rejudge = FALSE,
           observed.present, iface.link = LinkOf(observed),
           Settled(iface, registry, observed, policy)
    PROVE  Round({}) = [iface |-> iface, registry |-> registry]
<1>0. /\ iface \in Interface /\ registry \in Registry /\ observed \in Kernel
      /\ Held(iface) /\ Belongs(iface)
  BY DEF TypeOK, Good
<1>1. identify(iface, registry) = iface
  <2>1. CASE ~Identifiable(iface)
    BY <2>1 DEF identify
  <2>2. CASE Identifiable(iface)
    <3> DEFINE id == identity(iface)
    <3>1. iface.network = RecordOf(id, registry)
      BY <2>2, Zenon DEF Settled, RecordOf
    <3>2. id \in Networks
      BY <1>0, <2>2, IdentityType DEF Identifiable
    <3>3. iface.network # None /\ iface.network.id = id
      <4>1. RecordOf(id, registry) \in Record
        BY <1>0, <3>2, RecordType
      <4>2. RecordOf(id, registry).id = id
        BY Zenon DEF RecordOf
      <4> QED
        BY <3>1, <4>1, <4>2, NoneApart, Zenon
    <3>4. identify(iface, registry) =
            [iface EXCEPT !.network = RecordOf(id, registry),
                          !.rejudge = @ \/ iface.network = None \/ iface.network.id # id]
      BY <2>2 DEF identify, RecordOf
    <3> HIDE DEF id
    <3>5. (iface.rejudge \/ iface.network = None \/ iface.network.id # id) = FALSE
      BY <3>3, Zenon
    <3>6. identify(iface, registry) = [iface EXCEPT !.network = iface.network, !.rejudge = FALSE]
      BY <1>0, <3>1, <3>4, <3>5, Zenon DEF Interface
    <3>7. [iface EXCEPT !.network = iface.network] = iface /\ [iface EXCEPT !.rejudge = FALSE] = iface
      BY <1>0 DEF Interface
    <3>8. [iface EXCEPT !.network = iface.network, !.rejudge = FALSE]
             = [[iface EXCEPT !.network = iface.network] EXCEPT !.rejudge = FALSE]
      OBVIOUS
    <3> QED
      BY <3>6, <3>7, <3>8, Zenon
  <2> QED
    BY <2>1, <2>2
<1>2. set_requested_address(iface, registry) = registry
  <2>1. CASE ~(Identifiable(iface) /\ iface.lease # None)
    BY <2>1 DEF set_requested_address
  <2>2. CASE Identifiable(iface) /\ iface.lease # None
    <3> DEFINE n == iface.lease.network
    <3>1. registry.requested_address[n] = iface.lease.address
      BY <2>2, Zenon DEF Settled
    <3>2. n \in Networks
      BY <1>0, <2>2 DEF Interface, Lease, Networks
    <3>3. set_requested_address(iface, registry) = [registry EXCEPT !.requested_address[n] = iface.lease.address]
      BY <2>2 DEF set_requested_address
    <3> HIDE DEF n
    <3> QED
      BY <1>0, <3>1, <3>2, <3>3 DEF Registry
  <2> QED
    BY <2>1, <2>2, Zenon
<1>3. sync_links(iface, observed, policy) = iface
  <2>1. iface.link.index = observed.index
    <3>1. LinkOf(observed).index = observed.index
      BY Zenon DEF LinkOf
    <3> QED
      BY <3>1, Zenon
  <2>2. [iface EXCEPT !.link = LinkOf(observed), !.rejudge = FALSE] = iface
    BY <1>0, Zenon DEF Interface
  <2>3. CarrierSynced(iface, observed) = iface
    BY <2>1, <2>2 DEF CarrierSynced
  <2>4. judge(policy, facts(iface)) = iface.judgment
    BY Zenon DEF Settled
  <2>5. [iface EXCEPT !.judgment = iface.judgment] = iface
    BY <1>0 DEF Interface
  <2>6. Judged(iface, policy) = iface
    BY <2>4, <2>5 DEF Judged
  <2> QED
    BY <2>3, <2>6 DEF sync_links
<1>4. inventory_sync(iface, registry) = registry
  <2>1. CASE iface.network = None
    BY <1>0, <2>1 DEF inventory_sync, Recorded, NetId, Registry
  <2>2. CASE iface.network # None
    BY <1>0, <2>2, Zenon DEF inventory_sync, Recorded, NetId, Registry
  <2> QED
    BY <2>1, <2>2, Zenon
<1>5. start_dhcp_where_due(iface, observed, registry, {}) = iface
  BY <1>0, Zenon DEF start_dhcp_where_due, Belongs
<1>6. start_ipv6_where_due(iface, observed, {}) = iface
  <2>1. CASE ~managed(iface)
    BY <2>1 DEF start_ipv6_where_due
  <2>2. CASE managed(iface)
    <3>1. NdpWhereDue(iface, observed, {}) = iface
      BY <1>0 DEF NdpWhereDue, Belongs, Settled
    <3>2. [iface EXCEPT !.dhcp6 = iface.dhcp6] = iface
      BY <1>0 DEF Interface
    <3>3. iface.ndp = None \/ ~iface.ndp.dhcp6_wanted => iface.dhcp6 = None
      BY <1>0, Zenon DEF Belongs
    <3>4. Dhcp6WhereDue(iface, observed, {}) = iface
      BY <3>2, <3>3 DEF Dhcp6WhereDue
    <3> QED
      BY <2>2, <3>1, <3>4 DEF start_ipv6_where_due
  <2> QED
    BY <2>1, <2>2
<1> QED
  BY <1>1, <1>2, <1>3, <1>4, <1>5, <1>6, Zenon DEF Round

(***************************************************************************)
(* Asleep, what was published holds; and with nothing left to read another *)
(* round of converge would change nothing and the kernel carries what is   *)
(* desired (event_loop::run, Netd::converge, Netd::publish).               *)
(***************************************************************************)
THEOREM NothingLeftUndecided == Spec => []AsleepMeansSettled
<1>1. TypeOK /\ IInv => AsleepMeansSettled
  <2> SUFFICES ASSUME TypeOK, IInv, Asleep
               PROVE  AsleepMeansSettled
    BY Zenon DEF AsleepMeansSettled
  <2>1. ~converge /\ ~reconcile /\ ~Rejudging /\ pc = "loop"
    BY AsleepFacts
  <2>2. published = snapshot(iface, observed)
    BY <2>1 DEF IInv, Published
  <2>3. ASSUME ~events, ~watch
        PROVE  /\ Round({}) = [iface |-> iface, registry |-> registry]
               /\ iface # None => iface.link = LinkOf(kernel)
               /\ iface # None /\ desired(iface) # None =>
                     /\ kernel.up = desired(iface).up
                     /\ kernel.addresses = desired(iface).addresses
                     /\ kernel.routes = desired(iface).routes
    <3>1. observed = kernel
      BY <2>3 DEF IInv, KernelOK
    <3>2. \/ iface = None /\ ~observed.present
          \/ iface # None /\ observed.present /\ iface.link = LinkOf(observed)
      BY <2>1, <2>3 DEF IInv, LinkSynced
    <3>3. iface # None /\ desired(iface) # None => Matches(kernel, desired(iface))
      BY <2>1, <2>3 DEF IInv, KernelMatches
    <3>4. Round({}) = [iface |-> iface, registry |-> registry]
      <4>1. CASE iface = None
        BY <3>2, <4>1 DEF Round, sync_links, inventory_sync, start_dhcp_where_due, start_ipv6_where_due
      <4>2. CASE iface # None
        <5>1. Settled(iface, registry, observed, policy)
          BY <2>1, <2>3, <4>2 DEF IInv, Decided
        <5>2. Good(iface) /\ Recorded(iface, registry) /\ iface.rejudge = FALSE
          BY <2>1, <4>2 DEF TypeOK, IInv, IfaceOK, Good, Rejudging, Interface
        <5> QED
          BY <3>2, <4>2, <5>1, <5>2, SettledRound, Zenon
      <4> QED
        BY <4>1, <4>2
    <3> QED
      BY <3>1, <3>2, <3>3, <3>4, Zenon DEF Matches
  <2> QED
    BY <2>2, <2>3, Zenon DEF AsleepMeansSettled
<1> QED
  BY <1>1, Invariance, PTL

(***************************************************************************)
(* A pass never takes away the address of a lease that stands or of one    *)
(* being revalidated (Netd::converge, restart.preserve).                   *)
(***************************************************************************)
THEOREM LeasedAddressesStand == Spec => LeasedAddressKept
<1> DEFINE Keeps == pc = "pass" /\ pc' = "dump" =>
                       \A a \in kernel.addresses \ kernel'.addresses :
                           iface' # None =>
                               /\ iface'.lease # None => iface'.lease.address # a
                               /\ iface'.restart # None => iface'.restart.address # a
<1>1. ASSUME TypeOK, IInv, [Next]_vars
      PROVE  [Keeps]_vars
  <2> SUFFICES ASSUME Next, pc = "pass", pc' = "dump"
               PROVE  \A a \in kernel.addresses \ kernel'.addresses :
                           iface' # None =>
                               /\ iface'.lease # None => iface'.lease.address # a
                               /\ iface'.restart # None => iface'.restart.address # a
    BY <1>1
  <2>1. Pass
    <3>1. ~Clients
      BY <1>1, ClientSteps, Zenon DEF ClientStep, LoopStep, IInv
    <3>2. ~World
      BY <1>1, WorldSteps, Zenon DEF WorldStep, IInv
    <3>3. ~(DrainEvents \/ Reload \/ ControlReconcile)
      BY <1>1, ConvergeSteps DEF ConvergeStep, LoopStep, IInv
    <3>4. ~Act /\ ~Dump /\ ~Restarts
      BY DEF Act, Dump, Restarts, Booted
    <3>5. ~(\E p \in Policies : WritePolicy(p)) /\ ~(\E n \in Networks, l \in Labels : WriteLabel(n, l))
      BY DEF WritePolicy, WriteLabel, Operator, loop
    <3> QED
      BY <3>1, <3>2, <3>3, <3>4, <3>5 DEF Next, Netd
  <2>2. iface' \in Interface \cup {None} /\ (iface' # None => Good(iface'))
    BY <1>1, <2>1, PassFacts, Zenon
  <2> SUFFICES ASSUME iface' # None, NEW a \in kernel.addresses \ kernel'.addresses
               PROVE  /\ iface'.lease # None => iface'.lease.address # a
                      /\ iface'.restart # None => iface'.restart.address # a
    OBVIOUS
  <2> DEFINE i == iface'
  <2>3. i \in Interface \cup {None} /\ i # None /\ Good(i) /\ Apply(i) /\ lan' = lan
    BY <2>1, <2>2, Zenon DEF Pass
  <2> HIDE DEF i
  <2>4. i.lease # None \/ i.restart # None => i.dhcp # None
    BY <2>3, Zenon DEF Good, Held
  <2>5. i.dhcp # None => a \notin desired(i).addresses
    BY <1>1, <2>3, ApplyOK, Zenon DEF IInv
  <2>6. /\ i.lease # None => i.lease.address # a
        /\ i.restart # None => i.restart.address # a
    BY <2>3, <2>4, <2>5, DesiredOfClient, Zenon
  <2> QED
    BY <2>6 DEF i
<1> QED
  BY <1>1, Invariance, PTL DEF Spec, LeasedAddressKept
=============================================================================
