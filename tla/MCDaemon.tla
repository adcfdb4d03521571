------------------------------ MODULE MCDaemon ------------------------------
(***************************************************************************)
(* Two LANs for TLC: an IPv4 one whose network the operator has labelled   *)
(* and whose server leases two addresses, and a dual-stack one nobody has  *)
(* labelled.  The policies choose a profile by label.                      *)
(***************************************************************************)
EXTENDS Daemon, TLC

CONSTANTS home, office, net_home, net_office, ra_office, a1, a2, b1, trusted, unlabelled, roam, desk

OnHome(a) == [address |-> a, network |-> net_home]
OnOffice == [address |-> b1, network |-> net_office]

MCLeasesOf == (home :> {OnHome(a1), OnHome(a2)}) @@ (office :> {OnOffice})
MCSingleLeasesOf == (home :> {OnHome(a1)}) @@ (office :> {})
MCRouterOf == (home :> None) @@ (office :> ra_office)
MCLabels == (net_home :> trusted) @@ (net_office :> unlabelled) @@ (ra_office :> unlabelled)

Roam == [name |-> roam, dhcp4 |-> TRUE, autoconf6 |-> TRUE, link_local |-> TRUE,
         keep |-> FALSE, static |-> FALSE, route_offered |-> TRUE,
         dns_offered |-> TRUE]
Desk == [name |-> desk, dhcp4 |-> TRUE, autoconf6 |-> FALSE, link_local |-> FALSE,
         keep |-> TRUE, static |-> FALSE, route_offered |-> TRUE,
         dns_offered |-> FALSE]
Fixed == [name |-> desk, dhcp4 |-> FALSE, autoconf6 |-> TRUE, link_local |-> FALSE,
          keep |-> FALSE, static |-> TRUE, route_offered |-> FALSE,
          dns_offered |-> FALSE]

Layer(first, known) == (None :> first) @@ (unlabelled :> first) @@ (trusted :> known)

ByLabel == Layer(Roam, Desk)
Shut == Layer(Down, Down)
Tied == Layer(Roam, Tie)
StaticLayer == Layer(Fixed, Fixed)

MCPolicies == {ByLabel, Shut, Tied, StaticLayer, Broken}
MCLivePolicies == {ByLabel, StaticLayer}
=============================================================================
