---------------------------- MODULE MCNdpEngine ----------------------------
(***************************************************************************)
(* A link with two routers and one prefix.  Lifetimes keep the order the   *)
(* code's have: a temporary address is preferred for less than it is       *)
(* valid, and there are advertised lifetimes below and above two hours.    *)
(***************************************************************************)
EXTENDS NdpEngine, TLC

CONSTANTS p1, i1, i2, i3, d1

Info(valid, preferred) ==
    [autonomous |-> TRUE, length |-> 64, on_link |-> TRUE, valid |-> valid, preferred |-> preferred]

Ra(source, lifetime, info) ==
    [source |-> source, router_lifetime |-> lifetime, dhcp6 |-> FALSE, mtu |-> None,
     prefixes |-> (p1 :> info), resolvers |-> (d1 :> None)]

MCAdverts ==
    {Ra(1, 1, None), Ra(1, 0, None), Ra(2, 1, None),
     Ra(1, 1, Info(3, 2)),                                   \* above two hours
     Ra(1, 1, Info(Forever, Forever)),
     Ra(1, 1, Info(1, 1)), Ra(2, 0, Info(0, 0)),             \* withdrawn
     Ra(2, 0, Info(3, 0)),                                   \* deprecated
     Ra(1, 1, Info(1, 2)),                                   \* nonsense
     Ra(1, 1, [Info(3, 3) EXCEPT !.autonomous = FALSE]),
     Ra(1, 1, [Info(3, 3) EXCEPT !.on_link = FALSE]),
     [Ra(1, 1, None) EXCEPT !.resolvers = (d1 :> 1), !.dhcp6 = TRUE, !.mtu = 1280],
     [Ra(1, 1, None) EXCEPT !.resolvers = (d1 :> 0)]}

=============================================================================
