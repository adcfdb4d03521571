---------------------------- MODULE MCInventory ----------------------------
(***************************************************************************)
(* Two interfaces.  In the first instance each has a network of its own;   *)
(* in the second both are plugged into the same one.                       *)
(***************************************************************************)
EXTENDS Inventory

MCInterfaces == <<"eth0", "eth1">>
MCKind == [i \in {"eth0", "eth1"} |-> "Ethernet"]

Lease(server, address, hostname) ==
    [server |-> server, subnet |-> server, address |-> address, hostname |-> hostname]

MCLeases == [eth0 |-> {Lease("s0", "a0", "leased"), Lease("s0", "b0", None)},
             eth1 |-> {Lease("s1", "a1", "other")}]
MCRouters == [eth0 |-> {}, eth1 |-> {[router |-> "r1", prefix |-> "p1"]}]

MCSharedLeases == [eth0 |-> {Lease("s0", "a0", None)}, eth1 |-> {Lease("s0", "a1", None)}]
MCSharedRouters == [i \in {"eth0", "eth1"} |-> {}]

MCIdentifiers == {<<"operator">>}

MCHostnameText == [leased |-> "leased", other |-> "other", padded |-> "named"]
=============================================================================
