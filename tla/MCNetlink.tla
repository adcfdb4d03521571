------------------------------ MODULE MCNetlink ------------------------------
(***************************************************************************)
(* One link, an IPv6 address, and routes netd does and does not look at.   *)
(* Two messages in one table make a dump of several datagrams; the others  *)
(* have one or none.                                                       *)
(***************************************************************************)
EXTENDS Netlink

A6 == [family |-> 6, ip |-> "a6"]
Gateway == [family |-> 4, ip |-> "gw"]
Router == [family |-> 6, ip |-> "r1"]

Eth0 == [index |-> 2, name |-> "eth0", flags |-> {"LowerUp"}, type |-> "Ether",
         address |-> <<2, 0, 0, 0, 0, 1>>, mtu |-> 1500]
Local == [family |-> 6, prefix_len |-> 128, table |-> 255, protocol |-> 2, kind |-> "Local",
          destination |-> A6, gateway |-> None, oif |-> 2, priority |-> None]
Foreign == [family |-> 4, prefix_len |-> 0, table |-> RT_TABLE_MAIN, protocol |-> 4,
            kind |-> "Unicast", destination |-> None, gateway |-> Gateway, oif |-> 2,
            priority |-> None]
Other == [Foreign EXCEPT !.priority = 600]
LinkScope == [index |-> 2, prefix_len |-> 64, header_flags |-> {"Tentative"},
              attributes |-> [local |-> None, address |-> [family |-> 6, ip |-> "ll"],
                              flags |-> None]]

Address(ip, p, dep, npr) ==
    [index |-> 2, address |-> ip, prefix |-> p, deprecated |-> dep, no_prefix_route |-> npr,
     tentative |-> FALSE]
DefaultRoute(g, family, m) ==
    [index |-> 2, destination |-> Unspecified(family), prefix |-> 0, gateway |-> g, metric |-> m,
     protocol |-> RTPROT_NETD]

MCUniverse == [p \in Names |->
    CASE p = "links" -> {Eth0}
      [] p = "routes4" -> {Foreign, Other}
      [] p = "routes6" -> {Local}
      [] p = "addresses6" -> {LinkScope}
      [] OTHER -> {}]
MCRequests == {NewAddress(Address(A6, 64, TRUE, TRUE)), NewRoute(DefaultRoute(Router, 6, 0)),
               DelRoute(DefaultRoute(Router, 6, 0))}
=============================================================================
