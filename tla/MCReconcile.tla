----------------------------- MODULE MCReconcile -----------------------------
(***************************************************************************)
(* A small interface for TLC: two IPv4 addresses in one subnet, one IPv6   *)
(* address at two prefixes, a gateway in that subnet, two routers.         *)
(***************************************************************************)
EXTENDS Reconcile, TLC

CONSTANTS a4, b4, a6, ll, gw, r1, r2, default4, default6

MCV4 == {a4, b4}
MCV6 == {a6}
MCLinkLocals == {ll}
MCPrefixes == {24, 64}
MCGateways == {gw, r1, r2}
MCOnLink == (gw :> {a4, b4}) @@ (r1 :> {}) @@ (r2 :> {})
MCDestinations == {default4, default6}

Addr(ip, p, dep, npr) ==
    [ip |-> ip, prefix |-> p, deprecated |-> dep, no_prefix_route |-> npr, tentative |-> FALSE]
V6Of(ip, p, dep) == [ip |-> ip, prefix |-> p, deprecated |-> dep, no_prefix_route |-> FALSE]
Rt(i, d, g, m, p) == [index |-> i, destination |-> d, gateway |-> g, metric |-> m, protocol |-> p]

DownNow == [up |-> FALSE, mtu |-> None, addresses |-> {}, addresses6 |-> {},
            default_route |-> None, default_route6 |-> None, routes |-> {}]
Leased(ip) == [DownNow EXCEPT !.up = TRUE, !.addresses = {[ip |-> ip, prefix |-> 24]},
                              !.default_route = [gateway |-> gw, metric |-> 100]]
Slaac(r, p, dep) == [Leased(a4) EXCEPT !.addresses6 = {V6Of(a6, p, dep)},
                                       !.default_route6 = [gateway |-> r, metric |-> 0]]
Pinned == [DownNow EXCEPT !.up = TRUE, !.mtu = 1400, !.default_route = [gateway |-> gw, metric |-> 100]]

MCDesireds == {DownNow, Leased(b4), Slaac(r1, 64, FALSE), Slaac(r2, 64, TRUE), Pinned}
MCForeignAddresses == {Addr(a4, 24, FALSE, FALSE), Addr(a6, 24, FALSE, FALSE)}
MCForeignRoutes == {Rt(This, default6, r1, 1024, 200), Rt(This, default4, gw, 100, 4),
                    Rt(3, default6, r2, 1024, 200)}

=============================================================================
