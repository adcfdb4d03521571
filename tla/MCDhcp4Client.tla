--------------------------- MODULE MCDhcp4Client ---------------------------
(***************************************************************************)
(* Small instances of Dhcp4Client for TLC.  The limits keep their order    *)
(* and their relations to each other but are scaled down: a first backoff  *)
(* of 2 s that doubles once, leases of 4 to 9 s, a renewal floor that the  *)
(* longer lease exceeds and the shorter does not.                          *)
(***************************************************************************)
EXTENDS Dhcp4Client

Times(l, a, b) == [lease_time |-> l, t1 |-> a, t2 |-> b]

\* The shortest lease, one with the server's own T1 and T2, one whose T2 is
\* not after its T1, one too short.
MCAckTimes ==
    {Times(4, None, None), Times(9, 2, 4), Times(6, 3, 2), Times(3, None, None)}

MCJitters == {-1, 0}

=============================================================================
