----------------------------- MODULE Dhcp4Lease -----------------------------
(***************************************************************************)
(* What an ACK gives the client: the part of dhcp4/src/packet.rs that      *)
(* reads a DHCPACK into a lease (Lease::from_ack).  Only the fields the    *)
(* protocol acts on are kept: the address, the server that granted it and  *)
(* the three times.  The subnet mask, routes, DNS, MTU and the other       *)
(* options are data the client never looks at.                             *)
(*                                                                         *)
(* A message is a record whose optional parts are None when the option is  *)
(* missing or has the wrong length; yiaddr is None when it is 0.0.0.0.     *)
(* Times are whole seconds, as on the wire.                                *)
(***************************************************************************)
EXTENDS Integers

CONSTANT None      \* Rust's Option::None

ASSUME NoneAssumption == None \notin Nat

(***************************************************************************)
(* A lease shorter than this is not a lease (packet.rs: lease_time < 4).   *)
(***************************************************************************)
MIN_LEASE == 4

Larger(a, b) == IF a >= b THEN a ELSE b
Smaller(a, b) == IF a <= b THEN a ELSE b

(***************************************************************************)
(* T1: option 58 when it is positive and below the lease time minus 2,     *)
(* otherwise half the lease time.                                          *)
(***************************************************************************)
RenewalT1(m) ==
    IF m.t1 # None /\ m.t1 > 0 /\ m.t1 < m.lease_time - 2
    THEN m.t1
    ELSE m.lease_time \div 2

(***************************************************************************)
(* T2: option 59 when it lies strictly between T1 and the lease time,      *)
(* otherwise 7/8 of the lease time, at least T1 + 1 and at most the lease  *)
(* time minus 1.                                                           *)
(***************************************************************************)
RebindingT2(m) ==
    LET t1 == RenewalT1(m)
    IN  IF m.t2 # None /\ m.t2 > t1 /\ m.t2 < m.lease_time
        THEN m.t2
        ELSE Smaller(Larger((m.lease_time * 7) \div 8, t1 + 1), m.lease_time - 1)

IsLease(m) ==
    /\ m.yiaddr # None
    /\ m.server # None
    /\ m.lease_time # None
    /\ m.lease_time >= MIN_LEASE

FromAck(m) ==
    IF IsLease(m)
    THEN [address    |-> m.yiaddr,
          server     |-> m.server,
          lease_time |-> m.lease_time,
          t1         |-> RenewalT1(m),
          t2         |-> RebindingT2(m)]
    ELSE None

=============================================================================
