---------------------------- MODULE LeaseService ----------------------------
(***************************************************************************)
(* What the DHCPv4 client promises the daemon that drives it.              *)
(*                                                                         *)
(* The daemon never looks inside the client: it keeps its own copy of the  *)
(* lease and moves it only on the events a call returns (Action::Bound,    *)
(* Action::NoOffer, Action::Lost in dhcp4/src/client.rs, consumed by       *)
(* Interface::perform in netd/src/main.rs).  So what the client owes is    *)
(* about those events:                                                     *)
(*                                                                         *)
(*   - the lease changes only together with the event that says so;       *)
(*   - a held lease is only ever replaced by its own server's;             *)
(*   - Lost is said once for a lease that was held, never otherwise;       *)
(*   - NoOffer is said at most once per unanswered acquisition: not again  *)
(*     until a lease was bound or the client was started again.            *)
(***************************************************************************)
CONSTANTS
    None,
    Leases        \* what a client may be granted: records with a server field

VARIABLES
    phase,        \* "off", "rebooting", "acquiring" or "held"
    lease,        \* the lease held, or None
    reported,     \* NoOffer was said in this acquisition
    event         \* what the last call told the daemon, or None

vars == <<phase, lease, reported, event>>

Bound(l) == [type |-> "Bound", lease |-> l]
NoOffer  == [type |-> "NoOffer"]
Lost     == [type |-> "Lost"]

Init ==
    /\ phase = "off"
    /\ lease = None
    /\ reported = FALSE
    /\ event = None

(***************************************************************************)
(* The daemon starts a client; with a remembered address it first asks to  *)
(* keep that one.                                                          *)
(***************************************************************************)
Begin ==
    /\ phase = "off"
    /\ phase' \in {"rebooting", "acquiring"}
    /\ lease' = None
    /\ reported' = FALSE
    /\ event' = None

(***************************************************************************)
(* A call that tells the daemon nothing.  Revalidating a remembered        *)
(* address may be given up without a word: no lease was held yet.          *)
(***************************************************************************)
Work ==
    /\ phase # "off"
    /\ phase' \in {phase} \cup (IF phase = "rebooting" THEN {"acquiring"} ELSE {})
    /\ event' = None
    /\ UNCHANGED <<lease, reported>>

Bind(l) ==
    /\ phase # "off"
    /\ phase = "held" => l.server = lease.server
    /\ phase' = "held"
    /\ lease' = l
    /\ reported' = FALSE
    /\ event' = Bound(l)

ReportNoOffer ==
    /\ phase = "acquiring"
    /\ ~reported
    /\ reported' = TRUE
    /\ event' = NoOffer
    /\ UNCHANGED <<phase, lease>>

Lose ==
    /\ phase = "held"
    /\ phase' = "acquiring"
    /\ lease' = None
    /\ event' = Lost
    /\ UNCHANGED reported

(***************************************************************************)
(* The daemon stops the client: release() and drop.                        *)
(***************************************************************************)
End ==
    /\ phase # "off"
    /\ phase' = "off"
    /\ lease' = None
    /\ event' = None
    /\ UNCHANGED reported

Next ==
    \/ Begin
    \/ Work
    \/ \E l \in Leases : Bind(l)
    \/ ReportNoOffer
    \/ Lose
    \/ End

Spec == Init /\ [][Next]_vars

=============================================================================
