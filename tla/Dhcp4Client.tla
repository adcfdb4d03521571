---------------------------- MODULE Dhcp4Client ----------------------------
(***************************************************************************)
(* The RFC 2131 client of dhcp4/src/client.rs: a state machine with no     *)
(* socket and no clock of its own.  The daemon calls start, tick, receive, *)
(* renew_now and release; each call returns the message to send and what   *)
(* the daemon must be told, kept here in sent and event.                   *)
(*                                                                         *)
(* Time.  The code keeps absolute Instants and compares them with now.     *)
(* Only the distance to now ever matters, so an Instant in the future is   *)
(* modelled by the seconds left (retransmit_in, 0 once due) and bound_at   *)
(* by the seconds since (bound_age, which stops counting at the end of the *)
(* lease, where every comparison has been decided).  Elapse moves the      *)
(* clock one second; nothing forces the daemon to call tick on time.       *)
(*                                                                         *)
(* The network.  receive is called with any message at all: a reply can be *)
(* lost, late, repeated, from another exchange or from another server.     *)
(***************************************************************************)
EXTENDS Dhcp4Lease

CONSTANTS
    Addresses,                   \* IPv4 addresses a server may hand out
    Servers,                     \* server identifiers (option 54)
    Xids,                        \* transaction ids next_random may draw
    AckTimes,                    \* the time options a reply may carry
    Jitters,                     \* seconds of jitter, -1 .. 1 in the code
    DISCOVERS_BEFORE_NO_OFFER,
    MAX_REQUESTS,
    MAX_REBOOTS,                 \* the literal 2 of retransmit
    FIRST_BACKOFF,
    MAX_BACKOFF,
    MIN_RETRANSMIT

ASSUME AddressesAssumption ==
    /\ None \notin Addresses
    /\ None \notin Servers
    /\ None \notin [server : Servers, yiaddr : Addresses]

ASSUME TimesAssumption ==
    AckTimes \subseteq [lease_time : Nat \cup {None}, t1 : Nat \cup {None},
                        t2 : Nat \cup {None}]

ASSUME LimitsAssumption ==
    /\ DISCOVERS_BEFORE_NO_OFFER \in Nat \ {0}
    /\ MAX_REQUESTS \in Nat \ {0}
    /\ MAX_REBOOTS \in Nat \ {0}

ASSUME BackoffAssumption ==
    /\ FIRST_BACKOFF \in Nat
    /\ MAX_BACKOFF \in Nat
    /\ MAX_BACKOFF >= FIRST_BACKOFF
    /\ MIN_RETRANSMIT \in Nat \ {0}
    /\ Jitters \subseteq Int
    /\ \A j \in Jitters : FIRST_BACKOFF + j > 0

ASSUME DrawAssumption == Xids # {} /\ Jitters # {}

VARIABLES
    state,
    xid,
    retransmit_in,       \* seconds until retransmit_at, or None
    backoff,
    attempts,
    no_offer_reported,
    offer,               \* the OFFER being requested: its server and yiaddr
    lease,
    bound_age,           \* seconds since bound_at, or None
    reboot_address,
    sent,                \* Action::Send of the last call, or None
    event                \* Action::Bound, NoOffer or Lost of the last call, or None

vars == <<state, xid, retransmit_in, backoff, attempts, no_offer_reported,
          offer, lease, bound_age, reboot_address, sent, event>>

States == {"Init", "Selecting", "Requesting", "Rebooting",
           "Bound", "Renewing", "Rebinding"}
Holding == {"Bound", "Renewing", "Rebinding"}

Messages ==
    [ours : BOOLEAN,                              \* a BOOTREPLY for our chaddr
     xid : Xids,
     type : {"Offer", "Ack", "Nak", None},
     yiaddr : Addresses \cup {None},
     server : Servers \cup {None},
     times : AckTimes]

(***************************************************************************)
(* The ACK as Dhcp4Lease reads it.                                         *)
(***************************************************************************)
LeaseOf(m) ==
    FromAck([yiaddr |-> m.yiaddr, server |-> m.server,
             lease_time |-> m.times.lease_time, t1 |-> m.times.t1, t2 |-> m.times.t2])

Leases == {LeaseOf(m) : m \in Messages} \ {None}

Bound(l) == [type |-> "Bound", lease |-> l]
NoOffer  == [type |-> "NoOffer"]
Lost     == [type |-> "Lost"]

(***************************************************************************)
(* attempts only ever meets the thresholds, so it stops counting at the    *)
(* largest of them: the code's u32 would need 2^32 retransmissions.        *)
(***************************************************************************)
ATTEMPTS_CAP == Larger(DISCOVERS_BEFORE_NO_OFFER, Larger(MAX_REQUESTS, MAX_REBOOTS))

AttemptsPlusOne == Smaller(attempts + 1, ATTEMPTS_CAP)

-----------------------------------------------------------------------------
(***************************************************************************)
(* Sending.  Every transmission schedules the next one.                    *)
(***************************************************************************)
ScheduleBackoff(current) ==
    /\ \E j \in Jitters : retransmit_in' = current + j
    /\ backoff' = Smaller(2 * current, MAX_BACKOFF)

SendDiscover(current, requested) ==
    /\ sent' = [type |-> "Discover", to |-> "Broadcast", address |-> requested]
    /\ ScheduleBackoff(current)

SendRequestForOffer(current, o) ==
    /\ sent' = [type |-> "Request", to |-> "Broadcast", address |-> o.yiaddr]
    /\ ScheduleBackoff(current)

SendRebootRequest(current, address) ==
    /\ sent' = [type |-> "Request", to |-> "Broadcast", address |-> address]
    /\ ScheduleBackoff(current)

\* Mutant: half the remaining time without the MIN_RETRANSMIT floor.
SendRenewalNoFloor(s) ==
    LET boundary  == IF s = "Renewing" THEN lease.t2 ELSE lease.lease_time
        remaining == Larger(boundary - bound_age, 0)
    IN  /\ sent' = [type |-> "Request",
                    to |-> IF s = "Renewing" THEN lease.server ELSE "Broadcast",
                    address |-> lease.address]
        /\ retransmit_in' = remaining \div 2
        /\ UNCHANGED backoff

(***************************************************************************)
(* Renewals go to the server while Renewing and to everyone while          *)
(* Rebinding, and are repeated after half the time left to the state's     *)
(* boundary, never sooner than MIN_RETRANSMIT.                             *)
(***************************************************************************)
SendRenewal(s) ==
    LET boundary  == IF s = "Renewing" THEN lease.t2 ELSE lease.lease_time
        remaining == Larger(boundary - bound_age, 0)
    IN  /\ sent' = [type |-> "Request",
                    to |-> IF s = "Renewing" THEN lease.server ELSE "Broadcast",
                    address |-> lease.address]
        /\ retransmit_in' = Larger(remaining \div 2, MIN_RETRANSMIT)
        /\ UNCHANGED backoff

-----------------------------------------------------------------------------
(***************************************************************************)
(* The transitions.  A caller that has just changed reboot_address passes  *)
(* the new value, which the DISCOVER carries as option 50.                 *)
(***************************************************************************)
\* Mutant: discovery starts over with the old offer still there.
EnterSelectingKeepsOffer(requested) ==
    /\ state' = "Selecting"
    /\ xid' \in Xids
    /\ attempts' = 0
    /\ UNCHANGED offer
    /\ reboot_address' = requested
    /\ SendDiscover(FIRST_BACKOFF, requested)

EnterSelecting(requested) ==
    /\ state' = "Selecting"
    /\ xid' \in Xids
    /\ attempts' = 0
    /\ offer' = None
    /\ reboot_address' = requested
    /\ SendDiscover(FIRST_BACKOFF, requested)

EnterRequesting(o) ==
    /\ state' = "Requesting"
    /\ attempts' = 0
    /\ offer' = o
    /\ SendRequestForOffer(FIRST_BACKOFF, o)
    /\ UNCHANGED <<xid, reboot_address>>

EnterRebooting(address) ==
    /\ state' = "Rebooting"
    /\ xid' \in Xids
    /\ attempts' = 0
    /\ reboot_address' = address
    /\ SendRebootRequest(FIRST_BACKOFF, address)

EnterRenewing ==
    /\ state' = "Renewing"
    /\ xid' \in Xids
    /\ attempts' = 0
    /\ SendRenewal("Renewing")

EnterRebinding ==
    /\ state' = "Rebinding"
    /\ xid' \in Xids
    /\ attempts' = 0
    /\ SendRenewal("Rebinding")

-----------------------------------------------------------------------------
Init ==
    /\ state = "Init"
    /\ xid \in Xids
    /\ retransmit_in = None
    /\ backoff = FIRST_BACKOFF
    /\ attempts = 0
    /\ no_offer_reported = FALSE
    /\ offer = None
    /\ lease = None
    /\ bound_age = None
    /\ reboot_address = None
    /\ sent = None
    /\ event = None

(***************************************************************************)
(* start, on a client fresh from new: the daemon builds one each time.     *)
(***************************************************************************)
Start(previous) ==
    /\ state = "Init"
    /\ lease' = None
    /\ bound_age' = None
    /\ no_offer_reported' = FALSE
    /\ event' = None
    /\ \/ /\ previous # None
          /\ offer' = None
          /\ EnterRebooting(previous)
       \/ /\ previous = None
          /\ EnterSelecting(None)

(***************************************************************************)
(* release: give the address back and stop.  The daemon drops the client.  *)
(***************************************************************************)
Release ==
    /\ state # "Init"
    /\ sent' = IF lease # None /\ state \in Holding
               THEN [type |-> "Release", to |-> lease.server, address |-> lease.address]
               ELSE None
    /\ state' = "Init"
    /\ lease' = None
    /\ bound_age' = None
    /\ retransmit_in' = None
    /\ event' = None
    /\ UNCHANGED <<xid, backoff, attempts, no_offer_reported, offer, reboot_address>>

(***************************************************************************)
(* renew_now: an operator's request, ignored without a lease.              *)
(***************************************************************************)
RenewNow ==
    /\ state \in Holding
    /\ EnterRenewing
    /\ event' = None
    /\ UNCHANGED <<no_offer_reported, offer, lease, bound_age, reboot_address>>

-----------------------------------------------------------------------------
(***************************************************************************)
(* tick.  The lease's boundaries come first, one of them per call, and     *)
(* leave the next retransmission in the future; otherwise a retransmission *)
(* that is due is made.                                                    *)
(***************************************************************************)
Boundary ==
    CASE state = "Bound"     -> lease.t1
      [] state = "Renewing"  -> lease.t2
      [] state = "Rebinding" -> lease.lease_time

BoundaryDue == state \in Holding /\ bound_age >= Boundary

TickRenewing ==
    /\ state = "Bound" /\ BoundaryDue
    /\ EnterRenewing
    /\ event' = None
    /\ UNCHANGED <<no_offer_reported, offer, lease, bound_age, reboot_address>>

TickRebinding ==
    /\ state = "Renewing" /\ BoundaryDue
    /\ EnterRebinding
    /\ event' = None
    /\ UNCHANGED <<no_offer_reported, offer, lease, bound_age, reboot_address>>

TickExpired ==
    /\ state = "Rebinding" /\ BoundaryDue
    /\ lease' = None
    /\ bound_age' = None
    /\ event' = Lost
    /\ EnterSelecting(reboot_address)
    /\ UNCHANGED no_offer_reported

RetransmitDue == ~BoundaryDue /\ retransmit_in = 0

\* Mutant: an unanswered DISCOVER is not counted.
RetransmitDiscoverUncounted ==
    /\ state = "Selecting" /\ RetransmitDue
    /\ event' = None
    /\ SendDiscover(backoff, reboot_address)
    /\ UNCHANGED <<state, xid, attempts, no_offer_reported, offer, lease,
                   bound_age, reboot_address>>

RetransmitDiscover ==
    /\ state = "Selecting" /\ RetransmitDue
    /\ attempts' = AttemptsPlusOne
    /\ LET report == attempts' >= DISCOVERS_BEFORE_NO_OFFER /\ ~no_offer_reported
       IN  /\ event' = IF report THEN NoOffer ELSE None
           /\ no_offer_reported' = (no_offer_reported \/ report)
    /\ SendDiscover(backoff, reboot_address)
    /\ UNCHANGED <<state, xid, offer, lease, bound_age, reboot_address>>

RetransmitRequest ==
    /\ state = "Requesting" /\ RetransmitDue
    /\ \/ /\ attempts + 1 >= MAX_REQUESTS
          /\ EnterSelecting(reboot_address)
       \/ /\ attempts + 1 < MAX_REQUESTS
          /\ attempts' = AttemptsPlusOne
          /\ SendRequestForOffer(backoff, offer)
          /\ UNCHANGED <<state, xid, offer, reboot_address>>
    /\ event' = None
    /\ UNCHANGED <<no_offer_reported, lease, bound_age>>

RetransmitReboot ==
    /\ state = "Rebooting" /\ RetransmitDue
    /\ \/ /\ attempts + 1 >= MAX_REBOOTS
          /\ EnterSelecting(None)
       \/ /\ attempts + 1 < MAX_REBOOTS
          /\ attempts' = AttemptsPlusOne
          /\ SendRebootRequest(backoff, reboot_address)
          /\ UNCHANGED <<state, xid, offer, reboot_address>>
    /\ event' = None
    /\ UNCHANGED <<no_offer_reported, lease, bound_age>>

RetransmitRenewal ==
    /\ state \in {"Renewing", "Rebinding"} /\ RetransmitDue
    /\ SendRenewal(state)
    /\ event' = None
    /\ UNCHANGED <<state, xid, attempts, no_offer_reported, offer, lease,
                   bound_age, reboot_address>>

Tick ==
    \/ TickRenewing
    \/ TickRebinding
    \/ TickExpired
    \/ RetransmitDiscover
    \/ RetransmitRequest
    \/ RetransmitReboot
    \/ RetransmitRenewal

-----------------------------------------------------------------------------
(***************************************************************************)
(* receive.  Once a server has been chosen an ACK or a NAK must be its     *)
(* own; until then (Rebooting) any server's will do.                       *)
(***************************************************************************)
\* Mutant: the held lease does not choose the server.
ChosenByOffer == IF offer # None THEN offer.server ELSE None

Chosen ==
    IF lease # None THEN lease.server
    ELSE IF offer # None THEN offer.server
    ELSE None

Accepted(m) ==
    /\ m.ours
    /\ m.xid = xid
    /\ m.type # None
    /\ m.type \in {"Ack", "Nak"} /\ Chosen # None => m.server = Chosen

TakesOffer(m) ==
    /\ state = "Selecting" /\ m.type = "Offer"
    /\ m.yiaddr # None /\ m.server # None

TakesAck(m) ==
    /\ state \in {"Requesting", "Rebooting", "Renewing", "Rebinding"}
    /\ m.type = "Ack"
    /\ LeaseOf(m) # None

RefusesRequest(m) == state \in {"Requesting", "Rebooting"} /\ m.type = "Nak"

RefusesLease(m) == state \in {"Renewing", "Rebinding"} /\ m.type = "Nak"

ReceiveOffer(m) ==
    /\ Accepted(m) /\ TakesOffer(m)
    /\ EnterRequesting([server |-> m.server, yiaddr |-> m.yiaddr])
    /\ event' = None
    /\ UNCHANGED <<no_offer_reported, lease, bound_age>>

ReceiveAck(m) ==
    /\ Accepted(m) /\ TakesAck(m)
    /\ no_offer_reported' = FALSE
    /\ state' = "Bound"
    /\ retransmit_in' = None
    /\ bound_age' = 0
    /\ lease' = LeaseOf(m)
    /\ reboot_address' = LeaseOf(m).address
    /\ event' = Bound(LeaseOf(m))
    /\ sent' = None
    /\ UNCHANGED <<xid, backoff, attempts, offer>>

ReceiveNakRequest(m) ==
    /\ Accepted(m) /\ RefusesRequest(m)
    /\ EnterSelecting(None)
    /\ event' = None
    /\ UNCHANGED <<no_offer_reported, lease, bound_age>>

ReceiveNakLease(m) ==
    /\ Accepted(m) /\ RefusesLease(m)
    /\ lease' = None
    /\ bound_age' = None
    /\ event' = Lost
    /\ EnterSelecting(None)
    /\ UNCHANGED no_offer_reported

(***************************************************************************)
(* Everything else a network can deliver is dropped without a trace.       *)
(***************************************************************************)
Ignore(m) ==
    /\ ~ (Accepted(m) /\ (TakesOffer(m) \/ TakesAck(m) \/ RefusesRequest(m) \/ RefusesLease(m)))
    /\ state # "Init"
    /\ sent' = None
    /\ event' = None
    /\ UNCHANGED <<state, xid, retransmit_in, backoff, attempts,
                   no_offer_reported, offer, lease, bound_age, reboot_address>>

Receive(m) ==
    \/ ReceiveOffer(m)
    \/ ReceiveAck(m)
    \/ ReceiveNakRequest(m)
    \/ ReceiveNakLease(m)
    \/ Ignore(m)

-----------------------------------------------------------------------------
Elapse ==
    /\ state # "Init"
    /\ retransmit_in' = IF retransmit_in = None THEN None ELSE Larger(retransmit_in - 1, 0)
    /\ bound_age' = IF lease = None THEN None ELSE Smaller(bound_age + 1, lease.lease_time)
    /\ UNCHANGED <<state, xid, backoff, attempts, no_offer_reported, offer,
                   lease, reboot_address, sent, event>>

Next ==
    \/ \E previous \in Addresses \cup {None} : Start(previous)
    \/ Release
    \/ RenewNow
    \/ Tick
    \/ \E m \in Messages : Receive(m)
    \/ Elapse

Spec == Init /\ [][Next]_vars

(***************************************************************************)
(* The clock runs, and the loop polls with the client's next deadline as   *)
(* its timeout and ticks every client when it wakes (event_loop.rs), so a  *)
(* deadline that stays due is acted on.  Nothing is assumed of the network *)
(* or of the operator.                                                     *)
(***************************************************************************)
Fairness == WF_vars(Elapse) /\ WF_vars(Tick)

FairSpec == Spec /\ Fairness

-----------------------------------------------------------------------------
(***************************************************************************)
(* The type invariant of Client's fields.                                  *)
(***************************************************************************)
LeaseType ==
    [address : Addresses, server : Servers, lease_time : Nat, t1 : Nat, t2 : Nat]

TypeOK ==
    /\ state \in States
    /\ xid \in Xids
    /\ retransmit_in \in Nat \cup {None}
    /\ backoff \in FIRST_BACKOFF .. MAX_BACKOFF
    /\ attempts \in 0 .. ATTEMPTS_CAP
    /\ no_offer_reported \in BOOLEAN
    /\ offer \in [server : Servers, yiaddr : Addresses] \cup {None}
    /\ lease \in LeaseType \cup {None}
    /\ bound_age \in Nat \cup {None}
    /\ reboot_address \in Addresses \cup {None}

(***************************************************************************)
(* A lease, and the moment it was bound, exist exactly in the states whose *)
(* handlers read them: send_renewal and tick return early without them, so *)
(* a mismatch would leave a client that neither renews nor expires.        *)
(***************************************************************************)
LeaseMatchesState ==
    /\ (lease # None) <=> (state \in Holding)
    /\ (bound_age # None) <=> (state \in Holding)

(***************************************************************************)
(* T1 < T2 < the lease time whatever the server sent, and the clock of a   *)
(* lease never runs past its end.                                          *)
(***************************************************************************)
TimersOrdered ==
    lease # None =>
        /\ 0 < lease.t1
        /\ lease.t1 < lease.t2
        /\ lease.t2 < lease.lease_time
        /\ bound_age <= lease.lease_time

(***************************************************************************)
(* A request always has what it asks for: the "start over" branches of     *)
(* send_request_for_offer and send_reboot_request are never taken, and no  *)
(* offer of an earlier exchange survives into a new discovery, where it    *)
(* would choose the server for it.                                         *)
(***************************************************************************)
ExchangeInHand ==
    /\ state = "Requesting" => offer # None
    /\ state = "Rebooting" => reboot_address # None
    /\ state \in {"Selecting", "Rebooting"} => offer = None

(***************************************************************************)
(* next_deadline: the earliest of these, in seconds from now.              *)
(***************************************************************************)
Deadlines ==
    (IF retransmit_in # None THEN {retransmit_in} ELSE {})
    \cup (IF lease # None /\ state \in Holding
          THEN {Larger(Boundary - bound_age, 0)} ELSE {})

Due == 0 \in Deadlines

(***************************************************************************)
(* A started client always has a deadline: the loop polls without timeout  *)
(* when no client has one, so a client that schedules nothing would sleep  *)
(* until some unrelated event.                                             *)
(***************************************************************************)
Scheduled == state # "Init" => Deadlines # {}

(***************************************************************************)
(* The client's fields fit each other, in every order of replies, ticks    *)
(* and operator requests: lease and clock with the state, T1 with T2 and   *)
(* the lease time, offer and remembered address with the exchange, and a   *)
(* deadline with everything that has been started.                         *)
(***************************************************************************)
Consistent == LeaseMatchesState /\ TimersOrdered /\ ExchangeInHand /\ Scheduled

(***************************************************************************)
(* The steps left until an expired lease is given up.                      *)
(***************************************************************************)
TicksToLose ==
    CASE state = "Bound"     -> 3
      [] state = "Renewing"  -> 2
      [] state = "Rebinding" -> 1
      [] OTHER               -> 0

(***************************************************************************)
(* The loop polls with a zero timeout while a deadline is due.  A tick     *)
(* either leaves none due or has moved a held lease strictly closer to     *)
(* being given up, so however late the loop is it spins at most three      *)
(* times, and a lease whose end has passed is gone by the third tick.      *)
(***************************************************************************)
TickMakesProgress == [][Tick => (~Due' \/ TicksToLose' < TicksToLose)]_vars

(***************************************************************************)
(* The client keeps what LeaseService promises the daemon.                 *)
(***************************************************************************)
Phase ==
    CASE state = "Init"      -> "off"
      [] state = "Rebooting" -> "rebooting"
      [] state \in Holding   -> "held"
      [] OTHER               -> "acquiring"

Service == INSTANCE LeaseService WITH phase <- Phase, reported <- no_offer_reported

ImplementsLeaseService == Service!Spec

-----------------------------------------------------------------------------
(***************************************************************************)
(* Silence has an end: neither Requesting nor Rebooting, which wait for    *)
(* one particular answer, waits for ever, and discovery that stays         *)
(* unanswered is reported, however late the ticks.                         *)
(***************************************************************************)
SilenceEnds ==
    /\ \A s \in {"Requesting", "Rebooting"} : (state = s) ~> (state # s)
    /\ (state = "Selecting") ~> (state # "Selecting" \/ no_offer_reported)

(***************************************************************************)
(* Once the operator stops asking for renewals (renew_now moves an expired *)
(* Rebinding lease back to Renewing), a lease that has run out is given up *)
(* or bound afresh.                                                        *)
(***************************************************************************)
Expired == lease # None /\ bound_age = lease.lease_time

ExpiredLeaseGoes == <>[][~RenewNow]_vars => (Expired ~> ~Expired)

(***************************************************************************)
(* The client never stays where nothing happens: unanswered exchanges end, *)
(* and so do leases (tick).                                                *)
(***************************************************************************)
NothingLingers == SilenceEnds /\ ExpiredLeaseGoes

=============================================================================
