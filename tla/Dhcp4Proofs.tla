---------------------------- MODULE Dhcp4Proofs ----------------------------
(***************************************************************************)
(* Proofs about the DHCPv4 client, for every set of addresses, servers,    *)
(* transaction ids and reply times, every jitter and every limit that      *)
(* satisfies the assumptions of Dhcp4Client.                               *)
(***************************************************************************)
EXTENDS Dhcp4Client, TLAPS

-----------------------------------------------------------------------------
(***************************************************************************)
(* Reading an ACK.                                                         *)
(***************************************************************************)
AckType ==
    [yiaddr : Addresses \cup {None}, server : Servers \cup {None},
     lease_time : Nat \cup {None}, t1 : Nat \cup {None}, t2 : Nat \cup {None}]

(***************************************************************************)
(* T1 of an acceptable ACK (Lease::from_ack) is positive and leaves room   *)
(* for a T2 before the end of the lease.                                   *)
(***************************************************************************)
LEMMA T1Bounds ==
    ASSUME NEW m \in AckType, IsLease(m)
    PROVE  RenewalT1(m) \in Nat /\ 0 < RenewalT1(m) /\ RenewalT1(m) + 1 < m.lease_time
<1>1. m.lease_time \in Nat /\ m.lease_time >= 4
  BY NoneAssumption DEF AckType, IsLease, MIN_LEASE
<1>2. CASE m.t1 # None /\ m.t1 > 0 /\ m.t1 < m.lease_time - 2
  BY <1>1, <1>2 DEF AckType, RenewalT1
<1>3. CASE ~(m.t1 # None /\ m.t1 > 0 /\ m.t1 < m.lease_time - 2)
  <2>1. RenewalT1(m) = m.lease_time \div 2
    BY <1>3 DEF RenewalT1
  <2> QED
    BY <1>1, <2>1
<1> QED
  BY <1>2, <1>3

(***************************************************************************)
(* T2 of an acceptable ACK lies strictly between T1 and the lease's end,   *)
(* whatever the server sent.                                               *)
(***************************************************************************)
LEMMA T2Bounds ==
    ASSUME NEW m \in AckType, IsLease(m)
    PROVE  /\ RebindingT2(m) \in Nat
           /\ RenewalT1(m) < RebindingT2(m)
           /\ RebindingT2(m) < m.lease_time
<1> DEFINE t1 == RenewalT1(m)
           L == m.lease_time
<1>1. L \in Nat /\ t1 \in Nat /\ t1 + 1 < L
  BY T1Bounds, NoneAssumption DEF AckType, IsLease
<1>2. CASE m.t2 # None /\ m.t2 > t1 /\ m.t2 < L
  BY <1>1, <1>2 DEF AckType, RebindingT2
<1>3. CASE ~(m.t2 # None /\ m.t2 > t1 /\ m.t2 < L)
  <2>1. RebindingT2(m) = Smaller(Larger((L * 7) \div 8, t1 + 1), L - 1)
    BY <1>3 DEF RebindingT2
  <2>2. (L * 7) \div 8 \in Nat
    BY <1>1
  <2> HIDE DEF t1, L
  <2>3. /\ Larger((L * 7) \div 8, t1 + 1) \in Nat
        /\ Larger((L * 7) \div 8, t1 + 1) >= t1 + 1
    BY <1>1, <2>2 DEF Larger
  <2>4. /\ Smaller(Larger((L * 7) \div 8, t1 + 1), L - 1) \in Nat
        /\ Smaller(Larger((L * 7) \div 8, t1 + 1), L - 1) > t1
        /\ Smaller(Larger((L * 7) \div 8, t1 + 1), L - 1) < L
    BY <1>1, <2>3 DEF Smaller
  <2> QED
    BY <2>1, <2>4 DEF t1, L
<1> QED
  BY <1>2, <1>3

(***************************************************************************)
(* What receive makes of an ACK it accepts as a lease.                     *)
(***************************************************************************)
LEMMA LeaseOfAck ==
    ASSUME NEW m \in Messages, LeaseOf(m) # None
    PROVE  /\ LeaseOf(m) \in LeaseType
           /\ LeaseOf(m).server = m.server
           /\ 0 < LeaseOf(m).t1
           /\ LeaseOf(m).t1 < LeaseOf(m).t2
           /\ LeaseOf(m).t2 < LeaseOf(m).lease_time
<1> DEFINE a == [yiaddr |-> m.yiaddr, server |-> m.server,
                 lease_time |-> m.times.lease_time, t1 |-> m.times.t1, t2 |-> m.times.t2]
<1>1. a \in AckType
  BY TimesAssumption DEF Messages, AckType
<1>2. IsLease(a) /\ LeaseOf(m) = [address |-> a.yiaddr, server |-> a.server,
                                  lease_time |-> a.lease_time,
                                  t1 |-> RenewalT1(a), t2 |-> RebindingT2(a)]
  BY DEF LeaseOf, FromAck
<1>3. a.server = m.server
  OBVIOUS
<1> HIDE DEF a
<1>4. a.yiaddr \in Addresses /\ a.server \in Servers /\ a.lease_time \in Nat
  BY <1>1, <1>2 DEF AckType, IsLease
<1> QED
  BY <1>1, <1>2, <1>3, <1>4, T1Bounds, T2Bounds DEF LeaseType

-----------------------------------------------------------------------------
(***************************************************************************)
(* The inductive invariant.  Scheduled is not inductive by itself: that    *)
(* every state but Init and Bound has a retransmission pending, and that a *)
(* lease is there for the boundary of the states that hold one, is what    *)
(* makes it so.                                                            *)
(***************************************************************************)
RetransmissionPending == state \notin {"Init", "Bound"} => retransmit_in # None

IInv ==
    /\ TypeOK
    /\ LeaseMatchesState
    /\ TimersOrdered
    /\ ExchangeInHand
    /\ RetransmissionPending

(***************************************************************************)
(* Every backoff, first or doubled, is a delay of at least a second even   *)
(* with the jitter that shortens it most (schedule_backoff).               *)
(***************************************************************************)
LEMMA BackoffType ==
    ASSUME NEW current \in FIRST_BACKOFF .. MAX_BACKOFF, ScheduleBackoff(current)
    PROVE  /\ retransmit_in' \in Nat \ {0}
           /\ backoff' \in FIRST_BACKOFF .. MAX_BACKOFF
<1>1. PICK j \in Jitters : retransmit_in' = current + j
  BY DEF ScheduleBackoff
<1>2. FIRST_BACKOFF + j > 0 /\ j \in Int
  BY BackoffAssumption
<1>3. backoff' = Smaller(2 * current, MAX_BACKOFF)
  BY DEF ScheduleBackoff
<1> QED
  BY <1>1, <1>2, <1>3, BackoffAssumption DEF Smaller

(***************************************************************************)
(* A renewal is never repeated at once (send_renewal's floor).             *)
(***************************************************************************)
LEMMA RenewalType ==
    ASSUME TypeOK, lease # None, bound_age # None, NEW s, SendRenewal(s)
    PROVE  /\ retransmit_in' \in Nat \ {0}
           /\ backoff' = backoff
<1> DEFINE boundary == IF s = "Renewing" THEN lease.t2 ELSE lease.lease_time
           remaining == Larger(boundary - bound_age, 0)
<1>1. boundary \in Nat /\ bound_age \in Nat
  BY DEF TypeOK, LeaseType
<1>2. remaining \in Nat
  BY <1>1 DEF Larger
<1>3. /\ retransmit_in' = Larger(remaining \div 2, MIN_RETRANSMIT)
      /\ backoff' = backoff
  BY DEF SendRenewal
<1> HIDE DEF remaining
<1>4. remaining \div 2 \in Nat
  BY <1>2
<1> QED
  BY <1>3, <1>4, BackoffAssumption DEF Larger

(***************************************************************************)
(* Entering Selecting establishes the invariant's part for that state,     *)
(* wherever it is entered from (enter_selecting).                          *)
(***************************************************************************)
LEMMA SelectingStep ==
    ASSUME NEW requested \in Addresses \cup {None}, EnterSelecting(requested),
           lease' = None, bound_age' = None, no_offer_reported' \in BOOLEAN
    PROVE  IInv' /\ retransmit_in' \in Nat \ {0}
<1>1. /\ retransmit_in' \in Nat \ {0}
      /\ backoff' \in FIRST_BACKOFF .. MAX_BACKOFF
  BY BackoffType, BackoffAssumption DEF EnterSelecting, SendDiscover
<1>2. /\ state' = "Selecting" /\ xid' \in Xids /\ attempts' = 0
      /\ offer' = None /\ reboot_address' = requested
  BY DEF EnterSelecting
<1>3. 0 \in 0 .. ATTEMPTS_CAP
  BY LimitsAssumption DEF ATTEMPTS_CAP, Larger
<1>4. TypeOK'
  BY <1>1, <1>2, <1>3 DEF TypeOK, States
<1>5. LeaseMatchesState' /\ TimersOrdered' /\ ExchangeInHand'
  BY <1>2 DEF LeaseMatchesState, TimersOrdered, ExchangeInHand, Holding
<1>6. RetransmissionPending'
  BY <1>1, NoneAssumption DEF RetransmissionPending
<1> QED
  BY <1>1, <1>4, <1>5, <1>6 DEF IInv

(***************************************************************************)
(* Entering Renewing or Rebinding keeps the lease and its clock.           *)
(***************************************************************************)
LEMMA RenewalStep ==
    ASSUME IInv, state \in Holding, NEW s \in {"Renewing", "Rebinding"},
           state' = s, xid' \in Xids, attempts' \in 0 .. ATTEMPTS_CAP, SendRenewal(s),
           UNCHANGED <<no_offer_reported, offer, lease, bound_age, reboot_address>>
    PROVE  IInv' /\ retransmit_in' \in Nat \ {0}
<1>1. lease # None /\ bound_age # None
  BY DEF IInv, LeaseMatchesState
<1>2. retransmit_in' \in Nat \ {0} /\ backoff' = backoff
  BY <1>1, RenewalType DEF IInv
<1>3. TypeOK'
  BY <1>2 DEF IInv, TypeOK, States
<1>4. LeaseMatchesState' /\ TimersOrdered' /\ ExchangeInHand'
  BY <1>1 DEF IInv, LeaseMatchesState, TimersOrdered, ExchangeInHand, Holding
<1>5. RetransmissionPending'
  BY <1>2, NoneAssumption DEF RetransmissionPending
<1> QED
  BY <1>2, <1>3, <1>4, <1>5 DEF IInv

-----------------------------------------------------------------------------
(***************************************************************************)
(* Client::new establishes the invariant.                                  *)
(***************************************************************************)
LEMMA InitIInv == Init => IInv
<1> SUFFICES ASSUME Init PROVE IInv
  OBVIOUS
<1>1. TypeOK
  <2>1. 0 \in 0 .. ATTEMPTS_CAP
    BY LimitsAssumption DEF ATTEMPTS_CAP, Larger
  <2>2. FIRST_BACKOFF \in FIRST_BACKOFF .. MAX_BACKOFF
    BY BackoffAssumption
  <2> QED
    BY <2>1, <2>2 DEF Init, TypeOK, States
<1>2. LeaseMatchesState /\ TimersOrdered /\ ExchangeInHand /\ RetransmissionPending
  BY DEF Init, LeaseMatchesState, TimersOrdered, ExchangeInHand,
         RetransmissionPending, Holding
<1> QED
  BY <1>1, <1>2 DEF IInv

(***************************************************************************)
(* Client::start preserves the invariant.                                  *)
(***************************************************************************)
LEMMA StartIInv ==
    ASSUME IInv, NEW previous \in Addresses \cup {None}, Start(previous)
    PROVE  IInv'
<1>1. lease' = None /\ bound_age' = None /\ no_offer_reported' \in BOOLEAN
  BY DEF Start
<1>2. CASE previous = None
  <2>1. EnterSelecting(None)
    BY <1>2 DEF Start
  <2> QED
    BY <1>1, <2>1, SelectingStep
<1>3. CASE previous # None
  <2>1. offer' = None /\ EnterRebooting(previous)
    BY <1>3 DEF Start
  <2>2. /\ retransmit_in' \in Nat \ {0}
        /\ backoff' \in FIRST_BACKOFF .. MAX_BACKOFF
    BY <2>1, BackoffType, BackoffAssumption DEF EnterRebooting, SendRebootRequest
  <2>3. /\ state' = "Rebooting" /\ xid' \in Xids /\ attempts' = 0
        /\ reboot_address' = previous
    BY <2>1 DEF EnterRebooting
  <2>4. 0 \in 0 .. ATTEMPTS_CAP
    BY LimitsAssumption DEF ATTEMPTS_CAP, Larger
  <2>5. TypeOK'
    BY <1>1, <1>3, <2>1, <2>2, <2>3, <2>4 DEF TypeOK, States
  <2>6. LeaseMatchesState' /\ TimersOrdered' /\ ExchangeInHand'
    BY <1>1, <1>3, <2>1, <2>3 DEF LeaseMatchesState, TimersOrdered, ExchangeInHand, Holding
  <2>7. RetransmissionPending'
    BY <2>2, NoneAssumption DEF RetransmissionPending
  <2> QED
    BY <2>5, <2>6, <2>7 DEF IInv
<1> QED
  BY <1>2, <1>3

(***************************************************************************)
(* Client::tick preserves the invariant, and never leaves a                *)
(* retransmission due.                                                     *)
(***************************************************************************)
LEMMA TickIInv ==
    ASSUME IInv, Tick
    PROVE  IInv' /\ retransmit_in' \in Nat \ {0}
<1>0. attempts + 1 \in Nat /\ AttemptsPlusOne \in 0 .. ATTEMPTS_CAP
  BY LimitsAssumption DEF IInv, TypeOK, AttemptsPlusOne, ATTEMPTS_CAP, Smaller, Larger
<1>a. 0 \in 0 .. ATTEMPTS_CAP
  BY LimitsAssumption DEF ATTEMPTS_CAP, Larger
<1>b. backoff \in FIRST_BACKOFF .. MAX_BACKOFF /\ reboot_address \in Addresses \cup {None}
  BY DEF IInv, TypeOK
<1>1. CASE TickRenewing
  BY <1>1, <1>a, RenewalStep DEF TickRenewing, EnterRenewing, Holding
<1>2. CASE TickRebinding
  BY <1>2, <1>a, RenewalStep DEF TickRebinding, EnterRebinding, Holding
<1>3. CASE TickExpired
  <2>1. EnterSelecting(reboot_address) /\ lease' = None /\ bound_age' = None
    BY <1>3 DEF TickExpired
  <2>2. no_offer_reported' \in BOOLEAN
    BY <1>3 DEF TickExpired, IInv, TypeOK
  <2> QED
    BY <1>b, <2>1, <2>2, SelectingStep
<1>4. CASE RetransmitDiscover
  <2>1. /\ retransmit_in' \in Nat \ {0}
        /\ backoff' \in FIRST_BACKOFF .. MAX_BACKOFF
    BY <1>4, <1>b, BackoffType DEF RetransmitDiscover, SendDiscover
  <2>2. /\ state' = "Selecting" /\ state = "Selecting"
        /\ attempts' = AttemptsPlusOne
        /\ UNCHANGED <<xid, offer, lease, bound_age, reboot_address>>
        /\ no_offer_reported' \in BOOLEAN
    BY <1>4 DEF RetransmitDiscover, IInv, TypeOK
  <2>3. TypeOK'
    BY <1>0, <2>1, <2>2 DEF IInv, TypeOK
  <2>4. LeaseMatchesState' /\ TimersOrdered' /\ ExchangeInHand'
    BY <2>2 DEF IInv, LeaseMatchesState, TimersOrdered, ExchangeInHand, Holding
  <2>5. RetransmissionPending'
    BY <2>1, NoneAssumption DEF RetransmissionPending
  <2> QED
    BY <2>1, <2>3, <2>4, <2>5 DEF IInv
<1>5. CASE RetransmitRequest
  <2>1. /\ state = "Requesting" /\ no_offer_reported' = no_offer_reported
        /\ lease' = lease /\ bound_age' = bound_age
    BY <1>5 DEF RetransmitRequest
  <2>2. lease = None /\ bound_age = None /\ no_offer_reported \in BOOLEAN
    BY <2>1 DEF IInv, TypeOK, LeaseMatchesState, Holding
  <2>3. CASE EnterSelecting(reboot_address)
    BY <1>b, <2>1, <2>2, <2>3, SelectingStep
  <2>4. CASE /\ attempts' = AttemptsPlusOne
             /\ SendRequestForOffer(backoff, offer)
             /\ UNCHANGED <<state, xid, offer, reboot_address>>
    <3>1. /\ retransmit_in' \in Nat \ {0}
          /\ backoff' \in FIRST_BACKOFF .. MAX_BACKOFF
      BY <1>b, <2>4, BackoffType DEF SendRequestForOffer
    <3>2. TypeOK'
      BY <1>0, <2>1, <2>4, <3>1 DEF IInv, TypeOK
    <3>3. LeaseMatchesState' /\ TimersOrdered' /\ ExchangeInHand'
      BY <2>1, <2>4 DEF IInv, LeaseMatchesState, TimersOrdered, ExchangeInHand
    <3>4. RetransmissionPending'
      BY <3>1, NoneAssumption DEF RetransmissionPending
    <3> QED
      BY <3>1, <3>2, <3>3, <3>4 DEF IInv
  <2> QED
    BY <1>5, <2>3, <2>4 DEF RetransmitRequest
<1>6. CASE RetransmitReboot
  <2>1. /\ state = "Rebooting" /\ no_offer_reported' = no_offer_reported
        /\ lease' = lease /\ bound_age' = bound_age
    BY <1>6 DEF RetransmitReboot
  <2>2. lease = None /\ bound_age = None /\ no_offer_reported \in BOOLEAN
    BY <2>1 DEF IInv, TypeOK, LeaseMatchesState, Holding
  <2>3. CASE EnterSelecting(None)
    BY <2>1, <2>2, <2>3, SelectingStep
  <2>4. CASE /\ attempts' = AttemptsPlusOne
             /\ SendRebootRequest(backoff, reboot_address)
             /\ UNCHANGED <<state, xid, offer, reboot_address>>
    <3>1. /\ retransmit_in' \in Nat \ {0}
          /\ backoff' \in FIRST_BACKOFF .. MAX_BACKOFF
      BY <1>b, <2>4, BackoffType DEF SendRebootRequest
    <3>2. TypeOK'
      BY <1>0, <2>1, <2>4, <3>1 DEF IInv, TypeOK
    <3>3. LeaseMatchesState' /\ TimersOrdered' /\ ExchangeInHand'
      BY <2>1, <2>4 DEF IInv, LeaseMatchesState, TimersOrdered, ExchangeInHand
    <3>4. RetransmissionPending'
      BY <3>1, NoneAssumption DEF RetransmissionPending
    <3> QED
      BY <3>1, <3>2, <3>3, <3>4 DEF IInv
  <2> QED
    BY <1>6, <2>3, <2>4 DEF RetransmitReboot
<1>7. CASE RetransmitRenewal
  <2>1. state \in {"Renewing", "Rebinding"} /\ state \in Holding
    BY <1>7 DEF RetransmitRenewal, Holding
  <2>2. /\ state' = state /\ xid' \in Xids /\ attempts' \in 0 .. ATTEMPTS_CAP
        /\ SendRenewal(state)
        /\ UNCHANGED <<no_offer_reported, offer, lease, bound_age, reboot_address>>
    BY <1>7 DEF RetransmitRenewal, IInv, TypeOK
  <2> QED
    BY <2>1, <2>2, RenewalStep
<1> QED
  BY <1>1, <1>2, <1>3, <1>4, <1>5, <1>6, <1>7 DEF Tick

(***************************************************************************)
(* Client::receive preserves the invariant.                                *)
(***************************************************************************)
LEMMA ReceiveIInv ==
    ASSUME IInv, NEW m \in Messages, Receive(m)
    PROVE  IInv'
<1>1. CASE ReceiveOffer(m)
  <2> DEFINE o == [server |-> m.server, yiaddr |-> m.yiaddr]
  <2>1. /\ state = "Selecting" /\ o \in [server : Servers, yiaddr : Addresses]
        /\ EnterRequesting(o)
        /\ UNCHANGED <<no_offer_reported, lease, bound_age>>
    BY <1>1 DEF ReceiveOffer, TakesOffer, Messages
  <2>2. o # None
    BY <2>1, AddressesAssumption
  <2> HIDE DEF o
  <2>3. /\ retransmit_in' \in Nat \ {0}
        /\ backoff' \in FIRST_BACKOFF .. MAX_BACKOFF
    BY <2>1, BackoffType, BackoffAssumption DEF EnterRequesting, SendRequestForOffer
  <2>4. /\ state' = "Requesting" /\ attempts' = 0 /\ offer' = o
        /\ UNCHANGED <<xid, reboot_address>>
    BY <2>1 DEF EnterRequesting
  <2>5. 0 \in 0 .. ATTEMPTS_CAP
    BY LimitsAssumption DEF ATTEMPTS_CAP, Larger
  <2>6. TypeOK'
    BY <2>1, <2>3, <2>4, <2>5 DEF IInv, TypeOK, States
  <2>7. LeaseMatchesState' /\ TimersOrdered' /\ ExchangeInHand'
    BY <2>1, <2>2, <2>4
    DEF IInv, LeaseMatchesState, TimersOrdered, ExchangeInHand, Holding
  <2>8. RetransmissionPending'
    BY <2>3, NoneAssumption DEF RetransmissionPending
  <2> QED
    BY <2>6, <2>7, <2>8 DEF IInv
<1>2. CASE ReceiveAck(m)
  <2>1. LeaseOf(m) # None
    BY <1>2 DEF ReceiveAck, TakesAck
  <2>2. /\ LeaseOf(m) \in LeaseType
        /\ 0 < LeaseOf(m).t1
        /\ LeaseOf(m).t1 < LeaseOf(m).t2
        /\ LeaseOf(m).t2 < LeaseOf(m).lease_time
    BY <2>1, LeaseOfAck
  <2>3. /\ no_offer_reported' = FALSE /\ state' = "Bound"
        /\ retransmit_in' = None /\ bound_age' = 0
        /\ lease' = LeaseOf(m) /\ reboot_address' = LeaseOf(m).address
        /\ UNCHANGED <<xid, backoff, attempts, offer>>
    BY <1>2 DEF ReceiveAck
  <2>4. TypeOK'
    BY <2>2, <2>3 DEF IInv, TypeOK, States, LeaseType
  <2>5. LeaseMatchesState'
    BY <2>1, <2>3, NoneAssumption DEF LeaseMatchesState, Holding
  <2>6. TimersOrdered'
    BY <2>2, <2>3 DEF TimersOrdered, LeaseType
  <2>7. ExchangeInHand' /\ RetransmissionPending'
    BY <2>3 DEF ExchangeInHand, RetransmissionPending
  <2> QED
    BY <2>4, <2>5, <2>6, <2>7 DEF IInv
<1>3. CASE ReceiveNakRequest(m)
  <2>1. /\ state \in {"Requesting", "Rebooting"} /\ EnterSelecting(None)
        /\ UNCHANGED <<no_offer_reported, lease, bound_age>>
    BY <1>3 DEF ReceiveNakRequest, RefusesRequest
  <2>2. lease' = None /\ bound_age' = None /\ no_offer_reported' \in BOOLEAN
    BY <2>1 DEF IInv, TypeOK, LeaseMatchesState, Holding
  <2> QED
    BY <2>1, <2>2, SelectingStep
<1>4. CASE ReceiveNakLease(m)
  <2>1. EnterSelecting(None) /\ lease' = None /\ bound_age' = None
    BY <1>4 DEF ReceiveNakLease
  <2>2. no_offer_reported' \in BOOLEAN
    BY <1>4 DEF ReceiveNakLease, IInv, TypeOK
  <2> QED
    BY <2>1, <2>2, SelectingStep
<1>5. CASE Ignore(m)
  BY <1>5 DEF Ignore, IInv, TypeOK, LeaseMatchesState, TimersOrdered, ExchangeInHand,
              RetransmissionPending
<1> QED
  BY <1>1, <1>2, <1>3, <1>4, <1>5 DEF Receive

(***************************************************************************)
(* The passing of time preserves the invariant.                            *)
(***************************************************************************)
LEMMA ElapseIInv ==
    ASSUME IInv, Elapse
    PROVE  IInv'
<1>1. UNCHANGED <<state, xid, backoff, attempts, no_offer_reported, offer,
                  lease, reboot_address>>
  BY DEF Elapse
<1>2. retransmit_in' \in Nat \cup {None} /\ (retransmit_in # None => retransmit_in' # None)
  <2>1. CASE retransmit_in = None
    BY <2>1 DEF Elapse
  <2>2. CASE retransmit_in # None
    BY <2>2, NoneAssumption DEF Elapse, Larger, IInv, TypeOK
  <2> QED
    BY <2>1, <2>2
<1>3. /\ lease = None => bound_age' = None
      /\ lease # None => bound_age' \in Nat /\ bound_age' <= lease.lease_time
  <2>1. CASE lease = None
    BY <2>1 DEF Elapse
  <2>2. CASE lease # None
    <3>1. bound_age \in Nat /\ lease.lease_time \in Nat
      BY <2>2 DEF IInv, TypeOK, LeaseMatchesState, LeaseType
    <3> QED
      BY <2>2, <3>1 DEF Elapse, Smaller
  <2> QED
    BY <2>1, <2>2
<1>4. TypeOK'
  BY <1>1, <1>2, <1>3 DEF IInv, TypeOK
<1>5. LeaseMatchesState'
  BY <1>1, <1>3, NoneAssumption DEF IInv, LeaseMatchesState
<1>6. TimersOrdered'
  BY <1>1, <1>3 DEF IInv, TimersOrdered
<1>7. ExchangeInHand' /\ RetransmissionPending'
  BY <1>1, <1>2 DEF IInv, ExchangeInHand, RetransmissionPending
<1> QED
  BY <1>4, <1>5, <1>6, <1>7 DEF IInv

-----------------------------------------------------------------------------
(***************************************************************************)
(* Every call preserves the invariant.                                     *)
(***************************************************************************)
LEMMA NextIInv == IInv /\ [Next]_vars => IInv'
<1> SUFFICES ASSUME IInv, [Next]_vars PROVE IInv'
  OBVIOUS
<1>1. ASSUME NEW previous \in Addresses \cup {None}, Start(previous) PROVE IInv'
  BY <1>1, StartIInv
<1>2. CASE Release
  <2>1. /\ state' = "Init" /\ lease' = None /\ bound_age' = None /\ retransmit_in' = None
        /\ UNCHANGED <<xid, backoff, attempts, no_offer_reported, offer, reboot_address>>
    BY <1>2 DEF Release
  <2>2. TypeOK'
    BY <2>1 DEF IInv, TypeOK, States
  <2>3. LeaseMatchesState' /\ TimersOrdered' /\ ExchangeInHand' /\ RetransmissionPending'
    BY <2>1 DEF LeaseMatchesState, TimersOrdered, ExchangeInHand, RetransmissionPending, Holding
  <2> QED
    BY <2>2, <2>3 DEF IInv
<1>3. CASE RenewNow
  <2>1. 0 \in 0 .. ATTEMPTS_CAP
    BY LimitsAssumption DEF ATTEMPTS_CAP, Larger
  <2> QED
    BY <1>3, <2>1, RenewalStep DEF RenewNow, EnterRenewing
<1>4. CASE Tick
  BY <1>4, TickIInv
<1>5. ASSUME NEW m \in Messages, Receive(m) PROVE IInv'
  BY <1>5, ReceiveIInv
<1>6. CASE Elapse
  BY <1>6, ElapseIInv
<1>7. CASE UNCHANGED vars
  BY <1>7 DEF vars, IInv, TypeOK, LeaseMatchesState, TimersOrdered, ExchangeInHand,
              RetransmissionPending
<1> QED
  BY <1>1, <1>2, <1>3, <1>4, <1>5, <1>6, <1>7 DEF Next

(***************************************************************************)
(* The invariant holds of every behaviour of the client.                   *)
(***************************************************************************)
THEOREM Invariance == Spec => []IInv
  BY InitIInv, NextIInv, PTL DEF Spec

(***************************************************************************)
(* The client's fields keep their types (Client in client.rs).             *)
(***************************************************************************)
THEOREM TypeCorrect == Spec => []TypeOK
<1>1. IInv => TypeOK
  BY DEF IInv
<1> QED
  BY <1>1, Invariance, PTL

(***************************************************************************)
(* A started client always has a deadline for the loop to wake on          *)
(* (next_deadline is Some in every state but Init).                        *)
(***************************************************************************)
LEMMA AlwaysScheduled ==
    ASSUME IInv
    PROVE  Scheduled
<1> SUFFICES ASSUME state # "Init" PROVE Deadlines # {}
  BY DEF Scheduled
<1>1. CASE state = "Bound"
  <2>1. lease # None /\ state \in Holding
    BY <1>1 DEF IInv, LeaseMatchesState, Holding
  <2> QED
    BY <2>1 DEF Deadlines
<1>2. CASE state # "Bound"
  <2>1. retransmit_in # None
    BY <1>2 DEF IInv, RetransmissionPending
  <2> QED
    BY <2>1 DEF Deadlines
<1> QED
  BY <1>1, <1>2

(***************************************************************************)
(* A lease is held exactly in Bound, Renewing and Rebinding, with          *)
(* T1 < T2 < the lease time, every request has what it asks for, and a     *)
(* started client always gives the loop a deadline (next_deadline).        *)
(***************************************************************************)
THEOREM LeaseSafety == Spec => []Consistent
<1>1. IInv => Consistent
  BY AlwaysScheduled DEF IInv, Consistent
<1> QED
  BY <1>1, Invariance, PTL

(***************************************************************************)
(* A tick leaves nothing due, or moves an over-age lease towards Lost: the *)
(* loop never spins on a client, and three ticks lose an expired lease.    *)
(***************************************************************************)
THEOREM TickProgress == Spec => TickMakesProgress
<1>1. ASSUME IInv, IInv', Tick PROVE ~Due' \/ TicksToLose' < TicksToLose
  <2>1. retransmit_in' \in Nat \ {0}
    BY <1>1, TickIInv
  <2>2. CASE TickRenewing
    BY <2>2 DEF TickRenewing, EnterRenewing, TicksToLose
  <2>3. CASE TickRebinding
    BY <2>3 DEF TickRebinding, EnterRebinding, TicksToLose
  <2>4. CASE RetransmitRenewal
    <3>1. /\ state \in {"Renewing", "Rebinding"} /\ ~BoundaryDue /\ state \in Holding
          /\ UNCHANGED <<state, lease, bound_age>>
      BY <2>4 DEF RetransmitRenewal, RetransmitDue, Holding
    <3>2. lease # None /\ bound_age \in Nat /\ Boundary \in Nat
      BY <1>1, <3>1 DEF IInv, LeaseMatchesState, TypeOK, LeaseType, Boundary
    <3>3. bound_age < Boundary
      BY <3>1, <3>2 DEF BoundaryDue
    <3>4. Boundary' = Boundary
      BY <3>1 DEF Boundary
    <3>5. Deadlines' \subseteq {retransmit_in', Larger(Boundary - bound_age, 0)}
      BY <3>1, <3>4 DEF Deadlines
    <3> QED
      BY <2>1, <3>2, <3>3, <3>5 DEF Due, Larger
  <2>5. CASE state' \notin Holding
    BY <2>1, <2>5 DEF Due, Deadlines
  <2>6. CASE TickExpired \/ RetransmitDiscover \/ RetransmitRequest \/ RetransmitReboot
    <3>1. state' \notin Holding
      BY <2>6 DEF TickExpired, RetransmitDiscover, RetransmitRequest, RetransmitReboot,
                  EnterSelecting, Holding
    <3> QED
      BY <2>5, <3>1
  <2> QED
    BY <1>1, <2>2, <2>3, <2>4, <2>6 DEF Tick
<1>2. IInv /\ IInv' /\ [Next]_vars => [Tick => (~Due' \/ TicksToLose' < TicksToLose)]_vars
  BY <1>1
<1> QED
  BY <1>2, Invariance, PTL DEF Spec, TickMakesProgress

-----------------------------------------------------------------------------
(***************************************************************************)
(* Refinement: every call of the client is a step of LeaseService.  First, *)
(* which client states stand for which phase.                              *)
(***************************************************************************)
LEMMA PhaseOf ==
    ASSUME state \in States
    PROVE  /\ Phase = "off" <=> state = "Init"
           /\ Phase = "rebooting" <=> state = "Rebooting"
           /\ Phase = "held" <=> state \in Holding
           /\ Phase = "acquiring" <=> state \in {"Selecting", "Requesting"}
BY DEF Phase, States, Holding

(***************************************************************************)
(* A call that reports nothing and keeps the lease is LeaseService's Work, *)
(* unless it left a held lease or a running client behind.                 *)
(***************************************************************************)
LEMMA QuietStep ==
    ASSUME state # "Init", Phase' = Phase \/ (Phase = "rebooting" /\ Phase' = "acquiring"),
           state \in States, event' = None, UNCHANGED <<lease, no_offer_reported>>
    PROVE  Service!Next
<1>1. Phase # "off"
  BY PhaseOf
<1> QED
  BY <1>1 DEF Service!Next, Service!Work

(***************************************************************************)
(* Client::tick says NoOffer and Lost only when LeaseService may.          *)
(***************************************************************************)
LEMMA TickRefines ==
    ASSUME IInv, IInv', Tick
    PROVE  Service!Next
<1>0. state \in States /\ state' \in States
  BY DEF IInv, TypeOK
<1>1. CASE TickRenewing \/ TickRebinding \/ RetransmitRenewal
  <2>1. /\ state \in Holding /\ state' \in Holding /\ event' = None
        /\ UNCHANGED <<lease, no_offer_reported>>
    BY <1>1 DEF TickRenewing, TickRebinding, RetransmitRenewal, EnterRenewing,
                EnterRebinding, Holding
  <2>2. Phase = "held" /\ Phase' = "held" /\ state # "Init"
    BY <2>1 DEF Phase, Holding
  <2> QED
    BY <1>0, <2>1, <2>2, QuietStep
<1>2. CASE TickExpired
  <2>1. /\ state = "Rebinding" /\ state' = "Selecting" /\ lease' = None
        /\ event' = Lost /\ no_offer_reported' = no_offer_reported
    BY <1>2 DEF TickExpired, EnterSelecting
  <2>2. Phase = "held" /\ Phase' = "acquiring"
    BY <2>1 DEF Phase, Holding
  <2> QED
    BY <2>1, <2>2 DEF Service!Next, Service!Lose, Service!Lost, Lost
<1>3. CASE RetransmitDiscover
  <2>1. /\ state = "Selecting" /\ state' = "Selecting" /\ lease' = lease
        /\ \/ event' = None /\ no_offer_reported' = no_offer_reported
           \/ event' = NoOffer /\ ~no_offer_reported /\ no_offer_reported' = TRUE
    BY <1>3 DEF RetransmitDiscover, IInv, TypeOK
  <2>2. Phase = "acquiring" /\ Phase' = "acquiring"
    BY <2>1 DEF Phase, Holding
  <2>3. CASE event' = None /\ no_offer_reported' = no_offer_reported
    BY <1>0, <2>1, <2>2, <2>3, QuietStep
  <2>4. CASE event' = NoOffer /\ ~no_offer_reported /\ no_offer_reported' = TRUE
    BY <2>1, <2>2, <2>4 DEF Service!Next, Service!ReportNoOffer, Service!NoOffer, NoOffer
  <2> QED
    BY <2>1, <2>3, <2>4
<1>4. CASE RetransmitRequest
  <2>1. /\ state = "Requesting" /\ state' \in {"Requesting", "Selecting"}
        /\ event' = None /\ UNCHANGED <<lease, no_offer_reported>>
    BY <1>4 DEF RetransmitRequest, EnterSelecting
  <2>2. Phase = "acquiring" /\ Phase' = "acquiring"
    BY <2>1 DEF Phase, Holding
  <2> QED
    BY <1>0, <2>1, <2>2, QuietStep
<1>5. CASE RetransmitReboot
  <2>1. /\ state = "Rebooting" /\ state' \in {"Rebooting", "Selecting"}
        /\ event' = None /\ UNCHANGED <<lease, no_offer_reported>>
    BY <1>5 DEF RetransmitReboot, EnterSelecting
  <2>2. Phase = "rebooting" /\ Phase' \in {"rebooting", "acquiring"}
    BY <2>1 DEF Phase, Holding
  <2> QED
    BY <1>0, <2>1, <2>2, QuietStep
<1> QED
  BY <1>1, <1>2, <1>3, <1>4, <1>5 DEF Tick

(***************************************************************************)
(* Client::receive binds and loses leases only as LeaseService may; this   *)
(* is where the server check of receive is needed.                         *)
(***************************************************************************)
LEMMA ReceiveRefines ==
    ASSUME IInv, IInv', NEW m \in Messages, Receive(m)
    PROVE  Service!Next
<1>0. state \in States /\ state' \in States
  BY DEF IInv, TypeOK
<1>1. CASE ReceiveOffer(m)
  <2>1. /\ state = "Selecting" /\ state' = "Requesting"
        /\ event' = None /\ UNCHANGED <<lease, no_offer_reported>>
    BY <1>1 DEF ReceiveOffer, TakesOffer, EnterRequesting
  <2>2. Phase = "acquiring" /\ Phase' = "acquiring"
    BY <2>1 DEF Phase, Holding
  <2> QED
    BY <1>0, <2>1, <2>2, QuietStep
<1>2. CASE ReceiveAck(m)
  <2> DEFINE l == LeaseOf(m)
  <2>1. l # None /\ l.server = m.server /\ l \in Leases
    BY <1>2, LeaseOfAck DEF ReceiveAck, TakesAck, Leases
  <2>2. /\ state # "Init" /\ state' = "Bound" /\ lease' = l
        /\ no_offer_reported' = FALSE /\ event' = Bound(l)
    BY <1>2 DEF ReceiveAck, TakesAck
  <2>3. ASSUME Phase = "held" PROVE l.server = lease.server
    <3>1. lease # None /\ lease.server \in Servers
      BY <1>0, <2>3, PhaseOf DEF IInv, LeaseMatchesState, TypeOK, LeaseType
    <3>2. Chosen = lease.server /\ Chosen # None
      BY <3>1, AddressesAssumption DEF Chosen
    <3>3. m.server = Chosen
      BY <1>2, <3>2 DEF ReceiveAck, Accepted, TakesAck
    <3> QED
      BY <2>1, <3>2, <3>3
  <2>4. Phase # "off" /\ Phase' = "held"
    BY <1>0, <2>2 DEF Phase, Holding, States
  <2> HIDE DEF l
  <2>5. Service!Bind(l)
    BY <2>2, <2>3, <2>4 DEF Service!Bind, Service!Bound, Bound
  <2> QED
    BY <2>1, <2>5 DEF Service!Next
<1>3. CASE ReceiveNakRequest(m)
  <2>1. /\ state \in {"Requesting", "Rebooting"} /\ state' = "Selecting"
        /\ event' = None /\ UNCHANGED <<lease, no_offer_reported>>
    BY <1>3 DEF ReceiveNakRequest, RefusesRequest, EnterSelecting
  <2>2. Phase \in {"acquiring", "rebooting"} /\ Phase' = "acquiring"
    BY <2>1 DEF Phase, Holding
  <2> QED
    BY <1>0, <2>1, <2>2, QuietStep
<1>4. CASE ReceiveNakLease(m)
  <2>1. /\ state \in {"Renewing", "Rebinding"} /\ state' = "Selecting" /\ lease' = None
        /\ event' = Lost /\ no_offer_reported' = no_offer_reported
    BY <1>4 DEF ReceiveNakLease, RefusesLease, EnterSelecting
  <2>2. Phase = "held" /\ Phase' = "acquiring"
    BY <2>1 DEF Phase, Holding
  <2> QED
    BY <2>1, <2>2 DEF Service!Next, Service!Lose, Service!Lost, Lost
<1>5. CASE Ignore(m)
  <2>1. state # "Init" /\ event' = None /\ UNCHANGED <<state, lease, no_offer_reported>>
    BY <1>5 DEF Ignore
  <2>2. Phase' = Phase
    BY <2>1 DEF Phase
  <2> QED
    BY <1>0, <2>1, <2>2, QuietStep
<1> QED
  BY <1>1, <1>2, <1>3, <1>4, <1>5 DEF Receive

(***************************************************************************)
(* The DHCPv4 client implements LeaseService: the daemon's copy of the     *)
(* lease can follow the client's by its events alone, a held lease is only *)
(* replaced by its own server's, and silence is reported once per          *)
(* unanswered acquisition.                                                 *)
(***************************************************************************)
THEOREM Refinement == Spec => ImplementsLeaseService
<1>1. Init => Service!Init
  BY DEF Init, Service!Init, Phase, Holding
<1>2. IInv /\ IInv' /\ [Next]_vars => [Service!Next]_(Service!vars)
  <2> SUFFICES ASSUME IInv, IInv', [Next]_vars PROVE [Service!Next]_(Service!vars)
    OBVIOUS
  <2>0. state \in States /\ state' \in States
    BY DEF IInv, TypeOK
  <2>1. ASSUME NEW previous \in Addresses \cup {None}, Start(previous) PROVE Service!Next
    <3>1. /\ state = "Init" /\ state' \in {"Rebooting", "Selecting"} /\ lease' = None
          /\ no_offer_reported' = FALSE /\ event' = None
      BY <2>1 DEF Start, EnterRebooting, EnterSelecting
    <3>2. Phase = "off" /\ Phase' \in {"rebooting", "acquiring"}
      BY <3>1 DEF Phase, Holding
    <3> QED
      BY <3>1, <3>2 DEF Service!Next, Service!Begin
  <2>2. CASE Release
    <3>1. /\ state # "Init" /\ state' = "Init" /\ lease' = None
          /\ no_offer_reported' = no_offer_reported /\ event' = None
      BY <2>2 DEF Release
    <3>2. Phase # "off" /\ Phase' = "off"
      BY <2>0, <3>1, PhaseOf DEF Phase, Holding
    <3> QED
      BY <3>1, <3>2 DEF Service!Next, Service!End
  <2>3. CASE RenewNow
    <3>1. /\ state \in Holding /\ state' = "Renewing" /\ event' = None
          /\ UNCHANGED <<lease, no_offer_reported>>
      BY <2>3 DEF RenewNow, EnterRenewing
    <3>2. Phase = "held" /\ Phase' = "held" /\ state # "Init"
      BY <3>1 DEF Phase, Holding
    <3> QED
      BY <2>0, <3>1, <3>2, QuietStep
  <2>4. CASE Tick
    BY <2>4, TickRefines
  <2>5. ASSUME NEW m \in Messages, Receive(m) PROVE Service!Next
    BY <2>5, ReceiveRefines
  <2>6. CASE Elapse
    <3>1. UNCHANGED <<state, lease, no_offer_reported, event>>
      BY <2>6 DEF Elapse
    <3> QED
      BY <3>1 DEF Service!vars, Phase
  <2>7. CASE UNCHANGED vars
    BY <2>7 DEF vars, Service!vars, Phase
  <2> QED
    BY <2>1, <2>2, <2>3, <2>4, <2>5, <2>6, <2>7 DEF Next
<1> QED
  BY <1>1, <1>2, Invariance, PTL DEF Spec, ImplementsLeaseService, Service!Spec

=============================================================================
