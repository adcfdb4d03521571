---------------------------- MODULE ControlProofs ----------------------------
(***************************************************************************)
(* Proofs about the control socket's slots, for every set of callers and   *)
(* requests, every limit, batch and timeout that satisfies the assumption  *)
(* of Control.                                                             *)
(***************************************************************************)
EXTENDS Control, FiniteSetTheorems, FunctionTheorems, SequenceTheorems, TLAPS

-----------------------------------------------------------------------------
(***************************************************************************)
(* The inductive invariant.  Nothing is left to service when the loop goes *)
(* back to poll, so accept never meets a descriptor that poll has spoken   *)
(* of; and while a deadline has not come, the time a client has had its    *)
(* slot and the time left to it make up at most one timeout while it is    *)
(* read and two while it is written.                                       *)
(***************************************************************************)
Client == [caller : Callers, left : 0 .. IO_TIMEOUT, age : 0 .. 2 * IO_TIMEOUT,
           state : {"reading", "writing"}, count : {0, 1}]

Timely(k) ==
    k.left > 0 => k.age + k.left <= IF k.state = "reading" THEN IO_TIMEOUT ELSE 2 * IO_TIMEOUT

TypeOK ==
    /\ MAX_CLIENTS \in Nat
    /\ backlog \in Seq(Callers)
    /\ polled \in SUBSET (Fds \X Callers)
    /\ pending \in [Fds -> Client \cup {None}]

AllTimely == \A fd \in Fds : pending[fd] # None => Timely(pending[fd])

WithinLimit == Cardinality(Held) <= MAX_CLIENTS

IInv ==
    /\ TypeOK
    /\ phase = "poll" => polled = {}
    /\ ServedAsPolled
    /\ AllTimely
    /\ WithinLimit

-----------------------------------------------------------------------------
(***************************************************************************)
(* The minimum and maximum of a few integers, as FiniteSetsExt defines     *)
(* them.                                                                   *)
(***************************************************************************)
LEMMA MinOfTwo ==
    ASSUME NEW a \in Int, NEW b \in Int
    PROVE  Min({a, b}) \in {a, b} /\ Min({a, b}) <= a /\ Min({a, b}) <= b
<1>1. \E x \in {a, b} : \A y \in {a, b} : x =< y
  BY SMT
<1> QED
  BY <1>1 DEF Min

LEMMA MaxOfTwo ==
    ASSUME NEW a \in Int, NEW b \in Int
    PROVE  Max({a, b}) \in {a, b} /\ Max({a, b}) >= a /\ Max({a, b}) >= b
<1>1. \E x \in {a, b} : \A y \in {a, b} : x >= y
  BY SMT
<1> QED
  BY <1>1 DEF Max

LEMMA MinOfThree ==
    ASSUME NEW a \in Int, NEW b \in Int, NEW c \in Int
    PROVE  /\ Min({a, b, c}) \in {a, b, c}
           /\ Min({a, b, c}) <= a /\ Min({a, b, c}) <= b /\ Min({a, b, c}) <= c
<1>1. \E x \in {a, b, c} : \A y \in {a, b, c} : x =< y
  BY SMT
<1> QED
  BY <1>1 DEF Min

(***************************************************************************)
(* The descriptors are finitely many, and so are the slots in use.         *)
(***************************************************************************)
LEMMA FiniteSlots ==
    /\ IsFiniteSet(Fds)
    /\ IsFiniteSet(Held) /\ Cardinality(Held) \in Nat
<1>1. Cardinality(Callers) \in Nat
  BY ControlAssumption, FS_CardinalityType
<1>2. IsFiniteSet(Fds)
  BY <1>1, FS_Interval DEF Fds
<1>3. Held \in SUBSET Fds
  BY DEF Held
<1>4. IsFiniteSet(Held)
  BY <1>2, <1>3, FS_Subset
<1> QED
  BY <1>2, <1>4, FS_CardinalityType

(***************************************************************************)
(* A smaller set of slots in use is still within the limit.                *)
(***************************************************************************)
LEMMA FewerSlots ==
    ASSUME WithinLimit, MAX_CLIENTS \in Nat, MAX_CLIENTS' = MAX_CLIENTS,
           Held' \in SUBSET Held
    PROVE  WithinLimit'
<1>1. Cardinality(Held') <= Cardinality(Held) /\ IsFiniteSet(Held')
  BY FiniteSlots, FS_Subset
<1>2. Cardinality(Held') \in Nat
  BY <1>1, FS_CardinalityType
<1> QED
  BY <1>1, <1>2, FiniteSlots DEF WithinLimit

-----------------------------------------------------------------------------
(***************************************************************************)
(* What service leaves of one descriptor: nothing, the client as it was or *)
(* one part further, or a reply begun; the last only for a request, and    *)
(* nothing but closing once the deadline has come.                         *)
(***************************************************************************)
Left(fd, k) ==
    \/ pending' = pending
    \/ pending' = [pending EXCEPT ![fd] = None]
    \/ /\ k # None /\ k.left > 0
       /\ \/ pending' = [pending EXCEPT ![fd] = k]
          \/ pending' = [pending EXCEPT ![fd] = Progress(k)]
          \/ k.state = "reading" /\ pending' = [pending EXCEPT ![fd] = ReplyWith(k)]

LEMMA ServiceLeaves ==
    ASSUME Service
    PROVE  \E p \in polled : polled' = polled \ {p} /\ Left(p[1], pending[p[1]])
<1>1. PICK p \in polled :
        /\ polled' = polled \ {p}
        /\ \/ UNCHANGED pending
           \/ Close(p[1], pending[p[1]])
           \/ /\ pending[p[1]] # None /\ pending[p[1]].left > 0
              /\ advance(p[1], pending[p[1]])
  BY DEF Service
<1> DEFINE fd == p[1]
           k == pending[fd]
<1>2. CASE UNCHANGED pending
  BY <1>1, <1>2 DEF Left
<1>3. CASE Close(fd, k)
  BY <1>1, <1>3 DEF Left, Close
<1>4. CASE k # None /\ k.left > 0 /\ advance(fd, k)
  <2>1. CASE AdvanceReading(fd, k) /\ k.state = "reading"
    BY <1>1, <1>4, <2>1
       DEF Left, AdvanceReading, KeepClient, Close, handle_control, Subscribe
  <2>2. CASE AdvanceWriting(fd, k)
    BY <1>1, <1>4, <2>2 DEF Left, AdvanceWriting, KeepClient, Close
  <2> QED
    BY <1>4, <2>1, <2>2 DEF advance
<1> QED
  BY <1>1, <1>2, <1>3, <1>4

(***************************************************************************)
(* Each of these is a client that belongs to the same caller and whose     *)
(* time still adds up: a request is replied to before its deadline, so the *)
(* reply's timeout begins within the first one.                            *)
(***************************************************************************)
LEMMA StillTimely ==
    ASSUME NEW k \in Client, Timely(k), k.left > 0
    PROVE  /\ Progress(k) \in Client /\ Progress(k).caller = k.caller /\ Timely(Progress(k))
           /\ k.state = "reading" => /\ ReplyWith(k) \in Client /\ ReplyWith(k).caller = k.caller
                                     /\ Timely(ReplyWith(k))
<1>1. IO_TIMEOUT \in Nat \ {0}
  BY ControlAssumption
<1>2. Progress(k) \in Client /\ Progress(k).caller = k.caller /\ Timely(Progress(k))
  BY <1>1 DEF Progress, Client, Timely
<1>3. ASSUME k.state = "reading"
      PROVE  /\ ReplyWith(k) \in Client /\ ReplyWith(k).caller = k.caller
             /\ Timely(ReplyWith(k))
  <2>1. k.left \in 0 .. IO_TIMEOUT /\ k.age \in 0 .. 2 * IO_TIMEOUT /\ IO_TIMEOUT \in 0 .. IO_TIMEOUT
    BY <1>1 DEF Client
  <2>2. /\ ReplyWith(k) \in Client /\ ReplyWith(k).caller = k.caller
        /\ ReplyWith(k).age = k.age /\ ReplyWith(k).left = IO_TIMEOUT
        /\ ReplyWith(k).state = "writing"
    BY <2>1 DEF ReplyWith, Client
  <2>3. k.age <= IO_TIMEOUT
    BY <1>1, <1>3, <2>1 DEF Timely
  <2>4. Timely(ReplyWith(k))
    BY <1>1, <2>1, <2>2, <2>3 DEF Timely
  <2> QED
    BY <2>2, <2>4
<1> QED
  BY <1>2, <1>3

(***************************************************************************)
(* Time takes from one and adds to the other.                              *)
(***************************************************************************)
LEMMA OlderTimely ==
    ASSUME NEW k \in Client, Timely(k)
    PROVE  Older(k) \in Client /\ Older(k).caller = k.caller /\ Timely(Older(k))
<1>1. IO_TIMEOUT \in Nat \ {0}
  BY ControlAssumption
<1> DEFINE l == Max({0, k.left - 1})
           a == Min({2 * IO_TIMEOUT, k.age + 1})
<1>2. k.left \in 0 .. IO_TIMEOUT /\ k.age \in 0 .. 2 * IO_TIMEOUT
  BY DEF Client
<1>i. 0 \in Int /\ k.left - 1 \in Int /\ 2 * IO_TIMEOUT \in Int /\ k.age + 1 \in Int
  BY <1>1, <1>2
<1>3. l \in {0, k.left - 1} /\ l >= 0 /\ l >= k.left - 1
  BY <1>i, MaxOfTwo, Zenon
<1>4. a \in {2 * IO_TIMEOUT, k.age + 1} /\ a <= 2 * IO_TIMEOUT /\ a <= k.age + 1
  BY <1>i, MinOfTwo, Zenon
<1>5. l \in 0 .. IO_TIMEOUT /\ a \in 0 .. 2 * IO_TIMEOUT
  BY <1>1, <1>2, <1>3, <1>4
<1>6. Older(k) = [k EXCEPT !.left = l, !.age = a]
  BY DEF Older
<1> HIDE DEF l, a
<1>7. Older(k) \in Client /\ Older(k).caller = k.caller /\ Older(k).state = k.state
      /\ Older(k).left = l /\ Older(k).age = a
  BY <1>5, <1>6 DEF Client
<1>8. Timely(Older(k))
  BY <1>1, <1>2, <1>3, <1>4, <1>7 DEF Timely
<1> QED
  BY <1>7, <1>8

(***************************************************************************)
(* accept: as many as the batch, the backlog and the free slots allow, so  *)
(* the limit is kept however the descriptors are numbered; whoever is let  *)
(* in has a whole timeout before it.                                       *)
(***************************************************************************)
LEMMA BatchBounds ==
    ASSUME IInv
    PROVE  /\ Batch(pending) \in Nat
           /\ Batch(pending) <= Len(backlog)
           /\ Batch(pending) + Cardinality(Held) <= MAX_CLIENTS
<1>1. /\ ACCEPT_BATCH \in Nat /\ Len(backlog) \in Nat /\ MAX_CLIENTS \in Nat
      /\ Cardinality(Held) \in Nat /\ Cardinality(Held) <= MAX_CLIENTS
  BY ControlAssumption, FiniteSlots DEF IInv, TypeOK, WithinLimit
<1> DEFINE free == MAX_CLIENTS - Cardinality(Held)
<1>2. Batch(pending) = Min({ACCEPT_BATCH, Len(backlog), free})
  BY DEF Batch, Held
<1>3. ACCEPT_BATCH \in Int /\ Len(backlog) \in Int /\ free \in Int
  BY <1>1
<1> HIDE DEF free
<1>4. /\ Min({ACCEPT_BATCH, Len(backlog), free}) \in {ACCEPT_BATCH, Len(backlog), free}
      /\ Min({ACCEPT_BATCH, Len(backlog), free}) <= Len(backlog)
      /\ Min({ACCEPT_BATCH, Len(backlog), free}) <= free
  BY <1>3, MinOfThree, Zenon
<1> QED
  BY <1>1, <1>2, <1>4 DEF free

LEMMA NewTimely ==
    ASSUME NEW c \in Callers
    PROVE  Added(c) \in Client /\ Timely(Added(c))
BY ControlAssumption DEF Added, Client, Timely

LEMMA AcceptedSlots ==
    ASSUME IInv
    PROVE  /\ AcceptSlots(pending) \in [Fds -> Client \cup {None}]
           /\ \A fd \in Fds : AcceptSlots(pending)[fd] # None =>
                 Timely(AcceptSlots(pending)[fd])
           /\ Cardinality({fd \in Fds : AcceptSlots(pending)[fd] # None}) <= MAX_CLIENTS
<1> DEFINE n == Batch(pending)
           f == Admitted(pending)
           Given == {f[i] : i \in 1 .. n}
           New(fd) == CHOOSE i \in DOMAIN f : f[i] = fd
<1>1. n \in Nat /\ n <= Len(backlog) /\ n + Cardinality(Held) <= MAX_CLIENTS
  BY BatchBounds
<1>2. DOMAIN f = 1 .. n /\ f \in [1 .. n -> Given]
  BY DEF Admitted
<1>3. \A fd \in Fds : AcceptSlots(pending)[fd] =
         IF \E i \in DOMAIN f : f[i] = fd THEN Added(backlog[New(fd)]) ELSE pending[fd]
  BY DEF AcceptSlots
<1>4. DOMAIN AcceptSlots(pending) = Fds /\ AcceptSlots(pending) = [fd \in Fds |-> AcceptSlots(pending)[fd]]
  BY DEF AcceptSlots
<1>5. ASSUME NEW fd \in Fds
      PROVE  /\ AcceptSlots(pending)[fd] \in Client \cup {None}
             /\ AcceptSlots(pending)[fd] # None => Timely(AcceptSlots(pending)[fd])
             /\ AcceptSlots(pending)[fd] # None => fd \in Held \cup Given
  <2>1. CASE \E i \in DOMAIN f : f[i] = fd
    <3>1. New(fd) \in 1 .. n
      BY <1>2, <2>1
    <3>2. backlog[New(fd)] \in Callers
      BY <1>1, <3>1 DEF IInv, TypeOK
    <3>3. fd \in Given
      BY <1>2, <2>1
    <3> QED
      BY <1>3, <2>1, <3>2, <3>3, NewTimely
  <2>2. CASE ~ \E i \in DOMAIN f : f[i] = fd
    <3>1. AcceptSlots(pending)[fd] = pending[fd]
      BY <1>3, <2>2
    <3> QED
      BY <3>1 DEF IInv, TypeOK, AllTimely, Held
  <2> QED
    BY <2>1, <2>2
<1>6. {fd \in Fds : AcceptSlots(pending)[fd] # None} \in SUBSET (Held \cup Given)
  BY <1>5
<1>7. IsFiniteSet(Given) /\ Cardinality(Given) <= n
  <2>1. f \in Surjection(1 .. n, Given)
    BY <1>2 DEF Surjection
  <2>2. IsFiniteSet(1 .. n) /\ Cardinality(1 .. n) = n
    BY <1>1, FS_Interval
  <2> QED
    BY <2>1, <2>2, FS_Surjection
<1>8. IsFiniteSet(Held \cup Given) /\ Cardinality(Held \cup Given) <= MAX_CLIENTS
  <2>1. /\ IsFiniteSet(Held \cup Given) /\ IsFiniteSet(Held \cap Given)
        /\ Cardinality(Held \cup Given) =
              Cardinality(Held) + Cardinality(Given) - Cardinality(Held \cap Given)
    BY <1>7, FiniteSlots, FS_Union, FS_Intersection
  <2>2. /\ Cardinality(Held \cap Given) \in Nat /\ Cardinality(Given) \in Nat
        /\ Cardinality(Held) \in Nat
    BY <1>7, <2>1, FiniteSlots, FS_CardinalityType
  <2> QED
    BY <1>1, <1>7, <2>1, <2>2 DEF IInv, TypeOK
<1>9. Cardinality({fd \in Fds : AcceptSlots(pending)[fd] # None}) <= MAX_CLIENTS
  <2>1. /\ Cardinality({fd \in Fds : AcceptSlots(pending)[fd] # None})
              <= Cardinality(Held \cup Given)
        /\ IsFiniteSet({fd \in Fds : AcceptSlots(pending)[fd] # None})
    BY <1>6, <1>8, FS_Subset
  <2>2. /\ Cardinality({fd \in Fds : AcceptSlots(pending)[fd] # None}) \in Nat
        /\ Cardinality(Held \cup Given) \in Nat
    BY <1>8, <2>1, FS_CardinalityType
  <2> QED
    BY <1>8, <2>1, <2>2 DEF IInv, TypeOK
<1> QED
  BY <1>4, <1>5, <1>9

-----------------------------------------------------------------------------
(***************************************************************************)
(* The invariant holds at the start and is kept by every step.             *)
(***************************************************************************)
LEMMA InitIInv ==
    ASSUME Init
    PROVE  IInv
<1>1. TypeOK
  BY ControlAssumption DEF Init, TypeOK
<1>2. Held = {}
  BY DEF Init, Held
<1>3. WithinLimit
  BY <1>1, <1>2, FS_EmptySet DEF WithinLimit, TypeOK
<1> QED
  BY <1>1, <1>3 DEF Init, IInv, ServedAsPolled, AllTimely

LEMMA PollKeeps ==
    ASSUME IInv, Poll
    PROVE  IInv' /\ \A fd \in Fds : pending'[fd] # None => pending'[fd].age < 2 * IO_TIMEOUT
<1> USE DEF IInv, TypeOK
<1>1. \A fd \in Fds : pending'[fd] = IF fd \in Expired THEN None ELSE pending[fd]
  BY DEF Poll
<1>2. \A fd \in Fds : pending'[fd] # None =>
         pending'[fd] = pending[fd] /\ pending[fd] \in Client /\ pending[fd].left # 0
  BY <1>1 DEF Expired, Held
<1>3. pending' \in [Fds -> Client \cup {None}]
  BY DEF Poll
<1>4. polled' \in SUBSET (Fds \X Callers)
  <2>1. \A fd \in Held : fd \in Fds /\ pending[fd] \in Client
    BY DEF Held
  <2>2. \A fd \in Held : pending[fd].caller \in Callers
    BY <2>1 DEF Client
  <2> QED
    BY <2>1, <2>2 DEF Poll
<1>5. TypeOK'
  BY <1>3, <1>4 DEF Poll
<1>6. ServedAsPolled'
  <2>1. \A p \in polled' : \E fd \in Fds : p = <<fd, pending[fd].caller>>
    BY DEF Poll, Held
  <2> QED
    BY <1>2, <2>1 DEF ServedAsPolled
<1>7. AllTimely'
  BY <1>2 DEF AllTimely, Timely
<1>8. WithinLimit'
  <2>1. Held' \in SUBSET Held
    BY <1>2 DEF Held
  <2> QED
    BY <2>1, FewerSlots DEF Poll
<1>9. ASSUME NEW fd \in Fds, pending'[fd] # None
      PROVE  pending'[fd].age < 2 * IO_TIMEOUT
  <2>1. /\ IO_TIMEOUT \in Nat /\ pending[fd].left \in 0 .. IO_TIMEOUT
        /\ pending[fd].age \in 0 .. 2 * IO_TIMEOUT /\ Timely(pending[fd])
    BY <1>1, <1>2, <1>9, ControlAssumption DEF Client, AllTimely
  <2> QED
    BY <1>2, <1>9, <2>1 DEF Timely
<1> QED
  BY <1>5, <1>6, <1>7, <1>8, <1>9 DEF Poll

LEMMA ServiceKeeps ==
    ASSUME IInv, Service
    PROVE  IInv'
<1> USE DEF IInv, TypeOK
<1>1. PICK p \in polled : polled' = polled \ {p} /\ Left(p[1], pending[p[1]])
  BY ServiceLeaves
<1> DEFINE fd == p[1]
           k == pending[fd]
<1>2. fd \in Fds /\ k \in Client \cup {None}
  OBVIOUS
<1>3. k # None => k \in Client /\ Timely(k) /\ k.caller = p[2]
  BY <1>2 DEF AllTimely, ServedAsPolled
<1>4. \/ pending' = pending
      \/ \E n \in Client \cup {None} :
            /\ pending' = [pending EXCEPT ![fd] = n]
            /\ n # None => k # None /\ Timely(n) /\ n.caller = k.caller
  <2>1. CASE pending' = pending
    BY <2>1
  <2>2. CASE pending' = [pending EXCEPT ![fd] = None]
    BY <2>2
  <2>3. CASE k # None /\ k.left > 0 /\ pending' = [pending EXCEPT ![fd] = k]
    BY <1>3, <2>3
  <2>4. CASE k # None /\ k.left > 0 /\ pending' = [pending EXCEPT ![fd] = Progress(k)]
    <3>1. k \in Client /\ Timely(k) /\ k.left > 0
      BY <1>3, <2>4
    <3>2. Progress(k) \in Client /\ Progress(k).caller = k.caller /\ Timely(Progress(k))
      BY <3>1, StillTimely
    <3> QED
      BY <2>4, <3>2
  <2>5. CASE /\ k # None /\ k.left > 0 /\ k.state = "reading"
             /\ pending' = [pending EXCEPT ![fd] = ReplyWith(k)]
    <3>1. k \in Client /\ Timely(k) /\ k.left > 0
      BY <1>3, <2>5
    <3>2. ReplyWith(k) \in Client /\ ReplyWith(k).caller = k.caller /\ Timely(ReplyWith(k))
      BY <2>5, <3>1, StillTimely
    <3> QED
      BY <2>5, <3>2
  <2> QED
    BY <1>1, <2>1, <2>2, <2>3, <2>4, <2>5 DEF Left
<1> HIDE DEF fd, k
<1>5. /\ pending' \in [Fds -> Client \cup {None}]
      /\ \A g \in Fds : pending'[g] # None =>
            pending[g] # None /\ Timely(pending'[g]) /\ pending'[g].caller = pending[g].caller
  BY <1>2, <1>4 DEF AllTimely, k
<1>6. TypeOK'
  BY <1>1, <1>5 DEF Service
<1>7. ServedAsPolled'
  BY <1>1, <1>5 DEF ServedAsPolled
<1>8. AllTimely'
  BY <1>5 DEF AllTimely
<1>9. WithinLimit'
  <2>1. Held' \in SUBSET Held
    BY <1>5 DEF Held
  <2> QED
    BY <2>1, FewerSlots DEF Service
<1> QED
  BY <1>6, <1>7, <1>8, <1>9 DEF Service

LEMMA EndIterationKeeps ==
    ASSUME IInv, EndIteration
    PROVE  IInv'
<1> USE DEF IInv, TypeOK
<1>1. /\ polled = {} /\ polled' = {} /\ MAX_CLIENTS' = MAX_CLIENTS
      /\ pending' = pending \/ pending' = AcceptSlots(pending)
  BY DEF EndIteration, AcceptAndPass
<1>2. backlog' \in Seq(Callers)
  <2> DEFINE taken == IF listening THEN Batch(pending) ELSE 0
  <2>1. backlog' = SubSeq(backlog, taken + 1, Len(backlog))
    BY DEF EndIteration, AcceptAndPass
  <2>2. taken \in Nat /\ Len(backlog) \in Nat
    BY BatchBounds
  <2> HIDE DEF taken
  <2>3. \A i \in taken + 1 .. Len(backlog) : backlog[i] \in Callers
    BY <2>2
  <2>4. taken + 1 \in Int /\ Len(backlog) \in Int
    BY <2>2
  <2> QED
    BY <2>1, <2>3, <2>4, SubSeqProperties
<1>3. pending' \in [Fds -> Client \cup {None}] /\ AllTimely' /\ WithinLimit'
  <2>1. CASE pending' = pending
    BY <1>1, <2>1 DEF AllTimely, WithinLimit, Held
  <2>2. CASE pending' = AcceptSlots(pending)
    <3>1. Held' = {fd \in Fds : AcceptSlots(pending)[fd] # None}
      BY <2>2 DEF Held
    <3> QED
      BY <1>1, <2>2, <3>1, AcceptedSlots DEF AllTimely, WithinLimit
  <2> QED
    BY <1>1, <2>1, <2>2
<1> QED
  BY <1>1, <1>2, <1>3 DEF ServedAsPolled

LEMMA ElapseKeeps ==
    ASSUME IInv, Elapse
    PROVE  IInv'
<1> USE DEF IInv, TypeOK
<1>1. \A fd \in Fds : pending'[fd] = IF pending[fd] = None THEN None ELSE Older(pending[fd])
  BY DEF Elapse
<1>2. \A fd \in Fds : pending[fd] # None =>
         /\ Older(pending[fd]) \in Client /\ Timely(Older(pending[fd]))
         /\ Older(pending[fd]).caller = pending[fd].caller
  BY OlderTimely DEF AllTimely
<1>3. pending' \in [Fds -> Client \cup {None}]
  BY <1>2 DEF Elapse
<1>4. TypeOK' /\ AllTimely'
  BY <1>1, <1>2, <1>3 DEF Elapse, AllTimely
<1>5. ServedAsPolled'
  BY <1>1, <1>2 DEF Elapse, ServedAsPolled
<1>6. WithinLimit'
  <2>1. Held' \in SUBSET Held
    BY <1>1 DEF Held
  <2> QED
    BY <2>1, FewerSlots DEF Elapse
<1> QED
  BY <1>4, <1>5, <1>6 DEF Elapse

LEMMA CallersKeep ==
    ASSUME IInv, NEW c \in Callers, Connect(c) \/ Send(c) \/ Receive(c) \/ GiveUp(c)
    PROVE  IInv'
<1> USE DEF IInv, TypeOK
<1>1. /\ UNCHANGED <<MAX_CLIENTS, phase, polled, pending>>
      /\ backlog' = backlog \/ backlog' = Append(backlog, c)
  BY DEF Connect, Send, Receive, GiveUp
<1>2. TypeOK'
  BY <1>1
<1> QED
  BY <1>1, <1>2 DEF ServedAsPolled, AllTimely, WithinLimit, Held

LEMMA NextIInv ==
    ASSUME IInv, [Next]_vars
    PROVE  IInv'
<1>1. CASE UNCHANGED vars
  BY <1>1 DEF IInv, TypeOK, ServedAsPolled, AllTimely, WithinLimit, Held, vars
<1> QED
  BY <1>1, PollKeeps, ServiceKeeps, EndIterationKeeps, ElapseKeeps, CallersKeep DEF Next

-----------------------------------------------------------------------------
(***************************************************************************)
(* What poll said of a descriptor is never applied to a client accepted    *)
(* after it (run, Clients::service, Clients::accept), for any number of    *)
(* callers and any limit.                                                  *)
(***************************************************************************)
THEOREM ReadinessIsTheClients == Spec => []ServedAsPolled
<1>1. Init => IInv
  BY InitIInv
<1>2. IInv /\ [Next]_vars => IInv'
  BY NextIInv
<1>3. IInv => ServedAsPolled
  BY DEF IInv
<1> QED
  BY <1>1, <1>2, <1>3, PTL DEF Spec

(***************************************************************************)
(* There are never more clients than MAX_CLIENTS, and when expire is done  *)
(* none has had its slot for two timeouts (Clients::accept, expire, reply, *)
(* service), for any timeout, limit and batch.                             *)
(***************************************************************************)
THEOREM SlotsAlwaysTurnOver == Spec => SlotsTurnOver
<1> DEFINE Turns ==
             /\ Cardinality(Held') <= MAX_CLIENTS
             /\ phase = "poll" /\ phase' = "service" =>
                   \A fd \in Fds : pending'[fd] # None => pending'[fd].age < 2 * IO_TIMEOUT
<1>1. Init => IInv
  BY InitIInv
<1>2. IInv /\ [Next]_vars => IInv'
  BY NextIInv
<1>3. IInv /\ [Next]_vars => [Turns]_vars
  <2> SUFFICES ASSUME IInv, Next
               PROVE  Turns
    OBVIOUS
  <2>1. Cardinality(Held') <= MAX_CLIENTS
    <3>1. IInv' /\ MAX_CLIENTS' = MAX_CLIENTS
      BY NextIInv DEF Next, Poll, Service, EndIteration, AcceptAndPass, Elapse, Connect, Send,
                      Receive, GiveUp
    <3> QED
      BY <3>1 DEF IInv, WithinLimit
  <2>2. ASSUME phase = "poll", phase' = "service"
        PROVE  Poll
    BY <2>2 DEF Next, Service, EndIteration, AcceptAndPass, Elapse, Connect, Send, Receive, GiveUp
  <2> QED
    BY <2>1, <2>2, PollKeeps
<1> QED
  BY <1>1, <1>2, <1>3, PTL DEF Spec, SlotsTurnOver
=============================================================================
