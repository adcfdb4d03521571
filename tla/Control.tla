------------------------------ MODULE Control ------------------------------
(***************************************************************************)
(* The control socket: the slots of control.rs, the part of the event loop *)
(* that serves them, the requests of Netd::handle_control, the subscribers *)
(* of Netd::publish, and the callers of libnetd's channel.rs.              *)
(*                                                                         *)
(* A message is two parts, its length and its payload, written and read    *)
(* one part at a time.  A deadline is the seconds left to it, 0 once it    *)
(* has come.  The caller's and the daemon's steps interleave freely; one   *)
(* iteration of the loop is Poll, a Service for every descriptor that was  *)
(* ready, in any order (HashMap), and EndIteration.                        *)
(***************************************************************************)
EXTENDS Integers, Sequences, FiniteSets, FiniteSetsExt, SequencesExt

CONSTANTS
    None,                  \* absent
    Callers,
    Asks,                  \* the requests each caller may make
    Snapshots,             \* what Netd::snapshot can be
    IO_TIMEOUT,
    Limits,                \* the values of MAX_CLIENTS to consider
    ACCEPT_BATCH,
    SocketBuffer           \* parts a socket buffers

Requests == {"status", "renew", "reconcile", "subscribe"}
Reply == "reply"             \* every Reply that is no snapshot: nothing here tells them apart

ASSUME ControlAssumption ==
    /\ IsFiniteSet(Callers) /\ None \notin Callers
    /\ Asks \in [Callers -> SUBSET Requests]
    /\ IO_TIMEOUT \in Nat \ {0}
    /\ Limits \in SUBSET (Nat \ {0}) /\ ACCEPT_BATCH \in Nat \ {0}
    /\ SocketBuffer \in Nat /\ SocketBuffer >= 2

VARIABLES
    MAX_CLIENTS,           \* a constant of the code: any of Limits, and never changes
    phase,                 \* "poll", or "service" within an iteration
    polled,                \* <<descriptor, caller>> found ready and not yet serviced
    listening,             \* the listener was found ready
    publish_due,           \* this iteration ends with reconcile or converge
    backlog,               \* connections not yet accepted, oldest first
    pending,               \* Clients::pending: descriptor to Client
    subscribers,           \* Netd::subscribers, by descriptor
    caller,                \* both ends of each caller's connection
    snapshot,              \* what Netd::snapshot computes now
    last_snapshot

vars == <<MAX_CLIENTS, phase, polled, listening, publish_due, backlog, pending, subscribers,
          caller, snapshot, last_snapshot>>

Fds == 1 .. Cardinality(Callers)
Frame(v) == <<[part |-> 1, value |-> v], [part |-> 2, value |-> v]>>

(***************************************************************************)
(* A connection: the daemon's side of it, whether the caller's side is     *)
(* open, what it asks and how much of that it has written, what is         *)
(* buffered for it, its partly received frame and the last whole one.      *)
(***************************************************************************)
Away == [side |-> "away", open |-> FALSE, request |-> None, wrote |-> 0, buffered |-> <<>>,
         incoming |-> None, seen |-> None]

Held == {fd \in Fds : pending[fd] # None}
Subscribed == {fd \in Fds : subscribers[fd] # None}

-----------------------------------------------------------------------------
(***************************************************************************)
(* Either end closes.  What the daemon wrote before can still be read.     *)
(***************************************************************************)
HangUp(c) == IF c.open THEN [c EXCEPT !.side = "dropped"] ELSE Away
Leave(c) ==
    IF c.side = "dropped" THEN Away
    ELSE [c EXCEPT !.open = FALSE, !.buffered = <<>>, !.incoming = None, !.seen = None]

Room(c) == c.open /\ Len(c.buffered) < SocketBuffer

Buffer(c, parts) ==
    [c EXCEPT !.buffered = @ \o SubSeq(parts, 1, Min({Len(parts), SocketBuffer - Len(@)}))]

(***************************************************************************)
(* send_nonblocking: write_all on a socket that takes what it has room     *)
(* for; a frame cut short is a failure.                                    *)
(***************************************************************************)
Sendable(c) == c.open /\ Len(c.buffered) + 2 <= SocketBuffer

Sent(c, v) == IF c.open THEN Buffer(c, Frame(v)) ELSE c

-----------------------------------------------------------------------------
(***************************************************************************)
(* Clients.                                                                *)
(***************************************************************************)
can_accept(slots) == Cardinality({fd \in Fds : slots[fd] # None}) < MAX_CLIENTS

Added(c) == [caller |-> c, left |-> IO_TIMEOUT, age |-> 0, state |-> "reading", count |-> 0]

next_deadline_never == None   \* mutant

next_deadline ==
    IF Held = {} THEN None ELSE Min({pending[fd].left : fd \in Held})

Ready(fd) ==
    LET k == pending[fd] IN
    IF k.state = "reading"
    THEN caller[k.caller].wrote > k.count \/ ~caller[k.caller].open
    ELSE ~caller[k.caller].open \/ Room(caller[k.caller])

ReplyWith(k) == [k EXCEPT !.state = "writing", !.count = 0, !.left = IO_TIMEOUT]

(***************************************************************************)
(* publish: every subscriber that cannot take the whole snapshot goes.     *)
(***************************************************************************)
Dropped(callers) ==
    {fd \in Subscribed : ~Sendable(callers[subscribers[fd]])}

PublishTo(callers, v) ==
    IF last_snapshot = v
    THEN /\ caller' = callers
         /\ UNCHANGED <<subscribers, last_snapshot>>
    ELSE LET gone == Dropped(callers)
             told == {subscribers[fd] : fd \in Subscribed}
             lost == {subscribers[fd] : fd \in gone} IN
         /\ last_snapshot' = v
         /\ subscribers' = [fd \in Fds |-> IF fd \in gone THEN None ELSE subscribers[fd]]
         /\ caller' = [c \in Callers |->
               IF c \in lost THEN HangUp(Sent(callers[c], v))
               ELSE IF c \in told THEN Sent(callers[c], v)
               ELSE callers[c]]

-----------------------------------------------------------------------------
(***************************************************************************)
(* Poll returns; the other descriptors' handlers may change what netd      *)
(* would publish, and then publish_due says so; expire drops every client  *)
(* whose deadline has come.                                                *)
(***************************************************************************)
Expired == {fd \in Held : pending[fd].left = 0}

Poll ==
    /\ phase = "poll"
    /\ phase' = "service"
    /\ polled' = {<<fd, pending[fd].caller>> : fd \in {f \in Held : Ready(f)}}
    /\ listening' = (backlog # <<>> /\ can_accept(pending))
    /\ \E s \in Snapshots :
          /\ snapshot' = s
          /\ publish_due' = (s # snapshot)
    /\ pending' = [fd \in Fds |-> IF fd \in Expired THEN None ELSE pending[fd]]
    /\ caller' = [c \in Callers |->
          IF \E fd \in Expired : pending[fd].caller = c THEN HangUp(caller[c]) ELSE caller[c]]
    /\ UNCHANGED <<MAX_CLIENTS, backlog, subscribers, last_snapshot>>

(***************************************************************************)
(* One ready descriptor: service, advance, and handle_control for a whole  *)
(* request.                                                                *)
(***************************************************************************)
KeepClient(fd, k, c) ==
    /\ pending' = [pending EXCEPT ![fd] = k]
    /\ caller' = [caller EXCEPT ![k.caller] = c]
    /\ UNCHANGED <<subscribers, snapshot, last_snapshot>>

Close(fd, k) ==
    /\ pending' = [pending EXCEPT ![fd] = None]
    /\ caller' = [caller EXCEPT ![k.caller] = HangUp(@)]
    /\ UNCHANGED <<subscribers, snapshot, last_snapshot>>

FirstSnapshotNow == snapshot   \* mutant

FirstSnapshot == IF last_snapshot = None THEN snapshot ELSE last_snapshot

Subscribe(fd, k) ==
    /\ pending' = [pending EXCEPT ![fd] = None]
    /\ IF Sendable(caller[k.caller])
       THEN /\ subscribers' = [subscribers EXCEPT ![fd] = k.caller]
            /\ caller' = [caller EXCEPT ![k.caller] = Sent(@, FirstSnapshot)]
       ELSE /\ caller' = [caller EXCEPT ![k.caller] = HangUp(Sent(@, FirstSnapshot))]
            /\ UNCHANGED subscribers
    /\ UNCHANGED <<snapshot, last_snapshot>>

handle_control(fd, k) ==
    LET request == caller[k.caller].request
        Replied == pending' = [pending EXCEPT ![fd] = ReplyWith(k)] IN
    \/ Replied /\ UNCHANGED <<caller, subscribers, snapshot, last_snapshot>>
       \* status or renew, or access is denied
    \/ request = "reconcile" /\ Replied
       /\ \E s \in Snapshots : snapshot' = s /\ PublishTo(caller, s)
    \/ request = "subscribe" /\ Subscribe(fd, k)

ProgressExtended(k) == [k EXCEPT !.count = 1, !.left = IO_TIMEOUT]   \* mutant

Progress(k) == [k EXCEPT !.count = 1]

AdvanceReading(fd, k) ==
    LET c == caller[k.caller] IN
    \/ /\ c.wrote > k.count /\ k.count = 0
       /\ KeepClient(fd, Progress(k), c)
    \/ /\ c.wrote > k.count                 \* too large, or does not decode
       /\ KeepClient(fd, ReplyWith(k), c)
    \/ /\ c.wrote > k.count /\ k.count = 1
       /\ handle_control(fd, k)
    \/ /\ c.wrote = k.count /\ ~c.open      \* end of file, or a reset
       /\ KeepClient(fd, ReplyWith(k), c) \/ Close(fd, k)
    \/ /\ c.wrote = k.count /\ c.open
       /\ KeepClient(fd, k, c)

AdvanceWriting(fd, k) ==
    LET c == caller[k.caller]
        next == Buffer(c, <<Frame(Reply)[k.count + 1]>>) IN
    \/ ~c.open /\ Close(fd, k)
    \/ Room(c) /\ k.count = 0 /\ KeepClient(fd, Progress(k), next)
    \/ /\ Room(c) /\ k.count = 1
       /\ pending' = [pending EXCEPT ![fd] = None]
       /\ caller' = [caller EXCEPT ![k.caller] = HangUp(next)]
       /\ UNCHANGED <<subscribers, snapshot, last_snapshot>>
    \/ c.open /\ ~Room(c) /\ KeepClient(fd, k, c)

advance(fd, k) ==
    IF k.state = "reading" THEN AdvanceReading(fd, k) ELSE AdvanceWriting(fd, k)

Service ==
    /\ phase = "service"
    /\ \E p \in polled :
          LET fd == p[1] IN
          /\ polled' = polled \ {p}
          /\ \/ /\ pending[fd] = None
                /\ UNCHANGED <<pending, caller, subscribers, snapshot, last_snapshot>>
             \/ pending[fd] # None /\ pending[fd].left = 0 /\ Close(fd, pending[fd])
             \/ pending[fd] # None /\ pending[fd].left > 0 /\ advance(fd, pending[fd])
    /\ UNCHANGED <<MAX_CLIENTS, phase, listening, publish_due, backlog>>

(***************************************************************************)
(* accept takes a batch, oldest first, while slots are free; then comes    *)
(* the pass the iteration owes.                                            *)
(***************************************************************************)
Batch(slots) ==
    Min({ACCEPT_BATCH, Len(backlog), MAX_CLIENTS - Cardinality({fd \in Fds : slots[fd] # None})})

Admitted(slots) ==
    LET free == SetToSortSeq({fd \in Fds : slots[fd] = None /\ subscribers[fd] = None},
                             LAMBDA a, b : a < b) IN
    [i \in 1 .. Batch(slots) |-> free[i]]

AcceptSlots(slots) ==
    [fd \in Fds |-> IF \E i \in DOMAIN Admitted(slots) : Admitted(slots)[i] = fd
                    THEN Added(backlog[CHOOSE i \in DOMAIN Admitted(slots) :
                                          Admitted(slots)[i] = fd])
                    ELSE slots[fd]]

Admit(callers, slots) ==
    [c \in Callers |-> IF \E i \in 1 .. Batch(slots) : backlog[i] = c
                       THEN [callers[c] EXCEPT !.side = "held"] ELSE callers[c]]

AcceptAndPass ==
    /\ phase' = "poll"
    /\ listening' = FALSE
    /\ publish_due' = FALSE
    /\ LET taken == IF listening THEN Batch(pending) ELSE 0
           callers == IF listening THEN Admit(caller, pending) ELSE caller IN
       /\ pending' = IF listening THEN AcceptSlots(pending) ELSE pending
       /\ backlog' = SubSeq(backlog, taken + 1, Len(backlog))
       /\ IF publish_due THEN PublishTo(callers, snapshot)
          ELSE caller' = callers /\ UNCHANGED <<subscribers, last_snapshot>>
    /\ UNCHANGED <<MAX_CLIENTS, polled, snapshot>>

EndIterationEarly == phase = "service" /\ AcceptAndPass   \* mutant

EndIteration == phase = "service" /\ polled = {} /\ AcceptAndPass

-----------------------------------------------------------------------------
(***************************************************************************)
(* The callers, libnetd's Channel: connect, send and receive in pieces,    *)
(* and give up at any time.  A subscription that times out keeps its       *)
(* partly received frame; anything else that fails closes the connection.  *)
(***************************************************************************)
Connect(c) ==
    /\ caller[c] = Away
    /\ \E r \in Asks[c] :
          caller' = [caller EXCEPT ![c] = [Away EXCEPT !.side = "waiting", !.open = TRUE,
                                                      !.request = r]]
    /\ backlog' = Append(backlog, c)
    /\ UNCHANGED <<MAX_CLIENTS, phase, polled, listening, publish_due, pending, subscribers,
                   snapshot, last_snapshot>>

Send(c) ==
    /\ caller[c].open /\ caller[c].side # "dropped" /\ caller[c].wrote < 2
    /\ caller' = [caller EXCEPT ![c].wrote = @ + 1]
    /\ UNCHANGED <<MAX_CLIENTS, phase, polled, listening, publish_due, backlog, pending, subscribers,
                   snapshot, last_snapshot>>

(***************************************************************************)
(* receive: the length, then the payload it announces.  A whole reply ends *)
(* the exchange, a whole snapshot is followed by more.  No more to read on *)
(* a connection the daemon has closed is an error.                         *)
(***************************************************************************)
Received(c) ==
    LET part == Head(c.buffered)
        rest == [c EXCEPT !.buffered = Tail(@)] IN
    IF c.incoming = None THEN [rest EXCEPT !.incoming = part]
    ELSE IF c.incoming.value = Reply THEN Leave(rest)
    ELSE [rest EXCEPT !.incoming = None, !.seen = c.incoming.value]

CanReceive(c) == caller[c].open /\ (caller[c].buffered # <<>> \/ caller[c].side = "dropped")

Receive(c) ==
    /\ caller[c].open
    /\ \/ /\ caller[c].buffered # <<>>
          /\ caller' = [caller EXCEPT ![c] = Received(@)]
       \/ /\ caller[c].buffered = <<>> /\ caller[c].side = "dropped"
          /\ caller' = [caller EXCEPT ![c] = Leave(@)]
    /\ UNCHANGED <<MAX_CLIENTS, phase, polled, listening, publish_due, backlog, pending, subscribers,
                   snapshot, last_snapshot>>

GiveUp(c) ==
    /\ caller[c].open
    /\ caller' = [caller EXCEPT ![c] = Leave(@)]
    /\ UNCHANGED <<MAX_CLIENTS, phase, polled, listening, publish_due, backlog, pending, subscribers,
                   snapshot, last_snapshot>>

(***************************************************************************)
(* A second passes, within an iteration as well as in poll.                *)
(***************************************************************************)
Older(k) == [k EXCEPT !.left = Max({0, @ - 1}), !.age = Min({2 * IO_TIMEOUT, @ + 1})]

Elapse ==
    /\ pending' = [fd \in Fds |-> IF pending[fd] = None THEN None ELSE Older(pending[fd])]
    /\ UNCHANGED <<MAX_CLIENTS, phase, polled, listening, publish_due, backlog, subscribers, caller,
                   snapshot, last_snapshot>>

(***************************************************************************)
(* main converges, and so publishes, before the loop begins.               *)
(***************************************************************************)
Init ==
    /\ MAX_CLIENTS \in Limits
    /\ phase = "poll" /\ polled = {} /\ listening = FALSE /\ publish_due = FALSE
    /\ backlog = <<>>
    /\ pending = [fd \in Fds |-> None]
    /\ subscribers = [fd \in Fds |-> None]
    /\ caller = [c \in Callers |-> Away]
    /\ snapshot \in Snapshots
    /\ last_snapshot = snapshot

Next ==
    \/ Poll \/ Service \/ EndIteration
    \/ \E c \in Callers : Connect(c) \/ Send(c) \/ Receive(c) \/ GiveUp(c)
    \/ Elapse

Spec == Init /\ [][Next]_vars

(***************************************************************************)
(* poll returns when a descriptor is ready or the first deadline has come  *)
(* (poll_timeout), an iteration runs to its end, a second always passes,   *)
(* and a caller that has something to read reads it.                       *)
(***************************************************************************)
Wakes == polled # {} \/ (\E fd \in Held : Ready(fd)) \/ (backlog # <<>> /\ can_accept(pending))
         \/ next_deadline = 0

FairSpec ==
    /\ Spec
    /\ []<>~(phase = "poll" /\ Wakes) \/ []<><<Poll>>_vars
    /\ []<>(phase = "poll")
    /\ []<>(\A fd \in Held : pending[fd].left = 0) \/ []<><<Elapse>>_vars
    /\ \A c \in Callers : []<>~CanReceive(c) \/ []<><<Receive(c)>>_vars

-----------------------------------------------------------------------------
(***************************************************************************)
(* What poll said of a descriptor is applied to the client it was said of: *)
(* expire, a served request and a subscription free descriptors while      *)
(* others are still to be serviced, and accept would hand them out again.  *)
(***************************************************************************)
ServedAsPolled ==
    \A p \in polled : pending[p[1]] # None => pending[p[1]].caller = p[2]

(***************************************************************************)
(* Slots are few and turn over.  There are never more than MAX_CLIENTS:    *)
(* reply returns a stream to the slot its request has freed, and nothing   *)
(* is accepted in between.  And the deadline covers the whole read and the *)
(* whole write: when expire is done no client has had its slot for more    *)
(* than two timeouts, however many times it made progress.                 *)
(***************************************************************************)
SlotsTurnOver ==
    [][/\ Cardinality(Held') <= MAX_CLIENTS
       /\ phase = "poll" /\ phase' = "service" =>
             \A fd \in Fds : pending'[fd] # None => pending'[fd].age < 2 * IO_TIMEOUT]_vars

(***************************************************************************)
(* The last frame a subscriber was sent is the last snapshot published,    *)
(* whether it joined before, after or between the changes of an iteration: *)
(* publish sends only what differs from last_snapshot, so anyone told      *)
(* something else would stay with it.  And no stream is out of step: what  *)
(* a caller has of a frame and what is buffered after it alternate length  *)
(* and payload of one message, and only a connection the daemon is writing *)
(* to or has closed ends inside a frame (send_nonblocking).                *)
(***************************************************************************)
LastTold(c) ==
    IF c.buffered # <<>> THEN c.buffered[Len(c.buffered)].value ELSE c.seen

Stream(c) == (IF c.incoming = None THEN <<>> ELSE <<c.incoming>>) \o c.buffered

InStep(c) ==
    LET parts == Stream(caller[c]) IN
    /\ \A i \in DOMAIN parts :
          /\ parts[i].part = IF i % 2 = 1 THEN 1 ELSE 2
          /\ i % 2 = 0 => parts[i].value = parts[i - 1].value
    /\ (\E fd \in Subscribed : subscribers[fd] = c) => Len(parts) % 2 = 0

SubscribersCurrent ==
    /\ \A fd \in Subscribed :
          caller[subscribers[fd]].open => LastTold(caller[subscribers[fd]]) = last_snapshot
    /\ \A c \in Callers : InStep(c)

(***************************************************************************)
(* Everyone is served.  A caller is let in however full the slots are,     *)
(* because their deadlines wake the loop; and one that has sent a request  *)
(* that is no subscription gets its reply or an end of file, and is never  *)
(* left waiting.                                                           *)
(***************************************************************************)
Unserved(c) ==
    caller[c].side = "waiting" \/ (caller[c].open /\ caller[c].request # "subscribe")

EveryoneServed == \A c \in Callers : Unserved(c) ~> ~Unserved(c)
=============================================================================
