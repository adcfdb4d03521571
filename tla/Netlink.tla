------------------------------- MODULE Netlink -------------------------------
(***************************************************************************)
(* The rtnetlink transport (netd/src/netlink.rs) under the event loop's    *)
(* use of it: requests and their acknowledgements, whole dumps in five     *)
(* parts of several datagrams, replies left over from a call that failed,  *)
(* and the multicast socket that says a dump is out of date.               *)
(*                                                                         *)
(* Rtnl and Reconcile take a dump to be one step.  Here it is what it is:  *)
(* the kernel moves between any two datagrams of it.                       *)
(***************************************************************************)
EXTENDS Integers, FiniteSets, SequencesExt

CONSTANTS
    None,
    Universe,       \* the messages each part's table may hold, by part
    Requests,       \* what reconcile::apply may ask for
    SEQ_MAX,        \* u32::MAX
    EventBuffer,    \* how many notifications the events socket holds
    MAX_PASSES,     \* the bound of the loop in Netd::converge: 4
    MAX_FAULTS      \* bound: foreign changes, refusals, lost and bad replies

ASSUME SequenceAssumption == SEQ_MAX \in Nat \ {0}

RT_TABLE_MAIN == 254
RTPROT_NETD == 200
I32_MIN == -2147483647 - 1
EEXIST == 17
EBUSY == 16

-----------------------------------------------------------------------------
(***************************************************************************)
(* What messages say.  An attribute that is absent is None; the flags of   *)
(* an address are None where the kernel is too old to send the attribute.  *)
(***************************************************************************)
is_wireless(name) == name = "wlan0"

link_from_message(l) ==
    LET loopback == "Loopback" \in l.flags IN
    [index |-> l.index, name |-> IF l.name = None THEN "" ELSE l.name,
     mac |-> IF l.address # None /\ Len(l.address) = 6 THEN l.address ELSE None,
     mtu |-> IF l.mtu = None THEN 0 ELSE l.mtu,
     up |-> "Up" \in l.flags, carrier |-> "LowerUp" \in l.flags, loopback |-> loopback,
     kind |-> CASE loopback -> "Loopback"
                [] ~loopback /\ l.type # "Ether" -> "Other"
                [] ~loopback /\ l.type = "Ether" ->
                      IF is_wireless(l.name) THEN "Wireless" ELSE "Ether"]

address_from_message(a) ==
    LET flags == IF a.attributes.flags = None THEN {} ELSE a.attributes.flags
        local == a.attributes.local
        address == a.attributes.address
        first == IF local # None THEN local ELSE address IN
    IF first = None THEN None
    ELSE [index |-> a.index, prefix |-> a.prefix_len,
          address |-> IF first.family = 6 /\ address # None THEN address ELSE first,
          deprecated |-> "Deprecated" \in flags,
          no_prefix_route |-> "Noprefixroute" \in flags,
          tentative |-> "Tentative" \in flags \cup a.header_flags]

Unspecified(family) == [family |-> family, ip |-> "any"]

route_from_message(r) ==
    IF r.table # RT_TABLE_MAIN \/ r.kind # "Unicast" \/ r.family \notin {4, 6} \/ r.oif = None
    THEN None
    ELSE [index |-> r.oif, prefix |-> r.prefix_len,
          destination |-> IF r.destination = None THEN Unspecified(r.family) ELSE r.destination,
          gateway |-> r.gateway,
          metric |-> IF r.priority = None THEN 0 ELSE r.priority,
          protocol |-> r.protocol]

(***************************************************************************)
(* What netd asks for.                                                     *)
(***************************************************************************)
address_message_lifeless(a) ==   \* mutant: deprecation left to the kernel
    [index |-> a.index, prefix_len |-> a.prefix, header_flags |-> {},
     attributes |->
         [local |-> IF a.address.family = 4 THEN a.address ELSE None,
          address |-> a.address,
          flags |-> IF a.address.family = 6 /\ a.no_prefix_route THEN {"Noprefixroute"} ELSE None],
     preferred |-> None]

address_message(a) ==
    [index |-> a.index, prefix_len |-> a.prefix, header_flags |-> {},
     attributes |->
         [local |-> IF a.address.family = 4 THEN a.address ELSE None,
          address |-> a.address,
          flags |-> IF a.address.family = 6 /\ a.no_prefix_route THEN {"Noprefixroute"} ELSE None],
     preferred |-> IF a.address.family = 4 THEN None
                   ELSE IF a.deprecated THEN "zero" ELSE "forever"]

route_message(r) ==
    [family |-> r.destination.family, prefix_len |-> r.prefix, table |-> RT_TABLE_MAIN,
     protocol |-> r.protocol, kind |-> "Unicast",
     destination |-> IF r.prefix > 0 THEN r.destination ELSE None,
     gateway |-> r.gateway, oif |-> r.index,
     priority |-> IF r.metric > 0 THEN r.metric ELSE None]

(***************************************************************************)
(* What the kernel makes of it: an address whose preferred lifetime is     *)
(* zero is deprecated, one with none is permanent; an IPv6 one starts out  *)
(* tentative or not; an IPv6 route without a metric gets 1024.             *)
(***************************************************************************)
Stored(m) ==
    [index |-> m.index, prefix_len |-> m.prefix_len, header_flags |-> {},
     attributes |->
         [m.attributes EXCEPT !.flags = (IF @ = None THEN {} ELSE @) \cup {"Permanent"}
                                        \cup (IF m.preferred = "zero" THEN {"Deprecated"} ELSE {})]]

StoredRoute(m) ==
    IF m.family = 6 /\ m.priority = None THEN [m EXCEPT !.priority = 1024] ELSE m

\* Such a route, as a dump shows it.
Defaulted(r) == [r EXCEPT !.metric = 1024]

-----------------------------------------------------------------------------
(***************************************************************************)
(* Parts of a whole dump, in the order LinuxRtnl::dump asks for them.      *)
(***************************************************************************)
Parts == <<"links", "addresses4", "routes4", "addresses6", "routes6">>
Names == {Parts[i] : i \in DOMAIN Parts}

from_message(part, m) ==
    IF part = "links" THEN link_from_message(m)
    ELSE IF part \in {"addresses4", "addresses6"} THEN address_from_message(m)
    ELSE route_from_message(m)

Seen(part, messages) == {from_message(part, m) : m \in messages} \ {None}

AddressPart(a) == IF a.address.family = 4 THEN "addresses4" ELSE "addresses6"
RoutePart(r) == IF r.destination.family = 4 THEN "routes4" ELSE "routes6"

SetUp(up) == [type |-> "SetUp", up |-> up]
NewAddress(a) == [type |-> "NewAddress", address |-> a]
DelAddress(a) == [type |-> "DelAddress", address |-> a]
NewRoute(r) == [type |-> "NewRoute", route |-> r]
DelRoute(r) == [type |-> "DelRoute", route |-> r]

\* The kernel's tables are finite, and these are all the requests there are.
ASSUME TablesAssumption ==
    /\ \A p \in Names : IsFiniteSet(Universe[p])
    /\ \A op \in Requests :
          op.type \in {"SetUp", "NewAddress", "DelAddress", "NewRoute", "DelRoute"}

\* What the desired state lets a request say: an IPv4 address has neither of the flags
\* (Address::new), a default route the unspecified destination.  Absent is told apart from
\* what is there.
ASSUME RequestsAssumption ==
    /\ None \notin Nat /\ None # "zero"
    /\ \A flags \in SUBSET {"Noprefixroute", "Permanent", "Deprecated"} : flags # None
    /\ \A op \in Requests :
          /\ op.type = "NewAddress" =>
                LET a == op.address IN
                /\ a = [index |-> a.index, address |-> a.address, prefix |-> a.prefix,
                        deprecated |-> a.deprecated, no_prefix_route |-> a.no_prefix_route,
                        tentative |-> FALSE]
                /\ None \notin {a, a.address}
                /\ a.deprecated \in BOOLEAN /\ a.no_prefix_route \in BOOLEAN
                /\ a.address.family \in {4, 6}
                /\ a.address.family = 4 => ~a.deprecated /\ ~a.no_prefix_route
          /\ op.type = "NewRoute" =>
                LET r == op.route IN
                /\ r = [index |-> r.index, destination |-> r.destination, prefix |-> r.prefix,
                        gateway |-> r.gateway, metric |-> r.metric, protocol |-> r.protocol]
                /\ r # None /\ Defaulted(r) # None
                /\ r.index # None /\ r.destination # None
                /\ r.metric \in Nat /\ r.prefix \in Nat
                /\ r.destination.family \in {4, 6}
                /\ r.prefix = 0 => r.destination = Unspecified(r.destination.family)

VARIABLES
    table,      \* the kernel's state, by part
    events,     \* notifications queued on the events socket
    overrun,    \* ... and whether it had to drop some
    sequence,   \* LinuxRtnl.sequence
    call,       \* the call netd is blocked in, or None
    result,     \* what the last call returned, None while one is made
    replies,    \* datagrams on the request socket, oldest first
    failing,    \* the request socket has an error to report
    dump,       \* the dump the kernel is in the middle of, or NoDump
    observed,   \* Netd.observed
    phase,      \* "poll", "pass" between the calls of a pass, "send", "call", "exited"
    pass,       \* how many times this converge has gone round
    blind,      \* history: the last whole dump failed, and not by interruption
    faults      \* faults left

vars == <<table, events, overrun, sequence, call, result, replies, failing, dump, observed,
          phase, pass, blind, faults>>

Nothing == [p \in Names |-> {}]

\* No message is numbered 0.
NoDump == [sequence |-> 0, part |-> "links", left |-> {}, intr |-> FALSE]

-----------------------------------------------------------------------------
(***************************************************************************)
(* decode_reply, one datagram.  Messages of other sequence numbers are     *)
(* passed over; a length that cannot be is an error whoever it is for.     *)
(***************************************************************************)
DecisiveDone(m, s) ==   \* mutant: only NLMSG_DONE ends a call
    m.kind = "malformed" \/ (m.sequence = s /\ (m.intr \/ m.kind \in {"done", "overrun"}))

Decisive(m, s) ==
    \/ m.kind = "malformed"
    \/ m.sequence = s /\ (m.intr \/ m.kind \in {"done", "error", "overrun"})

check_reply_code(code) ==
    IF code = 0 THEN "ok" ELSE IF code < 0 /\ code # I32_MIN THEN "errno" ELSE "error"

Outcome(m) ==
    IF m.kind = "malformed" THEN "error"
    ELSE IF m.intr THEN "interrupted"
    ELSE IF m.kind = "overrun" THEN "error"
    ELSE check_reply_code(m.code)

decode_reply_torn(datagram, s) ==   \* mutant: NLM_F_DUMP_INTR not looked at
    LET clear == [i \in DOMAIN datagram |-> [datagram[i] EXCEPT !.intr = FALSE]]
        ends == {i \in DOMAIN datagram : Decisive(clear[i], s)}
        last == IF ends = {} THEN Len(datagram) ELSE Min(ends) - 1 IN
    [inner |-> {clear[i].object :
                    i \in {j \in 1 .. last : clear[j].sequence = s /\ clear[j].kind = "inner"}},
     result |-> IF ends = {} THEN "more" ELSE Outcome(clear[Min(ends)])]

decode_reply(datagram, s) ==
    LET ends == {i \in DOMAIN datagram : Decisive(datagram[i], s)}
        last == IF ends = {} THEN Len(datagram) ELSE Min(ends) - 1 IN
    [inner |-> {datagram[i].object :
                    i \in {j \in 1 .. last : datagram[j].sequence = s /\ datagram[j].kind = "inner"}},
     result |-> IF ends = {} THEN "more" ELSE Outcome(datagram[Min(ends)])]

Message(s, kind) == [sequence |-> s, kind |-> kind, intr |-> FALSE, code |-> 0, object |-> None]

next_sequence == Max({1, (sequence + 1) % (SEQ_MAX + 1)})

-----------------------------------------------------------------------------
(***************************************************************************)
(* The kernel.  A change is announced on the events socket, which reports  *)
(* an overrun once it is full; a dump whose table changed goes on with     *)
(* what is there now, and is marked in every message from then on.         *)
(***************************************************************************)
Announced(change) ==
    /\ table' = change
    /\ IF change = table THEN UNCHANGED <<events, overrun>>
       ELSE IF events < EventBuffer THEN events' = events + 1 /\ UNCHANGED overrun
       ELSE overrun' = TRUE /\ UNCHANGED events

Marked(d, change) ==
    IF d = NoDump THEN d
    ELSE LET old == table[d.part]
             new == change[d.part] IN
         [d EXCEPT !.intr = @ \/ new # old, !.left = (@ \cap new) \cup (new \ old)]

(***************************************************************************)
(* The next datagram of a dump: some of what is left, and NLMSG_DONE with  *)
(* the last of it or on its own.                                           *)
(***************************************************************************)
Chunks(left) == {{m} : m \in left} \cup {left}

DumpDatagram(d, chunk, done) ==
    LET Flagged(m) == [m EXCEPT !.intr = d.intr]
        inner == [i \in 1 .. Cardinality(chunk) |->
                     Flagged([Message(d.sequence, "inner")
                              EXCEPT !.object = SetToSeq(chunk)[i]])] IN
    IF done THEN Append(inner, Flagged(Message(d.sequence, "done"))) ELSE inner

KernelSends(d, queue) ==
    \/ \E chunk \in Chunks(d.left), done \in BOOLEAN :
          /\ done => chunk = d.left
          /\ chunk = {} => done
          /\ replies' = Append(queue, DumpDatagram(d, chunk, done))
          /\ dump' = IF done THEN NoDump ELSE [d EXCEPT !.left = @ \ chunk]
          /\ UNCHANGED <<failing, faults>>
    \/ /\ faults > 0 /\ faults' = faults - 1      \* no memory for it, or not a message
       /\ dump' = NoDump
       /\ \/ failing' = TRUE /\ replies' = queue
          \/ replies' = Append(queue, <<Message(d.sequence, "malformed")>>) /\ UNCHANGED failing
          \/ replies' = Append(queue, <<Message(d.sequence, "overrun")>>) /\ UNCHANGED failing

KernelAnswers(s, code) ==
    LET answer == [Message(s, "error") EXCEPT !.code = code] IN
    \/ replies' = Append(replies, <<answer>>) /\ UNCHANGED <<failing, faults>>
    \/ faults > 0 /\ faults' = faults - 1 /\ failing' = TRUE /\ UNCHANGED replies

Without(messages, a) ==
    {m \in messages : ~(/\ m.index = a.index /\ m.prefix_len = a.prefix
                        /\ m.attributes.address = a.address)}

Applied(op) ==
    CASE op.type = "SetUp" ->
            [table EXCEPT !["links"] =
                {[l EXCEPT !.flags = IF op.up THEN @ \cup {"Up"} ELSE @ \ {"Up"}] : l \in @}]
      [] op.type = "NewAddress" ->
            [table EXCEPT ![AddressPart(op.address)] =
                Without(@, op.address) \cup {Stored(address_message(op.address))}]
      [] op.type = "DelAddress" ->
            [table EXCEPT ![AddressPart(op.address)] = Without(@, op.address)]
      [] op.type = "NewRoute" ->
            [table EXCEPT ![RoutePart(op.route)] = @ \cup {StoredRoute(route_message(op.route))}]
      [] op.type = "DelRoute" ->
            [table EXCEPT ![RoutePart(op.route)] = @ \ {StoredRoute(route_message(op.route))}]

(***************************************************************************)
(* Somebody else changes something; a call in progress remembers what its  *)
(* table looked like meanwhile (history).                                  *)
(***************************************************************************)
During(c, change) ==
    IF c = None \/ c.kind # "dump" THEN c
    ELSE [c EXCEPT !.during = @ \cup {change[Parts[c.part]]}]

KernelMoves ==
    /\ faults > 0 /\ faults' = faults - 1
    /\ \E p \in Names : \E m \in Universe[p] :
          LET change == [table EXCEPT ![p] = IF m \in @ THEN @ \ {m} ELSE @ \cup {m}] IN
          /\ Announced(change)
          /\ dump' = Marked(dump, change)
          /\ call' = During(call, change)
    /\ UNCHANGED <<sequence, result, replies, failing, observed, phase, pass, blind>>

-----------------------------------------------------------------------------
(***************************************************************************)
(* Calls.                                                                  *)
(***************************************************************************)
DumpCall == [kind |-> "dump", sequence |-> 0, part |-> 1, out |-> Nothing, during |-> {},
             op |-> None, granted |-> FALSE]

(***************************************************************************)
(* Asking for a part: the kernel starts on it at once, unless it is still  *)
(* in the middle of an earlier one.                                        *)
(***************************************************************************)
SendDump ==
    /\ phase = "send"
    /\ phase' = "call"
    /\ sequence' = next_sequence
    /\ LET part == Parts[call.part] IN
       /\ call' = [call EXCEPT !.sequence = next_sequence, !.during = {table[part]}]
       /\ IF dump # NoDump
          THEN KernelAnswers(next_sequence, -EBUSY) /\ UNCHANGED dump
          ELSE KernelSends([sequence |-> next_sequence, part |-> part, left |-> table[part],
                            intr |-> FALSE], replies)
    /\ result' = None
    /\ UNCHANGED <<table, events, overrun, observed, pass, blind>>

(***************************************************************************)
(* reconcile::apply asks for one change and waits for its answer.          *)
(***************************************************************************)
request ==
    /\ phase = "pass"
    /\ phase' = "call"
    /\ sequence' = next_sequence
    /\ \E op \in Requests, granted \in BOOLEAN :
          LET change == IF granted THEN Applied(op) ELSE table IN
          /\ Announced(change)
          /\ dump' = Marked(dump, change)
          /\ call' = [DumpCall EXCEPT !.kind = "request", !.sequence = next_sequence,
                                      !.op = op, !.granted = granted]
          /\ KernelAnswers(next_sequence, IF granted THEN 0 ELSE -EEXIST)
    /\ result' = None
    /\ UNCHANGED <<observed, pass, blind>>

(***************************************************************************)
(* A call returns.  A request's failure is logged, and the pass goes on; a *)
(* whole dump is the new `observed`, which at the start and after an event *)
(* leads to a converge, and in a converge ends it unless something moved.  *)
(* Failing to take the first dump ends the daemon.                         *)
(***************************************************************************)
ReturnRequest(r) ==
    /\ result' = r /\ call' = None /\ phase' = "pass"
    /\ UNCHANGED <<observed, pass, blind, events>>

DumpFails(r) ==
    /\ result' = r /\ call' = None /\ pass' = 0
    /\ phase' = IF observed = None THEN "exited" ELSE "poll"
    /\ blind' = (blind \/ r # "interrupted")
    /\ UNCHANGED <<observed, events>>

DumpSucceedsDraining(out) ==   \* mutant: the events socket emptied after the dump
    /\ result' = "ok" /\ call' = None /\ observed' = out /\ blind' = FALSE
    /\ LET again == pass < MAX_PASSES /\ (pass = 0 \/ out # observed) IN
       /\ phase' = IF again THEN "pass" ELSE "poll"
       /\ pass' = IF again THEN pass + 1 ELSE 0
    /\ events' = 0

DumpSucceeds(out) ==
    /\ result' = "ok" /\ call' = None /\ observed' = out /\ blind' = FALSE
    /\ LET again == pass < MAX_PASSES /\ (pass = 0 \/ out # observed) IN
       /\ phase' = IF again THEN "pass" ELSE "poll"
       /\ pass' = IF again THEN pass + 1 ELSE 0
    /\ UNCHANGED events

Return(r, out) ==
    IF call.kind = "request" THEN ReturnRequest(r)
    ELSE IF r # "ok" THEN DumpFails(r)
    ELSE IF call.part = Len(Parts) THEN DumpSucceeds(out)
    ELSE /\ call' = [call EXCEPT !.part = @ + 1, !.out = out]
         /\ phase' = "send"
         /\ UNCHANGED <<result, observed, pass, blind, events>>

(***************************************************************************)
(* receive, one recv: an error the socket has to report, or the oldest     *)
(* datagram.  Reading makes room, and the kernel goes on with its dump.    *)
(***************************************************************************)
receive ==
    /\ phase = "call"
    /\ \/ /\ failing /\ failing' = FALSE
          /\ Return("error", call.out)
          /\ UNCHANGED <<replies, dump, faults>>
       \/ /\ ~failing /\ replies # <<>>
          /\ LET reply == decode_reply(Head(replies), call.sequence)
                 part == Parts[call.part]
                 out == [call.out EXCEPT ![part] = @ \cup Seen(part, reply.inner)] IN
             IF reply.result = "more"
             THEN /\ call' = [call EXCEPT !.out = out]
                  /\ UNCHANGED <<result, observed, phase, pass, blind, events>>
             ELSE Return(reply.result, out)
          /\ IF dump = NoDump THEN replies' = Tail(replies) /\ UNCHANGED <<dump, failing, faults>>
             ELSE KernelSends(dump, Tail(replies))
    /\ UNCHANGED <<table, overrun, sequence>>

-----------------------------------------------------------------------------
(***************************************************************************)
(* The loop.  drain_events stops at an error, which counts as an event; a  *)
(* dump follows.  Anything else that wakes the loop starts a converge, or  *)
(* a bare reconcile_all, from what is observed already.                    *)
(***************************************************************************)
drain_events ==
    IF overrun THEN overrun' = FALSE /\ UNCHANGED events
    ELSE events' = 0 /\ UNCHANGED overrun

Wake ==
    /\ phase = "poll" /\ (events > 0 \/ overrun)
    /\ drain_events
    /\ call' = DumpCall /\ phase' = "send" /\ pass' = 0
    /\ UNCHANGED <<table, sequence, result, replies, failing, dump, observed, blind, faults>>

OtherWake ==
    /\ phase = "poll"
    /\ phase' = "pass" /\ pass' \in {1, MAX_PASSES}
    /\ UNCHANGED <<table, events, overrun, sequence, call, result, replies, failing, dump,
                   observed, blind, faults>>

(***************************************************************************)
(* The end of reconcile_all.                                               *)
(***************************************************************************)
Redump ==
    /\ phase = "pass"
    /\ call' = DumpCall /\ phase' = "send"
    /\ UNCHANGED <<table, events, overrun, sequence, result, replies, failing, dump, observed,
                   pass, blind, faults>>

(***************************************************************************)
(* open makes both sockets, and joins the multicast groups before main     *)
(* takes its first dump; a daemon that exits is started again.             *)
(***************************************************************************)
Opened ==
    [sequence |-> 1, call |-> DumpCall, result |-> None, replies |-> <<>>, failing |-> FALSE,
     dump |-> NoDump, observed |-> None, events |-> 0, overrun |-> FALSE]

Init ==
    /\ table = [p \in Names |-> Universe[p]]
    /\ events = Opened.events /\ overrun = Opened.overrun
    /\ sequence = Opened.sequence /\ call = Opened.call /\ result = Opened.result
    /\ replies = Opened.replies /\ failing = Opened.failing /\ dump = Opened.dump
    /\ observed = Opened.observed
    /\ phase = "send" /\ pass = 0 /\ blind = FALSE
    /\ faults = MAX_FAULTS

Restart ==
    /\ phase = "exited"
    /\ events' = Opened.events /\ overrun' = Opened.overrun
    /\ sequence' = Opened.sequence /\ call' = Opened.call /\ result' = Opened.result
    /\ replies' = Opened.replies /\ failing' = Opened.failing /\ dump' = Opened.dump
    /\ phase' = "send" /\ blind' = FALSE
    /\ UNCHANGED <<table, observed, pass, faults>>

Next == KernelMoves \/ SendDump \/ request \/ receive \/ Wake \/ OtherWake \/ Redump
        \/ Restart

Spec == Init /\ [][Next]_vars

-----------------------------------------------------------------------------
(***************************************************************************)
(* netd is never blocked for good: a call that waits has an answer queued, *)
(* or an error to be told of, however earlier calls ended.                 *)
(***************************************************************************)
NeverStuck == phase = "call" => failing \/ replies # <<>>

(***************************************************************************)
(* Asleep means seen.  The five parts of a dump are taken at five moments, *)
(* and one that was interrupted is thrown away; but with nothing left on   *)
(* the events socket, and unless the last dump failed for another reason,  *)
(* `observed` is the kernel's state.                                       *)
(***************************************************************************)
AsleepMeansSeen ==
    phase = "poll" /\ events = 0 /\ ~overrun /\ ~blind =>
        observed = [p \in Names |-> Seen(p, table[p])]

(***************************************************************************)
(* What a call returns is about that call.  A part of a dump that ends     *)
(* well is what its table held at one moment of the call, whatever earlier *)
(* calls left on the socket; a request that ends well was granted, and one *)
(* that ends in an error number was not.                                   *)
(***************************************************************************)
AnswersAreOwn ==
    [][/\ call # None /\ call'= None /\ call.kind = "request" =>
            /\ result' = "ok" => call.granted
            /\ result' = "errno" => ~call.granted
       /\ call # None /\ call.kind = "dump" =>
            LET part == Parts[call.part]
                moments == {Seen(part, messages) : messages \in call.during} IN
            /\ call' # None /\ call'.part # call.part => call'.out[part] \in moments
            /\ call' = None /\ result' = "ok" => observed'[part] \in moments]_vars

(***************************************************************************)
(* What netd was granted is what a dump shows: reconcile finds the address *)
(* or the route it asked for, flags and metric included, and does not ask  *)
(* again.  IPv6 routes asked for without a metric come back with 1024.     *)
(***************************************************************************)
ReadBack ==
    \A op \in Requests :
        /\ op.type = "NewAddress" =>
              LET p == AddressPart(op.address) IN
              Stored(address_message(op.address)) \in table[p] => op.address \in Seen(p, table[p])
        /\ op.type = "NewRoute" =>
              LET p == RoutePart(op.route)
                  r == IF p = "routes6" /\ op.route.metric = 0
                       THEN Defaulted(op.route) ELSE op.route IN
              StoredRoute(route_message(op.route)) \in table[p] => r \in Seen(p, table[p])
=============================================================================
