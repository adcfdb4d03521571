---------------------------- MODULE Dhcp6Client ----------------------------
(***************************************************************************)
(* The stateless DHCPv6 client of dhcp6/src/lib.rs, the server it asks and *)
(* the network between them.                                               *)
(*                                                                         *)
(* Time.  As in Dhcp4Client an Instant is the seconds left to it, 0 once   *)
(* it has come.  The client's part in a call is over when the call is;     *)
(* tick may be late.                                                       *)
(*                                                                         *)
(* Data.  A transaction identifier is fresh: the 24 random bits are taken  *)
(* to differ from those of every message still under way; which one it is  *)
(* does not matter.  What the server says (resolvers and search domains)   *)
(* is one member of Infos.                                                 *)
(***************************************************************************)
EXTENDS Integers, FiniteSets

CONSTANTS
    None,                  \* absent
    Txids,
    Infos,                 \* what a server can be configured to answer
    RefreshTimes,          \* the information-refresh-time options in use
    FIRST_RETRANSMIT,
    MAX_RETRANSMIT,
    REFRESH_DEFAULT,
    REFRESH_MINIMUM,
    MaxUnderWay            \* bound: answers under way at a time

ASSUME Dhcp6Assumption ==
    /\ None \notin Int /\ None \notin Infos /\ None \notin Txids
    /\ RefreshTimes \subseteq Nat
    /\ FIRST_RETRANSMIT \in Nat \ {0} /\ MAX_RETRANSMIT \in Nat
    /\ FIRST_RETRANSMIT <= MAX_RETRANSMIT
    /\ REFRESH_MINIMUM \in Nat /\ REFRESH_DEFAULT \in Nat
    /\ FIRST_RETRANSMIT <= REFRESH_MINIMUM
    /\ MaxUnderWay \in Nat
    /\ IsFiniteSet(Txids) /\ Cardinality(Txids) > MaxUnderWay + 1

VARIABLES
    running,               \* the interface has a client
    txid,
    started,               \* started is Some
    retransmit_in,         \* seconds to retransmit_at, or None
    retransmit_interval,
    refresh_in,            \* seconds to refresh_at, or None
    info,
    published,             \* what the daemon published at the last Changed
    server,                \* what the server answers now
    under_way,             \* its answers, each until it is lost for good
    quiet,                 \* history: seconds since the last request, saturating
    answered,              \* history: seconds since the last answer, saturating
    call                   \* what the last call did

vars == <<running, txid, started, retransmit_in, retransmit_interval, refresh_in, info,
          published, server, under_way, quiet, answered, call>>

(***************************************************************************)
(* An answer under way: the transaction it is for, whether that is the     *)
(* exchange still running, and what the server said at the time.           *)
(***************************************************************************)
Answer == [txid : Txids, late : BOOLEAN, info : Infos]

(***************************************************************************)
(* How a datagram comes out of the options walk, the transaction and the   *)
(* information aside.                                                      *)
(***************************************************************************)
Datagram == [reply : BOOLEAN, client_id : {"ours", "other", "none"}, server_id : BOOLEAN,
             refresh : RefreshTimes \cup {None}]

TypeOK ==
    /\ running \in BOOLEAN /\ started \in BOOLEAN
    /\ txid \in Txids \cup {None}
    /\ retransmit_in \in Nat \cup {None} /\ refresh_in \in Nat \cup {None}
    /\ retransmit_interval \in FIRST_RETRANSMIT .. MAX_RETRANSMIT
    /\ info \in Infos \cup {None} /\ published \in Infos \cup {None}
    /\ server \in Infos
    /\ under_way \subseteq Answer
    /\ quiet \in 0 .. FIRST_RETRANSMIT /\ answered \in 0 .. REFRESH_MINIMUM
    /\ call \in {"none", "idle", "sent", "accepted", "accepted_late"}

-----------------------------------------------------------------------------
Smaller(a, b) == IF a <= b THEN a ELSE b
Larger(a, b) == IF a <= b THEN b ELSE a
Sooner(at) == IF at = None \/ at = 0 THEN at ELSE at - 1

Jittered(interval) ==
    {interval - interval \div 10 + j : j \in 0 .. interval \div 5}

Due(at) == at # None /\ at = 0

next_deadline_retransmit == retransmit_in   \* mutant

next_deadline ==
    IF retransmit_in # None /\ refresh_in # None
    THEN Smaller(retransmit_in, refresh_in)
    ELSE IF retransmit_in # None THEN retransmit_in ELSE refresh_in

(***************************************************************************)
(* begin_exchange followed by the part of tick that sends, or that part    *)
(* alone: a call in which retransmit_at is due.  The server answers what   *)
(* reaches it at once; the answer takes its time.                          *)
(***************************************************************************)
Fresh == CHOOSE t \in Txids : t # txid /\ \A a \in under_way : a.txid # t

Doubled(interval) == Smaller(2 * interval, MAX_RETRANSMIT)

Lost(answers) == {[a EXCEPT !.late = TRUE] : a \in answers}

Request(t, interval, answers) ==
    /\ txid' = t
    /\ started' = TRUE
    /\ \E j \in Jittered(interval) : retransmit_in' = j
    /\ retransmit_interval' = Doubled(interval)
    /\ refresh_in' = None
    /\ under_way' \in
          {answers} \cup {S \in {answers \cup {[txid |-> t, late |-> FALSE, info |-> server]}} :
                             Cardinality(S) <= MaxUnderWay}
    /\ quiet' = 0
    /\ call' = "sent"

begin_exchange == Request(Fresh, FIRST_RETRANSMIT, Lost(under_way))

Start ==
    /\ ~running
    /\ running' = TRUE
    /\ begin_exchange
    /\ info' = None
    /\ answered' = REFRESH_MINIMUM
    /\ UNCHANGED <<published, server>>

TickIdle ==
    /\ call' = "idle"
    /\ UNCHANGED <<txid, started, retransmit_in, retransmit_interval, refresh_in, under_way,
                   quiet>>

Tick ==
    /\ running
    /\ \/ Due(refresh_in) /\ begin_exchange
       \/ ~Due(refresh_in) /\ Due(retransmit_in) /\ Request(txid, retransmit_interval, under_way)
       \/ ~Due(refresh_in) /\ ~Due(retransmit_in) /\ TickIdle
    /\ UNCHANGED <<running, info, published, server, answered>>

-----------------------------------------------------------------------------
(***************************************************************************)
(* A datagram for port 546, in any order, as often as the network likes.   *)
(***************************************************************************)
parse_reply_any(d, t) == d.reply /\ d.client_id = "ours" /\ d.server_id   \* mutant

parse_reply(d, t) ==
    d.reply /\ t = txid /\ d.client_id = "ours" /\ d.server_id

refresh_time_bare(d) == IF d.refresh = None THEN REFRESH_DEFAULT ELSE d.refresh   \* mutant

refresh_time(d) ==
    Larger(IF d.refresh = None THEN REFRESH_DEFAULT ELSE d.refresh, REFRESH_MINIMUM)

\* Only an answer that changes what is known is an Action::Changed.
Published(i) == IF info = i THEN published ELSE i

AcceptTimerKept(d, a) ==   \* mutant
    /\ UNCHANGED retransmit_in
    /\ started' = FALSE
    /\ refresh_in' = refresh_time(d)
    /\ info' = a.info
    /\ published' = Published(a.info)
    /\ answered' = 0
    /\ call' = IF a.late THEN "accepted_late" ELSE "accepted"
    /\ UNCHANGED <<txid, retransmit_interval>>

Accept(d, a) ==
    /\ retransmit_in' = None
    /\ started' = FALSE
    /\ refresh_in' = refresh_time(d)
    /\ info' = a.info
    /\ published' = Published(a.info)
    /\ answered' = 0
    /\ call' = IF a.late THEN "accepted_late" ELSE "accepted"
    /\ UNCHANGED <<txid, retransmit_interval>>

Listening == retransmit_in # None

Receive(d, a) ==
    /\ running
    /\ a \in under_way
    /\ IF Listening /\ parse_reply(d, a.txid)
       THEN Accept(d, a)
       ELSE /\ call' = "idle"
            /\ UNCHANGED <<txid, started, retransmit_in, retransmit_interval, refresh_in, info,
                           published, answered>>
    /\ UNCHANGED <<running, server, under_way, quiet>>

(***************************************************************************)
(* stop_ipv6 drops the client; the next one starts from new.               *)
(***************************************************************************)
Stop ==
    /\ running
    /\ running' = FALSE
    /\ started' = FALSE
    /\ retransmit_in' = None
    /\ refresh_in' = None
    /\ info' = None
    /\ published' = None
    /\ retransmit_interval' = FIRST_RETRANSMIT
    /\ call' = "idle"
    /\ UNCHANGED <<txid, server, under_way, quiet, answered>>

-----------------------------------------------------------------------------
(***************************************************************************)
(* The world: an answer is dropped for good, the server is reconfigured,   *)
(* a second passes.                                                        *)
(***************************************************************************)
Lose ==
    /\ \E a \in under_way : under_way' = under_way \ {a}
    /\ call' = "none"
    /\ UNCHANGED <<running, txid, started, retransmit_in, retransmit_interval, refresh_in, info,
                   published, server, quiet, answered>>

Reconfigure ==
    /\ \E i \in Infos : server' = i
    /\ call' = "none"
    /\ UNCHANGED <<running, txid, started, retransmit_in, retransmit_interval, refresh_in, info,
                   published, under_way, quiet, answered>>

Elapse ==
    /\ retransmit_in' = Sooner(retransmit_in)
    /\ refresh_in' = Sooner(refresh_in)
    /\ quiet' = Smaller(quiet + 1, FIRST_RETRANSMIT)
    /\ answered' = Smaller(answered + 1, REFRESH_MINIMUM)
    /\ call' = "none"
    /\ UNCHANGED <<running, txid, started, retransmit_interval, info, published, server,
                   under_way>>

Init ==
    /\ running = FALSE /\ txid = None /\ started = FALSE
    /\ retransmit_in = None /\ retransmit_interval = FIRST_RETRANSMIT /\ refresh_in = None
    /\ info = None /\ published = None
    /\ server \in Infos /\ under_way = {}
    /\ quiet = FIRST_RETRANSMIT /\ answered = REFRESH_MINIMUM
    /\ call = "idle"

Next ==
    \/ Start \/ Tick \/ Stop
    \/ \E d \in Datagram, a \in Answer : Receive(d, a)
    \/ Lose \/ Reconfigure \/ Elapse

Spec == Init /\ [][Next]_vars

(***************************************************************************)
(* The loop comes back by the deadline (event_loop.rs, poll_timeout and    *)
(* tick), and a second always passes.  Answered adds what the network      *)
(* owes for the client to learn anything: requests that keep being asked   *)
(* are answered now and then, and the answer is delivered.                 *)
(***************************************************************************)
Whole == [reply |-> TRUE, client_id |-> "ours", server_id |-> TRUE, refresh |-> None]

Delivered == \E a \in Answer : ~a.late /\ a.info = server /\ Receive(Whole, a)

Answered == []<>(retransmit_in = None) \/ []<><<Delivered>>_vars

FairSpec == Spec /\ WF_vars(Elapse) /\ WF_vars(Tick /\ Due(next_deadline))

-----------------------------------------------------------------------------
(***************************************************************************)
(* While there is a client one thing is scheduled, the next retransmission *)
(* or the refresh, never both and never nothing, and started says which:   *)
(* begin_exchange, receive and tick hand the one over to the other.        *)
(***************************************************************************)
OneTimer ==
    /\ running => (retransmit_in = None) # (refresh_in = None)
    /\ started = (retransmit_in # None)

(***************************************************************************)
(* A call that did something leaves nothing due: poll_timeout is not zero  *)
(* again for the same deadline.                                            *)
(***************************************************************************)
Settles == call \in {"sent", "accepted", "accepted_late"} => next_deadline # 0

(***************************************************************************)
(* The one timer of a client lies ahead: the loop neither sleeps through   *)
(* its next step nor spins on the last one.                                *)
(***************************************************************************)
OneTimerAhead == OneTimer /\ Settles

(***************************************************************************)
(* An answer taken is one to the exchange that is running; a late or       *)
(* duplicate answer to an earlier one changes nothing.                     *)
(***************************************************************************)
NoLateAnswer == call # "accepted_late"

(***************************************************************************)
(* Requests of one client are at least the jittered first interval apart,  *)
(* and none is sent within REFRESH_MINIMUM of an answer, whatever refresh  *)
(* time the server named and however many answers arrive.                  *)
(***************************************************************************)
Paced ==
    [][running /\ call' = "sent" =>
          /\ quiet >= FIRST_RETRANSMIT - FIRST_RETRANSMIT \div 10
          /\ answered >= REFRESH_MINIMUM]_vars

(***************************************************************************)
(* A client that is kept asks for ever and so catches up: once the         *)
(* server's configuration stops changing and answers get through,          *)
(* what the daemon publishes is what the server says, and stays so.        *)
(***************************************************************************)
CatchesUp ==
    Answered => \A i \in Infos : <>[](running /\ server = i) => <>[](published = i)
=============================================================================
