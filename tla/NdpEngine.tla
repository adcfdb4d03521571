----------------------------- MODULE NdpEngine -----------------------------
(***************************************************************************)
(* The SLAAC engine of ndp/src/engine.rs: what the routers of one link     *)
(* have said, what follows from it, and when time alone changes it.  The   *)
(* daemon calls start, tick and receive; each call returns whether to send *)
(* a solicitation and whether what the caller can observe has Changed.     *)
(*                                                                         *)
(* Time.  As in Dhcp4Client an Instant is the seconds left to it, 0 once   *)
(* it has come.  expired_at is kept where it is read: a preferred lifetime *)
(* that the last expire found over is Acted, one that ended since is 0.    *)
(* Elapse moves the clock one second; tick may be late.                    *)
(*                                                                         *)
(* Data.  A router is its link-local address, a number.  A resolver server *)
(* and a search domain are treated alike and are both Resolvers.  An       *)
(* address is its prefix and an interface identifier, Stable or drawn from *)
(* Iids.  Only decoded advertisements are received: RouterAdvert::decode   *)
(* drops the others without effect.                                        *)
(***************************************************************************)
EXTENDS Integers, Sequences, FiniteSets

CONSTANTS
    None,                      \* absent
    Forever,                   \* the lifetime u32::MAX and the Instant it gives
    Stable,                    \* the stable-privacy interface identifier
    Routers,
    Prefixes,
    Resolvers,
    Mtus,
    Iids,                      \* identifiers a temporary address may draw
    Adverts,                   \* the advertisements of the link
    SOLICIT_INTERVAL,
    SOLICITS_BEFORE_BACKOFF,
    MAX_SOLICIT_INTERVAL,
    TWO_HOURS,
    TEMP_PREFERRED,
    TEMP_VALID,
    MAX_DESYNC,                \* 599 s in new_temp
    MAX_TEMPS

Acted == -1
Lifetime == Nat \cup {Forever}

PrefixInfo == [autonomous : BOOLEAN, length : Nat, on_link : BOOLEAN,
               valid : Lifetime, preferred : Lifetime]

Advert == [source : Routers, router_lifetime : Nat, dhcp6 : BOOLEAN, mtu : Mtus \cup {None},
           prefixes : [Prefixes -> PrefixInfo \cup {None}],
           resolvers : [Resolvers -> Lifetime \cup {None}]]

Temp == [iid : Iids, preferred : Lifetime \cup {Acted}, valid : Lifetime]
Prefix == [on_link : BOOLEAN, valid : Lifetime, preferred : Lifetime \cup {Acted}, temps : Seq(Temp)]

ASSUME NdpAssumption ==
    /\ None \notin Int /\ Forever \notin Int /\ None # Forever
    /\ None \notin PrefixInfo /\ None \notin Prefix
    /\ Stable \notin Iids
    /\ Routers \subseteq Nat
    /\ Adverts \subseteq Advert
    /\ SOLICIT_INTERVAL \in Nat \ {0} /\ SOLICITS_BEFORE_BACKOFF \in Nat \ {0}
    /\ MAX_SOLICIT_INTERVAL \in Nat /\ MAX_SOLICIT_INTERVAL >= SOLICIT_INTERVAL
    /\ TWO_HOURS \in Nat \ {0} /\ TEMP_PREFERRED \in Nat /\ TEMP_VALID \in Nat
    /\ MAX_DESYNC \in Nat /\ MAX_DESYNC < TEMP_PREFERRED /\ TEMP_PREFERRED <= TEMP_VALID
    /\ MAX_TEMPS \in Nat \ {0}
    /\ \A S \in SUBSET Iids :
          IsFiniteSet(S) /\ Cardinality(S) <= MAX_TEMPS => Iids \ S # {}

VARIABLES
    running,             \* an Engine exists and was started
    temporary,           \* config.temporary
    solicit_in,          \* seconds to solicit_at, or None
    solicit_interval,
    solicits,
    routers,             \* the seconds each default router has left, or None
    prefixes,
    resolvers,           \* rdnss and dnssl
    mtu,
    dhcp6_wanted,
    last_view,
    call,                \* the last call, "elapse" once the clock has moved since
    solicited            \* whether it returned Action::Solicit

vars == <<running, temporary, solicit_in, solicit_interval, solicits, routers, prefixes,
          resolvers, mtu, dhcp6_wanted, last_view, call, solicited>>

-----------------------------------------------------------------------------
(***************************************************************************)
(* Lifetimes.                                                              *)
(***************************************************************************)
Exceeds(a, b) == b # Forever /\ (a = Forever \/ a > b)
Earlier(a, b) == IF Exceeds(a, b) THEN b ELSE a
Live(e) == e = Forever \/ e > 0

TempsOf(p) == {p.temps[i] : i \in DOMAIN p.temps}

(***************************************************************************)
(* The jitter of an interval, a tenth either way.                          *)
(***************************************************************************)
Jittered(interval) ==
    {interval - interval \div 10 + j : j \in 0 .. interval \div 5}

(***************************************************************************)
(* RFC 4862 5.5.3(e): what an advertised valid lifetime makes of the one   *)
(* that is left.                                                           *)
(***************************************************************************)
ValidAsAdvertised(left, received) == received   \* mutant

Valid(left, received) ==
    IF Exceeds(received, TWO_HOURS) \/ Exceeds(received, left)
    THEN received
    ELSE Earlier(left, TWO_HOURS)

(***************************************************************************)
(* new_temp draws identifiers until one is not the prefix's already; which *)
(* one does not matter.                                                    *)
(***************************************************************************)
Drawn(temps) == CHOOSE iid \in Iids : \A i \in DOMAIN temps : temps[i].iid # iid

NewTemp(p, temps, desync) ==
    [iid       |-> Drawn(temps),
     preferred |-> Earlier(TEMP_PREFERRED - desync, p.preferred),
     valid     |-> Earlier(TEMP_VALID, p.valid)]

Acceptable(info) ==
    info.autonomous /\ info.length = 64 /\ ~Exceeds(info.preferred, info.valid)

\* receive_prefix: p is the prefix as it is held, or None.
ReceivePrefix(p, info, desync) ==
    IF info = None \/ ~Acceptable(info) THEN p
    ELSE IF p # None
    THEN [p EXCEPT !.on_link = info.on_link, !.preferred = info.preferred,
                   !.valid = Valid(p.valid, info.valid)]
    ELSE IF info.valid # 0
    THEN LET q == [on_link |-> info.on_link, valid |-> info.valid,
                   preferred |-> info.preferred, temps |-> <<>>]
         IN  IF temporary /\ info.preferred # 0
             THEN [q EXCEPT !.temps = <<NewTemp(q, <<>>, desync)>>]
             ELSE q
    ELSE None

-----------------------------------------------------------------------------
(***************************************************************************)
(* What the caller can observe: view and the accessors.                    *)
(***************************************************************************)
LiveRouters == {r \in Routers : routers[r] # None /\ routers[r] > 0}

default_router ==
    IF LiveRouters = {} THEN None
    ELSE CHOOSE r \in LiveRouters : \A s \in LiveRouters : r <= s

AddressesOf(key, p) ==
    LET desired(iid, preferred) ==
            [prefix |-> key, iid |-> iid, on_link |-> p.on_link,
             deprecated |-> ~(Live(p.preferred) /\ Live(preferred))]
    IN  IF p = None \/ ~Live(p.valid) THEN {}
        ELSE {desired(Stable, p.preferred)}
             \cup {desired(t.iid, t.preferred) : t \in {u \in TempsOf(p) : Live(u.valid)}}

view ==
    [addresses |-> UNION {AddressesOf(key, prefixes[key]) : key \in Prefixes},
     router    |-> default_router,
     resolvers |-> {s \in Resolvers : resolvers[s] # None /\ Live(resolvers[s])},
     mtu       |-> mtu,
     dhcp6     |-> dhcp6_wanted]

NoView == [addresses |-> {}, router |-> None, resolvers |-> {}, mtu |-> None, dhcp6 |-> FALSE]

(***************************************************************************)
(* next_deadline: the poll timeout is the least of these.  A preferred     *)
(* lifetime is pending until an expire has acted on it.                    *)
(***************************************************************************)
Pending(e) == IF e = Acted THEN None ELSE e

Held == {prefixes[key] : key \in Prefixes} \ {None}

DeadlinesOfValidity ==   \* mutant
    ({solicit_in} \cup {routers[r] : r \in Routers} \cup {resolvers[s] : s \in Resolvers}
     \cup UNION {{p.valid, Pending(p.preferred)} \cup {t.valid : t \in TempsOf(p)} : p \in Held})
    \ {None, Forever}

DeadlinesOfLifetimes ==   \* mutant
    ({routers[r] : r \in Routers} \cup {resolvers[s] : s \in Resolvers}
     \cup UNION {{p.valid, Pending(p.preferred)} \cup {t.valid : t \in TempsOf(p)}
                 \cup {Pending(t.preferred) : t \in TempsOf(p)} : p \in Held})
    \ {None, Forever}

Deadlines ==
    ({solicit_in} \cup {routers[r] : r \in Routers} \cup {resolvers[s] : s \in Resolvers}
     \cup UNION {{p.valid, Pending(p.preferred)} \cup {t.valid : t \in TempsOf(p)}
                 \cup {Pending(t.preferred) : t \in TempsOf(p)} : p \in Held})
    \ {None, Forever}

Due == \E d \in Deadlines : d <= 0

-----------------------------------------------------------------------------
(***************************************************************************)
(* expire, on the routers, prefixes, resolvers and solicitation schedule   *)
(* its caller has got to.  desync is what new_temp would draw.             *)
(***************************************************************************)
ExpireSchedule(schedule, rs) ==
    IF schedule.at = None /\ \A r \in Routers : rs[r] = None
    THEN [at |-> 0, interval |-> SOLICIT_INTERVAL, solicits |-> 0]
    ELSE schedule

ExpireRouters(rs) == [r \in Routers |-> IF rs[r] # None /\ rs[r] > 0 THEN rs[r] ELSE None]

ExpireResolvers(ds) == [s \in Resolvers |-> IF ds[s] # None /\ Live(ds[s]) THEN ds[s] ELSE None]

Seen(e) == IF Live(e) THEN e ELSE Acted
SeenTemp(t) == [t EXCEPT !.preferred = Seen(t.preferred)]

Retained(temps) ==
    LET kept[n \in 0 .. Len(temps)] ==
            IF n = 0 THEN <<>>
            ELSE IF Live(temps[n].valid) THEN Append(kept[n - 1], temps[n]) ELSE kept[n - 1]
    IN  kept[Len(temps)]

\* The newest MAX_TEMPS.
CutOldestKept(temps) == SubSeq(temps, 1, IF Len(temps) > MAX_TEMPS THEN MAX_TEMPS ELSE Len(temps))   \* mutant

Cut(temps) == SubSeq(temps, IF Len(temps) > MAX_TEMPS THEN Len(temps) - MAX_TEMPS + 1 ELSE 1, Len(temps))

Regenerated(p, temps, desync) ==
    IF temporary /\ Live(p.preferred) /\ (temps = <<>> \/ ~Live(temps[Len(temps)].preferred))
    THEN Cut(Append(temps, NewTemp(p, temps, desync)))
    ELSE Cut(temps)

ExpirePrefix(p, desync) ==
    IF p = None \/ ~Live(p.valid) THEN None
    ELSE LET temps == Regenerated(p, Retained(p.temps), desync)
         IN  [p EXCEPT !.preferred = Seen(@),
                       !.temps = [i \in DOMAIN temps |-> SeenTemp(temps[i])]]

\* Action::Changed is exactly a change of last_view.
emit_if_changed == last_view' = view'

-----------------------------------------------------------------------------
(***************************************************************************)
(* The calls.                                                              *)
(***************************************************************************)
tick(schedule, desync) ==
    LET expired  == ExpireSchedule(schedule, ExpireRouters(routers))
        count    == IF expired.solicits < SOLICITS_BEFORE_BACKOFF
                    THEN expired.solicits + 1 ELSE expired.solicits
        interval == IF count < SOLICITS_BEFORE_BACKOFF THEN expired.interval
                    ELSE IF 2 * expired.interval < MAX_SOLICIT_INTERVAL
                    THEN 2 * expired.interval ELSE MAX_SOLICIT_INTERVAL
    IN  /\ routers' = ExpireRouters(routers)
        /\ prefixes' = [key \in Prefixes |-> ExpirePrefix(prefixes[key], desync[key])]
        /\ resolvers' = ExpireResolvers(resolvers)
        /\ UNCHANGED <<temporary, mtu, dhcp6_wanted>>
        /\ \/ /\ expired.at # None /\ expired.at <= 0
              /\ solicits' = count
              /\ solicit_interval' = interval
              /\ solicit_in' \in Jittered(interval)
              /\ solicited' = TRUE
           \/ /\ expired.at # None => expired.at > 0
              /\ solicits' = expired.solicits
              /\ solicit_interval' = expired.interval
              /\ solicit_in' = expired.at
              /\ solicited' = FALSE
        /\ emit_if_changed

Desyncs == [Prefixes -> 0 .. MAX_DESYNC]

Start ==
    /\ ~running
    /\ running' = TRUE
    /\ call' = "start"
    /\ \E desync \in Desyncs :
          tick([at |-> 0, interval |-> SOLICIT_INTERVAL, solicits |-> 0], desync)

Tick ==
    /\ running
    /\ UNCHANGED running
    /\ call' = "tick"
    /\ \E desync \in Desyncs :
          tick([at |-> solicit_in, interval |-> solicit_interval, solicits |-> solicits], desync)

Receive(a) ==
    LET rs == [routers EXCEPT ![a.source] = IF a.router_lifetime > 0 THEN a.router_lifetime ELSE None]
        at == IF a.router_lifetime > 0 THEN None ELSE solicit_in
        ds == [s \in Resolvers |->
                  IF a.resolvers[s] = None THEN resolvers[s]
                  ELSE IF a.resolvers[s] = 0 THEN None
                  ELSE a.resolvers[s]]
        expired == ExpireSchedule([at |-> at, interval |-> solicit_interval, solicits |-> solicits],
                                  ExpireRouters(rs))
    IN  /\ running
        /\ routers' = ExpireRouters(rs)
        /\ resolvers' = ExpireResolvers(ds)
        /\ mtu' = IF a.mtu # None THEN a.mtu ELSE mtu
        /\ dhcp6_wanted' = (dhcp6_wanted \/ a.dhcp6)
        /\ \E desync \in Desyncs :
              prefixes' = [key \in Prefixes |->
                  ExpirePrefix(ReceivePrefix(prefixes[key], a.prefixes[key], desync[key]),
                               desync[key])]
        /\ solicit_in' = expired.at
        /\ solicit_interval' = expired.interval
        /\ solicits' = expired.solicits
        /\ UNCHANGED <<running, temporary>>
        /\ call' = "receive" /\ solicited' = FALSE
        /\ emit_if_changed

\* The interface drops its engine (stop_ipv6) and may make a new one.
Stop ==
    /\ running
    /\ running' = FALSE
    /\ temporary' \in BOOLEAN
    /\ solicit_in' = None /\ solicit_interval' = SOLICIT_INTERVAL /\ solicits' = 0
    /\ routers' = [r \in Routers |-> None]
    /\ prefixes' = [key \in Prefixes |-> None]
    /\ resolvers' = [s \in Resolvers |-> None]
    /\ mtu' = None /\ dhcp6_wanted' = FALSE
    /\ last_view' = NoView /\ call' = "new" /\ solicited' = FALSE

Sooner(e) == IF e \in {None, Forever} \/ e <= 0 THEN e ELSE e - 1

SoonerTemp(t) == [t EXCEPT !.valid = Sooner(@), !.preferred = Sooner(@)]
SoonerPrefix(p) ==
    [p EXCEPT !.valid = Sooner(@), !.preferred = Sooner(@),
              !.temps = [i \in DOMAIN @ |-> SoonerTemp(@[i])]]

Elapse ==
    /\ running
    /\ solicit_in' = Sooner(solicit_in)
    /\ routers' = [r \in Routers |-> Sooner(routers[r])]
    /\ resolvers' = [s \in Resolvers |-> Sooner(resolvers[s])]
    /\ prefixes' = [key \in Prefixes |->
          IF prefixes[key] = None THEN None ELSE SoonerPrefix(prefixes[key])]
    /\ call' = "elapse" /\ solicited' = FALSE
    /\ UNCHANGED <<running, temporary, solicit_interval, solicits, mtu, dhcp6_wanted, last_view>>

Init ==
    /\ running = FALSE
    /\ temporary \in BOOLEAN
    /\ solicit_in = None /\ solicit_interval = SOLICIT_INTERVAL /\ solicits = 0
    /\ routers = [r \in Routers |-> None]
    /\ prefixes = [key \in Prefixes |-> None]
    /\ resolvers = [s \in Resolvers |-> None]
    /\ mtu = None /\ dhcp6_wanted = FALSE
    /\ last_view = NoView /\ call = "new" /\ solicited = FALSE

Next == Start \/ Tick \/ (\E a \in Adverts : Receive(a)) \/ Stop \/ Elapse

Spec == Init /\ [][Next]_vars

(***************************************************************************)
(* The clock runs, and the loop ticks every client in every iteration, of  *)
(* which a due deadline starts one (poll_timeout): weak fairness of both.  *)
(***************************************************************************)
Fairness ==
    /\ []<>~running \/ []<><<Elapse>>_vars
    /\ []<>~Due \/ []<><<Tick>>_vars

FairSpec == Spec /\ Fairness

-----------------------------------------------------------------------------
\* "No transition can be missed": as long as no deadline the engine gave the
\* loop has come, what its accessors answer is what it last reported, though
\* time has passed.  Nor is a deadline that was acted on held again: after a
\* tick every deadline is in the future, or the loop would spin on a poll
\* timeout of zero (emit_if_changed, next_deadline and its pending).
NothingMissed ==
    /\ running /\ ~Due => view = last_view
    /\ call = "tick" => ~Due

\* While a prefix is preferred, exactly one of its temporary addresses is new
\* enough to be chosen, the last one formed; the others are there for
\* standing connections, at most MAX_TEMPS in all (expire, new_temp).
OneFreshTemporary ==
    running /\ temporary /\ ~Due =>
        \A p \in Held :
            /\ Len(p.temps) <= MAX_TEMPS
            /\ Live(p.preferred) =>
                  {i \in DOMAIN p.temps : Live(p.temps[i].preferred)} = {Len(p.temps)}

\* One advertisement cannot take a prefix away: whatever it says, the prefix
\* stays for two hours or for what it had left (receive_prefix).
TwoHourRule ==
    [][\A key \in Prefixes :
          call' = "receive" /\ prefixes[key] # None /\ Live(prefixes[key].valid) =>
              /\ prefixes'[key] # None
              /\ ~Exceeds(Earlier(prefixes[key].valid, TWO_HOURS), prefixes'[key].valid)]_vars

\* A host with no router never stops asking (expire, tick).
KeepsAsking ==
    []<>(~running \/ solicited \/ LiveRouters # {})

=============================================================================
