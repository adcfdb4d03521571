------------------------------- MODULE Policy -------------------------------
(***************************************************************************)
(* The interface layer: profile.rs resolves the profiles, policy.rs lowers *)
(* the rules, builds a generation and judges an interface by it.           *)
(*                                                                         *)
(* A RawKey tree is a function from the paths below its key, sequences of  *)
(* lower-cased names, to that key's values; the key itself is <<>>.  What  *)
(* a text means to the parsers of the standard library is given by the     *)
(* three Text constants: no text is taken apart here.                      *)
(***************************************************************************)
EXTENDS Integers, FiniteSets, SequencesExt

CONSTANTS
    None,                  \* absent
    Err,                   \* refused
    IpText,                \* texts that parse as an address: [family, ip]
    CidrText,              \* texts "address/number": [address, prefix]
    NumberText,            \* texts that parse as a number
    JoinText,              \* action texts that read JOIN(path): the path
    U32_MAX

RawInt(i) == [int |-> i]
RawStr(s) == [str |-> s]
RawList(items) == [list |-> items]
RawOther == [other |-> TRUE]
Is(shape, v) == shape \in DOMAIN v

Parent(path) == Front(path)

\* The keys from below the root down to path.
Chain(path) == {SubSeq(path, 1, k) : k \in 1 .. Len(path)}

\* The nearest of path and the keys above it of which Has holds, or None.
Nearest(path, Has(_)) ==
    LET depths == {k \in 1 .. Len(path) : Has(SubSeq(path, 1, k))}
    IN  IF depths = {} THEN None ELSE SubSeq(path, 1, Max(depths))

Keys(tree) == DOMAIN tree \ {<<>>}

-----------------------------------------------------------------------------
(***************************************************************************)
(* Profiles.                                                               *)
(***************************************************************************)
Flags == {"address.offered", "address.linklocal", "address.temporary", "route.offered",
          "mtu.offered", "hostname.announce", "hostname.offered", "dns.offered", "dns.default",
          "dns.exclusive"}
VOCABULARY == Flags \cup
    {"address.families", "address.static", "address.onexpiry", "route.gateway", "route.metric",
     "mtu.value", "dns.servers", "dns.domains"}

as_bool(v) ==
    CASE Is("int", v) -> v.int # 0
      [] Is("str", v) /\ v.str \in {"on", "yes", "true", "1"} -> TRUE
      [] Is("str", v) /\ v.str \in {"off", "no", "false", "0"} -> FALSE
      [] OTHER -> None

as_u32(v) ==
    CASE Is("int", v) /\ v.int \in 0 .. U32_MAX -> v.int
      [] Is("str", v) /\ v.str \in DOMAIN NumberText -> NumberText[v.str]
      [] OTHER -> None

as_list(v) ==
    CASE Is("list", v) -> SelectSeq(v.list, LAMBDA s : s # "")
      [] Is("str", v) -> SelectSeq(<<v.str>>, LAMBDA s : s # "")
      [] OTHER -> None

Bits(address) == IF address.family = 4 THEN 32 ELSE 128

parse_cidr(s) ==
    IF s \in DOMAIN CidrText /\ CidrText[s].prefix <= Bits(CidrText[s].address)
    THEN CidrText[s]
    ELSE None

Items(v, Good(_)) == as_list(v) # None /\ \A k \in DOMAIN as_list(v) : Good(as_list(v)[k])

(***************************************************************************)
(* Whether parse takes this value under this name.                         *)
(***************************************************************************)
WellFormed(name, v) ==
    CASE name \in Flags -> as_bool(v) # None
      [] name = "address.families" -> Items(v, LAMBDA s : s \in {"ipv4", "ipv6"})
      [] name = "address.static" -> Items(v, LAMBDA s : parse_cidr(s) # None)
      [] name = "address.onexpiry" -> Is("str", v) /\ v.str \in {"drop", "keep"}
      [] name \in {"route.gateway", "dns.servers"} -> Items(v, LAMBDA s : s \in DOMAIN IpText)
      [] name = "route.metric" -> as_u32(v) # None
      [] name = "mtu.value" -> as_u32(v) # None /\ as_u32(v) >= 68
      [] name = "dns.domains" -> as_list(v) # None
      [] OTHER -> FALSE

parse(values) ==
    LET Has(name) == name \in DOMAIN values
        Flag(name) == Has(name) /\ as_bool(values[name])
        Number(name) == IF Has(name) THEN as_u32(values[name]) ELSE None
        Listed(name) == IF Has(name) THEN as_list(values[name]) ELSE <<>>
        ips(name) == [k \in DOMAIN Listed(name) |-> IpText[Listed(name)[k]]]
        Family(f) == ~Has("address.families") \/ f \in Range(Listed("address.families"))
        Gateway(f) ==
            LET of == SelectSeq(ips("route.gateway"), LAMBDA a : a.family = f)
            IN  IF of = <<>> THEN None ELSE Last(of)
        statics == [k \in DOMAIN Listed("address.static") |->
                       parse_cidr(Listed("address.static")[k])]
    IN  IF \E name \in DOMAIN values : ~WellFormed(name, values[name])
        THEN Err
        ELSE [offered |-> Flag("address.offered"),
              ipv4 |-> Family("ipv4"), ipv6 |-> Family("ipv6"),
              statics |-> SelectSeq(statics, LAMBDA s :
                  IF s.address.family = 4 THEN Family("ipv4") ELSE Family("ipv6")),
              link_local |-> Flag("address.linklocal"),
              temporary |-> Flag("address.temporary"),
              on_expiry |-> IF Has("address.onexpiry") THEN values["address.onexpiry"].str
                            ELSE "drop",
              route_offered |-> Flag("route.offered"),
              gateway |-> Gateway(4), gateway6 |-> Gateway(6),
              route_metric |-> Number("route.metric"),
              mtu_offered |-> Flag("mtu.offered"), mtu |-> Number("mtu.value"),
              announce_hostname |-> Flag("hostname.announce"),
              accept_hostname |-> Flag("hostname.offered"),
              dns |-> [servers |-> ips("dns.servers"), domains |-> Listed("dns.domains"),
                       offered |-> Flag("dns.offered"),
                       default_route |-> IF Has("dns.default") THEN Flag("dns.default") ELSE None,
                       exclusive |-> Flag("dns.exclusive")]]

(***************************************************************************)
(* walk hands a key's effective values down to its children, each of which *)
(* puts its own over them: of every name, the nearest key's value stands.  *)
(* Enabled is no such value; it is the conjunction of what the keys say.   *)
(***************************************************************************)
walk(tree, path) ==
    [name \in (UNION {DOMAIN tree[key] : key \in Chain(path)}) \ {"enabled"} |->
        tree[Nearest(path, LAMBDA key : name \in DOMAIN tree[key])][name]]

EnabledAt(tree, key) == "enabled" \in DOMAIN tree[key] => as_bool(tree[key]["enabled"])

\* Enabled taken as any other value of the profile itself.
enabled_own(tree, path) == EnabledAt(tree, path)

enabled(tree, path) == \A key \in Chain(path) : EnabledAt(tree, key)

(***************************************************************************)
(* Every profile by path, or Err.  A disabled profile must parse too.      *)
(***************************************************************************)
resolve(tree) ==
    IF \E path \in Keys(tree) :
           \/ \E name \in DOMAIN tree[path] :
                  IF name = "enabled" THEN as_bool(tree[path][name]) = None
                  ELSE name \notin VOCABULARY
           \/ parse(walk(tree, path)) = Err
    THEN Err
    ELSE [path \in Keys(tree) |->
             [path |-> path, enabled |-> enabled(tree, path),
              address |-> parse(walk(tree, path))]]

-----------------------------------------------------------------------------
(***************************************************************************)
(* The rules, lowered for pnp_core: a JOIN of a disabled profile abstains. *)
(***************************************************************************)
lower_item(item, profiles) ==
    IF item \in DOMAIN JoinText /\ JoinText[item] \in DOMAIN profiles
          /\ ~profiles[JoinText[item]].enabled
    THEN "NULL"
    ELSE item

lower(tree, profiles) ==
    IF \E path \in Keys(tree) : \E name \in DOMAIN tree[path] : Is("other", tree[path][name])
    THEN Err
    ELSE [path \in Keys(tree) |-> [name \in DOMAIN tree[path] |->
             IF name = "actions" /\ Is("list", tree[path][name])
             THEN RawList([k \in DOMAIN tree[path][name].list |->
                           lower_item(tree[path][name].list[k], profiles)])
             ELSE tree[path][name]]]

(***************************************************************************)
(* pnp_core's build: a forest with one rule it cannot read is refused      *)
(* whole.  A condition is a fact and the texts it may equal.               *)
(***************************************************************************)
Facts == {"interface", "network.name"}
Verdicts == {"IGNORE", "DOWN"} \cup DOMAIN JoinText

\* What a condition's value lists; nothing is a bad pattern.
Patterns(v) ==
    CASE Is("str", v) -> {v.str}
      [] Is("list", v) -> Range(v.list)
      [] OTHER -> {}

\* Whether a rule's own values build it.
build_node(rule) ==
    \A name \in DOMAIN rule :
        LET v == rule[name]
        IN  CASE name = "priority" -> Is("int", v)
              [] name = "enabled" -> v \in {RawInt(0), RawInt(1)}
              [] name = "actions" ->
                     Is("list", v) /\ Range(v.list) \subseteq Verdicts \cup {"NULL"}
              [] OTHER -> name \in Facts /\ Patterns(v) # {}

build_forest(rules) ==
    IF \A path \in DOMAIN rules : build_node(rules[path]) THEN rules ELSE Err

\* A rule without a priority of its own has its parent's.
Priority(forest, path) ==
    LET key == Nearest(path, LAMBDA k : "priority" \in DOMAIN forest[k])
    IN  IF key = None THEN 0 ELSE forest[key]["priority"].int

(***************************************************************************)
(* pnp_core's evaluation.  A rule is triggered where it and all above it   *)
(* match and none of its children does; one that abstains is spoken for by *)
(* the nearest ancestor that states a verdict.  Of what was said, the      *)
(* highest priority stands, and of that the strictest.                     *)
(***************************************************************************)
Matches(rule, facts) ==
    \A name \in DOMAIN rule :
        CASE name = "enabled" -> rule[name] = RawInt(1)
          [] name \in Facts -> name \in DOMAIN facts /\ facts[name] \in Patterns(rule[name])
          [] OTHER -> TRUE

Strictness(v) == CASE v = "DOWN" -> 2 [] v = "IGNORE" -> 1 [] OTHER -> 0

\* The first of the strictest verdicts a rule states, or None.
Verdict(rule) ==
    LET stated == IF "actions" \in DOMAIN rule
                  THEN SelectSeq(rule["actions"].list, LAMBDA a : a # "NULL") ELSE <<>>
        strictest == {k \in DOMAIN stated : \A l \in DOMAIN stated :
                         Strictness(stated[k]) >= Strictness(stated[l])}
    IN  IF stated = <<>> THEN None ELSE stated[Min(strictest)]

Triggered(forest, facts) ==
    LET matching == {path \in DOMAIN forest :
                        \A key \in Chain(path) : Matches(forest[key], facts)}
    IN  {path \in matching : ~\E child \in matching :
            Len(child) = Len(path) + 1 /\ Parent(child) = path}

Speaker(forest, path) == Nearest(path, LAMBDA key : Verdict(forest[key]) # None)

\* The answers that stand: none is the backstop, two are a conflict.
evaluate(forest, facts) ==
    LET candidates == {[priority |-> Priority(forest, s), verdict |-> Verdict(forest[s])] :
            s \in {Speaker(forest, path) : path \in Triggered(forest, facts)} \ {None}}
        best == {c \in candidates : \A d \in candidates :
                    \/ c.priority > d.priority
                    \/ c.priority = d.priority /\ Strictness(c.verdict) >= Strictness(d.verdict)}
        Said(c) == IF c.verdict \in DOMAIN JoinText THEN [join |-> JoinText[c.verdict]]
                   ELSE [verdict |-> c.verdict]
    IN  {Said(c) : c \in best}

-----------------------------------------------------------------------------
(***************************************************************************)
(* A generation: the rules' forest, None without rules, and the profiles   *)
(* they may name.  Policy::default is the backstop.                        *)
(***************************************************************************)
Backstop == [forest |-> None, profiles |-> <<>>]

Joined(forest) ==
    {JoinText[a] : a \in UNION {Range(forest[path]["actions"].list) :
        path \in {p \in DOMAIN forest : "actions" \in DOMAIN forest[p]}} \cap DOMAIN JoinText}

build(rules, profiles) ==
    LET resolved == IF profiles = None THEN <<>> ELSE resolve(profiles)
        lowered == lower(rules, resolved)
        forest == build_forest(lowered)
        refused == \/ lowered = Err
                   \/ forest = Err
                   \/ ~(Joined(forest) \subseteq DOMAIN resolved)
    IN  IF resolved = Err \/ (rules # None /\ refused) THEN Err
        ELSE [forest |-> IF rules = None THEN None ELSE forest, profiles |-> resolved]

(***************************************************************************)
(* What a generation says of an interface: a profile to join, or Ignore or *)
(* Down; conflict where equal rules name different profiles.               *)
(***************************************************************************)
Ignore(conflict) == [outcome |-> "Ignore", profile |-> None, conflict |-> conflict]
Down == [outcome |-> "Down", profile |-> None, conflict |-> FALSE]
Join(profile) == [outcome |-> "Join", profile |-> profile, conflict |-> FALSE]

judge(policy, facts) ==
    LET said == IF policy.forest = None THEN {} ELSE evaluate(policy.forest, facts)
        answer == CHOOSE a \in said : TRUE
    IN  IF Cardinality(said) # 1 THEN Ignore(said # {})
        ELSE IF answer = [verdict |-> "DOWN"] THEN Down
        ELSE IF "join" \in DOMAIN answer /\ answer.join \in DOMAIN policy.profiles
        THEN Join(policy.profiles[answer.join])
        ELSE Ignore(FALSE)
=============================================================================
