------------------------------- MODULE Config -------------------------------
(***************************************************************************)
(* Reading the registry: config.rs reads Machine\System\Network value by   *)
(* value and key by key, main reads it once and then arms a watch on it,   *)
(* event_loop.rs reads it again when the watch says so, and                *)
(* Netd::take_generation decides what is judged by.                        *)
(*                                                                         *)
(* The registry is the operator's: any value may be written, and any key   *)
(* removed, between two reads of one load.  A registry value keeps its     *)
(* type; the data of a string type is its parts between NULs.  A missing   *)
(* root reads as an empty one.                                             *)
(***************************************************************************)
EXTENDS Policy

CONSTANTS
    Registries,            \* what the registry may hold at first
    Edits,                 \* what operators write: [tree, path, name, value]
    Links,                 \* the interfaces that may be there
    HexText,               \* texts that parse_hex takes: the bytes
    BadTexts,              \* texts that are not UTF-8
    MAX_DEPTH,
    MAX_WRITES,
    MAX_FAULTS             \* failed reads, broken watches, crashes, in all

\* Absent and refused are told apart from what is there.
ASSUME ConfigAssumption == None \notin {"build", "tie"} /\ Err # <<>>

VARIABLES
    registry,
    watch,                 \* "none", "quiet", "pending", "broken"
    phase,                 \* "start" or "reload" while reading, "arm", "pass", "idle", "exited"
    todo,                  \* what load_root has still to read, next first
    fresh,                 \* what it has read
    config,
    policy,
    refusal,               \* None, or why the newest generation was refused
    links,                 \* the kernel's
    interfaces,            \* Netd::interfaces
    missed,                \* a write came that neither a read nor an event showed
    writes,
    faults

vars == <<registry, watch, phase, todo, fresh, config, policy, refusal, links, interfaces, missed,
          writes, faults>>

-----------------------------------------------------------------------------
(***************************************************************************)
(* Values.                                                                 *)
(***************************************************************************)
text(s) == IF s \in BadTexts THEN Err ELSE s

lower_value(v) ==
    LET parts == SelectSeq(v.parts, LAMBDA s : s # "")
    IN  CASE v.ty = "DWORD" /\ v.len = 4 -> RawInt(v.int)
          [] v.ty = "QWORD" /\ v.len = 8 -> RawInt(v.int)
          [] v.ty \in {"SZ", "EXPAND_SZ"} ->
                 IF text(v.parts[1]) = Err THEN Err ELSE RawStr(v.parts[1])
          [] v.ty = "MULTI_SZ" ->
                 IF Range(parts) \cap BadTexts # {} THEN Err ELSE RawList(parts)
          [] OTHER -> RawOther

read_sz(v) ==
    CASE v = None -> None
      [] v.ty \notin {"SZ", "EXPAND_SZ"} -> Err
      [] v.parts[1] = "" -> None
      [] OTHER -> text(v.parts[1])

ControlSecurity(v) ==
    CASE v = None -> None
      [] v.ty # "BINARY" -> Err
      [] v.parts = <<>> -> None
      [] OTHER -> v.parts

parse_hex(s) ==
    CASE s \in {None, Err} -> s
      [] s \in DOMAIN HexText -> HexText[s]
      [] OTHER -> Err

(***************************************************************************)
(* A key's values, the unnamed default left out.                           *)
(***************************************************************************)
Lowered(values) == [name \in DOMAIN values \ {""} |-> lower_value(values[name])]
Readable(values) == \A name \in DOMAIN values \ {""} : lower_value(values[name]) # Err

Children(tree, path) == {p \in DOMAIN tree : Len(p) = Len(path) + 1 /\ Parent(p) = path}

-----------------------------------------------------------------------------
(***************************************************************************)
(* One read of a load.  read_tree reads a key's values, then its names,    *)
(* then each child: a child that is gone by then fails the whole load.     *)
(***************************************************************************)
Item(what, tree, path) == [what |-> what, tree |-> tree, path |-> path]
Subtree(tree, path) == <<Item("values", tree, path), Item("names", tree, path)>>
LoadItems == <<Item("value", "hostname", <<>>), Item("value", "control_security", <<>>),
               Item("value", "duid", <<>>), Item("tree", "rules", <<>>),
               Item("tree", "profiles", <<>>)>>

Default == [hostname |-> None, control_security |-> None, duid |-> None, rules |-> None,
            profiles |-> None]

Value(name) ==
    CASE name = "hostname" -> read_sz(registry.hostname)
      [] name = "control_security" -> ControlSecurity(registry.control_security)
      [] OTHER -> parse_hex(read_sz(registry.duid))

Read(config_, more) == [config |-> config_, more |-> more]

read_tree(item) ==
    LET tree == registry[item.tree]
        children == Children(tree, item.path)
        here == item.path :> Lowered(tree[item.path])
    IN  CASE tree = None \/ item.path \notin DOMAIN tree -> Err
          [] item.what = "values" ->
                 IF Readable(tree[item.path])
                 THEN Read([fresh EXCEPT ![item.tree] = IF @ = None THEN here ELSE here @@ @], <<>>)
                 ELSE Err
          [] OTHER ->
                 IF children # {} /\ (Len(item.path) >= MAX_DEPTH
                                      \/ \E p \in children : text(Last(p)) = Err)
                 THEN Err
                 ELSE Read(fresh, FlattenSeq([k \in 1 .. Cardinality(children) |->
                                                 Subtree(item.tree, SetToSeq(children)[k])]))

load_root(item) ==
    CASE item.what = "value" ->
             IF Value(item.tree) = Err THEN Err
             ELSE Read([fresh EXCEPT ![item.tree] = Value(item.tree)], <<>>)
      [] item.what = "tree" ->
             Read(fresh, IF registry[item.tree] = None THEN <<>> ELSE Subtree(item.tree, <<>>))
      [] OTHER -> read_tree(item)

-----------------------------------------------------------------------------
(***************************************************************************)
(* The operator.  A write that finds no watch, or a broken one, is shown   *)
(* by no event.                                                            *)
(***************************************************************************)
Without(tree, path) == Restrict(tree, {p \in DOMAIN tree : ~IsPrefix(path, p)})

Applied(e) ==
    LET tree == registry[e.tree]
        values == IF e.path \in DOMAIN tree THEN tree[e.path] ELSE <<>>
        written == IF e.value = None THEN Restrict(values, DOMAIN values \ {e.name})
                   ELSE (e.name :> e.value) @@ values
    IN  CASE e.path = None -> e.value
          [] e.name = None -> Without(tree, e.path)
          [] OTHER -> (e.path :> written) @@ tree

Applicable(e) ==
    \/ e.path = None
    \/ /\ registry[e.tree] # None
       /\ IF e.name = None \/ e.value = None THEN e.path \in DOMAIN registry[e.tree]
          ELSE e.path = <<>> \/ Parent(e.path) \in DOMAIN registry[e.tree]

OperatorWrites(e) ==
    /\ writes < MAX_WRITES /\ writes' = writes + 1
    /\ Applicable(e) /\ registry[e.tree] # Applied(e)
    /\ registry' = [registry EXCEPT ![e.tree] = Applied(e)]
    /\ watch' = IF watch = "quiet" THEN "pending" ELSE watch
    /\ missed' = (missed \/ watch \in {"none", "broken"})
    /\ UNCHANGED <<phase, todo, fresh, config, policy, refusal, links, interfaces, faults>>

Fault == faults < MAX_FAULTS /\ faults' = faults + 1

WatchBreaks ==
    /\ Fault
    /\ watch \in {"quiet", "pending"}
    /\ watch' = "broken"
    /\ missed' = (missed \/ watch = "pending")
    /\ UNCHANGED <<registry, phase, todo, fresh, config, policy, refusal, links, interfaces,
                   writes>>

LinkMoves(i) ==
    /\ links' = IF i \in links THEN links \ {i} ELSE links \cup {i}
    /\ UNCHANGED <<registry, watch, phase, todo, fresh, config, policy, refusal, interfaces,
                   missed, writes, faults>>

-----------------------------------------------------------------------------
(***************************************************************************)
(* config::load.  At startup a failed load ends the process; later it      *)
(* leaves everything as it was, the events that asked for it consumed.     *)
(***************************************************************************)
Begin(p) == phase' = p /\ todo' = LoadItems /\ fresh' = Default

ReadNext ==
    /\ phase \in {"start", "reload"} /\ todo # <<>>
    /\ LET r == load_root(Head(todo))
       IN  /\ r # Err
           /\ fresh' = r.config /\ todo' = r.more \o Tail(todo)
    /\ UNCHANGED <<registry, watch, phase, config, policy, refusal, links, interfaces, missed,
                   writes, faults>>

ReadFails ==
    /\ phase \in {"start", "reload"} /\ todo # <<>>
    /\ \/ load_root(Head(todo)) = Err /\ UNCHANGED <<missed, faults>>
       \/ Fault /\ missed' = (missed \/ phase = "reload")
    /\ phase' = IF phase = "start" THEN "exited" ELSE "idle"
    /\ todo' = <<>> /\ fresh' = Default
    /\ UNCHANGED <<registry, watch, config, policy, refusal, links, interfaces, writes>>

(***************************************************************************)
(* main: the generation is built from what was read, and nothing is        *)
(* checked for ties; then the watch is armed, or not.                      *)
(***************************************************************************)
StartUp ==
    /\ phase = "start" /\ todo = <<>>
    /\ LET built == build(fresh.rules, fresh.profiles)
       IN  /\ policy' = IF built = Err THEN Backstop ELSE built
           /\ refusal' = IF built = Err THEN "build" ELSE None
    /\ config' = fresh /\ fresh' = Default
    /\ phase' = "arm"
    /\ UNCHANGED <<registry, watch, todo, links, interfaces, missed, writes, faults>>

Armed ==
    \/ watch' = "quiet" /\ UNCHANGED faults
    \/ watch' = "none" /\ Fault

Arm ==
    /\ phase = "arm"
    /\ Armed
    /\ phase' = "pass"
    /\ UNCHANGED <<registry, todo, fresh, config, policy, refusal, links, interfaces, missed,
                   writes>>

(***************************************************************************)
(* converge, as far as it matters here: the interface table is brought in  *)
(* line with the kernel's, and what the pass writes to the inventory comes *)
(* back as an event.                                                       *)
(***************************************************************************)
Converge ==
    /\ phase = "pass"
    /\ interfaces' = links
    /\ watch' \in IF watch = "quiet" THEN {"quiet", "pending"} ELSE {watch}
    /\ phase' = "idle"
    /\ UNCHANGED <<registry, todo, fresh, config, policy, refusal, links, missed, writes, faults>>

LinkWakes ==
    /\ phase = "idle" /\ interfaces # links /\ watch # "pending"
    /\ phase' = "pass"
    /\ UNCHANGED <<registry, watch, todo, fresh, config, policy, refusal, links, interfaces,
                   missed, writes, faults>>

WatchWakes ==
    /\ phase = "idle" /\ watch = "pending"
    /\ watch' = "quiet" /\ missed' = FALSE
    /\ Begin("reload")
    /\ UNCHANGED <<registry, config, policy, refusal, links, interfaces, writes, faults>>

\* The configuration is not read again after the watch is armed anew.
ReArm ==
    /\ phase = "idle" /\ watch = "broken"
    /\ Armed
    /\ UNCHANGED <<registry, phase, todo, fresh, config, policy, refusal, links, interfaces,
                   missed, writes>>

(***************************************************************************)
(* A generation that does not build, or ties on an interface that is       *)
(* there, is refused: the last good one stands.                            *)
(***************************************************************************)
facts(i) == [interface |-> i]

take_generation_untied(built) ==
    IF built = Err THEN policy' = policy /\ refusal' = "build"
    ELSE policy' = built /\ refusal' = None

take_generation(built) ==
    CASE built = Err -> policy' = policy /\ refusal' = "build"
      [] built # Err /\ (\E i \in interfaces : judge(built, facts(i)).conflict) ->
             policy' = policy /\ refusal' = "tie"
      [] OTHER -> policy' = built /\ refusal' = None

\* A generation is made of the rules.
Changed_rules == fresh.rules # config.rules

Changed == fresh.rules # config.rules \/ fresh.profiles # config.profiles

\* The events are consumed when what they asked for has been read.
reload_consuming ==
    /\ phase = "reload" /\ todo = <<>>
    /\ IF Changed THEN take_generation(build(fresh.rules, fresh.profiles))
       ELSE UNCHANGED <<policy, refusal>>
    /\ config' = fresh /\ fresh' = Default
    /\ watch' = IF watch = "pending" THEN "quiet" ELSE watch
    /\ phase' = "pass"
    /\ UNCHANGED <<registry, todo, links, interfaces, missed, writes, faults>>

reload ==
    /\ phase = "reload" /\ todo = <<>>
    /\ IF Changed THEN take_generation(build(fresh.rules, fresh.profiles))
       ELSE UNCHANGED <<policy, refusal>>
    /\ config' = fresh /\ fresh' = Default
    /\ phase' = "pass"
    /\ UNCHANGED <<registry, watch, todo, links, interfaces, missed, writes, faults>>

-----------------------------------------------------------------------------
Started ==
    /\ Begin("start")
    /\ watch' = "none" /\ config' = Default /\ policy' = Backstop /\ refusal' = None
    /\ interfaces' = {} /\ missed' = FALSE

Restart ==
    /\ \/ phase = "exited" /\ UNCHANGED faults
       \/ phase # "exited" /\ Fault
    /\ Started
    /\ UNCHANGED <<registry, links, writes>>

Init ==
    /\ registry \in Registries
    /\ links \in SUBSET Links
    /\ phase = "start" /\ todo = LoadItems /\ fresh = Default
    /\ watch = "none" /\ config = Default /\ policy = Backstop /\ refusal = None
    /\ interfaces = {} /\ missed = FALSE
    /\ writes = 0 /\ faults = 0

Next ==
    \/ \E e \in Edits : OperatorWrites(e)
    \/ \E i \in Links : LinkMoves(i)
    \/ WatchBreaks
    \/ ReadNext \/ ReadFails \/ StartUp \/ Arm \/ Converge \/ LinkWakes \/ WatchWakes \/ ReArm
    \/ reload
    \/ Restart

Spec == Init /\ [][Next]_vars

-----------------------------------------------------------------------------
(***************************************************************************)
(* What load would return if nobody wrote meanwhile, or Err.               *)
(***************************************************************************)
WholeTree(name) ==
    LET tree == registry[name]
    IN  CASE tree = None -> None
          [] tree # None /\ (\E path \in DOMAIN tree :
                                \/ Len(path) > MAX_DEPTH
                                \/ ~Readable(tree[path])
                                \/ Range(path) \cap BadTexts # {}) -> Err
          [] OTHER -> [path \in DOMAIN tree |-> Lowered(tree[path])]

Whole ==
    LET read == [hostname |-> Value("hostname"), control_security |-> Value("control_security"),
                 duid |-> Value("duid"), rules |-> WholeTree("rules"),
                 profiles |-> WholeTree("profiles")]
    IN  IF \E field \in DOMAIN read : read[field] = Err THEN Err ELSE read

Current == Whole = Err \/ config = Whole

(***************************************************************************)
(* A load is many reads, and the operator writes between them: what it     *)
(* returns may never have been in the registry.  Such a mixture does not   *)
(* last: asleep with the watch armed and silent, netd holds exactly what   *)
(* the registry says, unless a write was shown by no event (before the     *)
(* watch was armed, while it was broken) or the read an event asked for    *)
(* failed.  The next write that is shown repairs that too.                 *)
(***************************************************************************)
ConfigIsRegistry == phase = "idle" /\ watch = "quiet" /\ ~missed => Current

(***************************************************************************)
(* refusal tells the operator whether what is configured is in force: with *)
(* none reported the interfaces are judged by the very rules and profiles  *)
(* of the configuration last read, and with one reported by others.        *)
(***************************************************************************)
RefusalIsTrue ==
    phase \notin {"start", "exited"} =>
        LET built == build(config.rules, config.profiles)
        IN  CASE refusal = None -> policy = built
              [] refusal = "build" -> built = Err
              [] OTHER -> built # Err

(***************************************************************************)
(* A running daemon goes from one generation to the next only whole: the   *)
(* new one builds, and no interface that is there falls between two of its *)
(* rules.  A generation that was refused changes nothing.                  *)
(***************************************************************************)
TakenWhole ==
    [][policy' # policy /\ phase = "reload" =>
          /\ refusal' = None
          /\ policy' = build(config'.rules, config'.profiles)
          /\ \A i \in interfaces : ~judge(policy', facts(i)).conflict]_vars

(***************************************************************************)
(* Whatever mixture of two layers was read: an interface only ever joins a *)
(* profile that is enabled, as is every profile it inherits from, and a    *)
(* judgment that names a profile finds it in the same generation.          *)
(***************************************************************************)
JoinsEnabled ==
    policy.forest # None =>
        /\ Joined(policy.forest) \subseteq DOMAIN policy.profiles
        /\ \A i \in Links :
              LET j == judge(policy, facts(i))
              IN  j.outcome = "Join" =>
                      \A key \in Chain(j.profile.path) : policy.profiles[key].enabled
=============================================================================
