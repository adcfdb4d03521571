---------------------------- MODULE ConfigProofs ----------------------------
(***************************************************************************)
(* Proofs about generations: what is reported about the one in force is    *)
(* true at every moment, and a running daemon only ever takes a whole one. *)
(* Both hold for any registry, any edits at any moments of a load, and any *)
(* number of failed reads, broken watches and restarts.                    *)
(***************************************************************************)
EXTENDS Config, FiniteSetTheorems, TLAPS

(***************************************************************************)
(* The generation of an empty configuration is the backstop                *)
(* (Policy::default).                                                      *)
(***************************************************************************)
LEMMA EmptyBuildsBackstop == build(Default.rules, Default.profiles) = Backstop
  BY ConfigAssumption DEF build, Default, Backstop

(***************************************************************************)
(* The backstop has no rules, so none of them tie: it judges every         *)
(* interface alike (Policy::judge without a forest).                       *)
(***************************************************************************)
LEMMA BackstopNeverTies == ASSUME NEW f PROVE ~judge(Backstop, f).conflict
<1>1. Cardinality({}) = 0
  BY FS_EmptySet
<1>2. Backstop.forest = None
  BY DEF Backstop
<1>3. judge(Backstop, f) = Ignore({} # {})
  BY <1>1, <1>2 DEF judge
<1>4. Ignore({} # {}).conflict = ({} # {})
  BY DEF Ignore
<1> QED
  BY <1>3, <1>4

(***************************************************************************)
(* What take_generation leaves is what it says it leaves: the policy is    *)
(* the one built and nothing is reported, or a refusal is reported and the *)
(* policy stands as it was.                                                *)
(***************************************************************************)
LEMMA TakeGeneration ==
    ASSUME NEW built, take_generation(built)
    PROVE  \/ /\ policy' = built /\ refusal' = None /\ built # Err
              /\ \A i \in interfaces : ~judge(built, facts(i)).conflict
           \/ policy' = policy /\ refusal' = "build" /\ built = Err
           \/ policy' = policy /\ refusal' = "tie" /\ built # Err
  BY DEF take_generation

(***************************************************************************)
(* Refusal is true of a configuration and what it builds.                  *)
(***************************************************************************)
LEMMA RefusalPreserved ==
    ASSUME RefusalIsTrue, [Next]_vars PROVE RefusalIsTrue'
<1> USE ConfigAssumption
<1> SUFFICES ASSUME phase' \notin {"start", "exited"}
             PROVE  LET built == build(config'.rules, config'.profiles)
                    IN  CASE refusal' = None -> policy' = built
                          [] refusal' = "build" -> built = Err
                          [] OTHER -> built # Err
  BY DEF RefusalIsTrue
<1>1. ASSUME NEW e \in Edits, OperatorWrites(e) PROVE RefusalIsTrue'
  BY <1>1 DEF RefusalIsTrue, OperatorWrites
<1>2. ASSUME NEW i \in Links, LinkMoves(i) PROVE RefusalIsTrue'
  BY <1>2 DEF RefusalIsTrue, LinkMoves
<1>3. CASE WatchBreaks
  BY <1>3 DEF RefusalIsTrue, WatchBreaks
<1>4. CASE ReadNext
  BY <1>4 DEF RefusalIsTrue, ReadNext
<1>5. CASE ReadFails
  BY <1>5 DEF RefusalIsTrue, ReadFails
<1>6. CASE StartUp
  BY <1>6 DEF StartUp
<1>7. CASE Arm
  BY <1>7 DEF RefusalIsTrue, Arm
<1>8. CASE Converge
  BY <1>8 DEF RefusalIsTrue, Converge
<1>9. CASE LinkWakes
  BY <1>9 DEF RefusalIsTrue, LinkWakes
<1>10. CASE WatchWakes
  BY <1>10 DEF RefusalIsTrue, WatchWakes, Begin
<1>11. CASE ReArm
  BY <1>11 DEF RefusalIsTrue, ReArm
<1>12. CASE reload
  <2>1. config' = fresh
    BY <1>12 DEF reload
  <2>2. CASE Changed
    <3>1. take_generation(build(fresh.rules, fresh.profiles))
      BY <1>12, <2>2 DEF reload
    <3> QED
      BY <2>1, <3>1, TakeGeneration
  <2>3. CASE ~Changed
    <3>1. config'.rules = config.rules /\ config'.profiles = config.profiles
      BY <2>1, <2>3 DEF Changed
    <3>2. phase = "reload" /\ policy' = policy /\ refusal' = refusal
      BY <1>12, <2>3 DEF reload
    <3> QED
      BY <3>1, <3>2 DEF RefusalIsTrue
  <2> QED
    BY <2>2, <2>3
<1>13. CASE Restart
  BY <1>13 DEF Restart, Started, Begin
<1>14. CASE UNCHANGED vars
  BY <1>14 DEF RefusalIsTrue, vars
<1> QED
  BY <1>1, <1>2, <1>3, <1>4, <1>5, <1>6, <1>7, <1>8, <1>9, <1>10, <1>11, <1>12, <1>13, <1>14
  DEF Next, RefusalIsTrue

(***************************************************************************)
(* What Status says about the configuration is true at every moment of a   *)
(* running daemon (Netd::refusal): with no refusal reported the policy is  *)
(* the one the last configuration read builds, and a reported one is that  *)
(* it does not build, or that it builds and ties.                          *)
(***************************************************************************)
THEOREM RefusalTold == Spec => []RefusalIsTrue
<1>1. Init => RefusalIsTrue
  BY DEF Init, RefusalIsTrue
<1>2. RefusalIsTrue /\ [Next]_vars => RefusalIsTrue'
  BY RefusalPreserved
<1> QED
  BY <1>1, <1>2, PTL DEF Spec

(***************************************************************************)
(* A running daemon goes from one generation to the next only whole        *)
(* (reload, take_generation): the new one builds from the configuration    *)
(* remembered with it, and no interface that is there ties in it.          *)
(***************************************************************************)
THEOREM GenerationsTakenWhole == Spec => TakenWhole
<1> DEFINE Whole_ == policy' # policy /\ phase = "reload" =>
                       /\ refusal' = None
                       /\ policy' = build(config'.rules, config'.profiles)
                       /\ \A i \in interfaces : ~judge(policy', facts(i)).conflict
<1>1. ASSUME [Next]_vars PROVE Whole_
  <2> SUFFICES ASSUME policy' # policy, phase = "reload" PROVE Whole_
    OBVIOUS
  <2>1. reload \/ Restart
    BY <1>1 DEF Next, vars, OperatorWrites, LinkMoves, WatchBreaks, ReadNext, ReadFails, StartUp,
                Arm, Converge, LinkWakes, WatchWakes, ReArm
  <2>2. CASE reload
    <3>1. config' = fresh /\ take_generation(build(fresh.rules, fresh.profiles))
      BY <2>2 DEF reload
    <3> QED
      BY <3>1, TakeGeneration
  <2>3. CASE Restart
    <3>1. policy' = Backstop /\ refusal' = None /\ config' = Default
      BY <2>3 DEF Restart, Started
    <3> QED
      BY <3>1, EmptyBuildsBackstop, BackstopNeverTies
  <2> QED
    BY <2>1, <2>2, <2>3
<1> QED
  BY <1>1, PTL DEF Spec, TakenWhole
=============================================================================
