----------------------------- MODULE NdpProofs -----------------------------
(***************************************************************************)
(* Proofs about the SLAAC engine, for every set of routers, prefixes and   *)
(* advertisements and every value of the lifetimes that satisfies the      *)
(* assumptions of NdpEngine.                                               *)
(***************************************************************************)
EXTENDS NdpEngine, FiniteSetTheorems, WellFoundedInduction, TLAPS

\* The types.
TypeOK ==
    /\ running \in BOOLEAN /\ temporary \in BOOLEAN
    /\ solicit_in \in Nat \cup {None}
    /\ solicit_interval \in Nat /\ solicit_interval > 0
    /\ solicits \in Nat
    /\ routers \in [Routers -> Nat \cup {None}]
    /\ prefixes \in [Prefixes -> Prefix \cup {None}]
    /\ resolvers \in [Resolvers -> Lifetime \cup {None}]

\* All but the last temporary address have had their time, and they are few.
Aged(p) ==
    /\ Len(p.temps) <= MAX_TEMPS
    /\ \A i \in 1 .. Len(p.temps) - 1 : ~Live(p.temps[i].preferred)

\* While the prefix is preferred its last temporary address is.
FreshLast(p) == Live(p.preferred) => p.temps # <<>> /\ Live(p.temps[Len(p.temps)].preferred)

\* A deadline that is none, or lies ahead.
Ahead(e) == e \in {None, Forever} \/ e > 0

\* Every deadline of a prefix lies ahead.
PrefixAhead(p) ==
    /\ Ahead(p.valid) /\ Ahead(Pending(p.preferred))
    /\ \A i \in DOMAIN p.temps : Ahead(p.temps[i].valid) /\ Ahead(Pending(p.temps[i].preferred))

\* Every deadline of the engine lies ahead.
AllAhead ==
    /\ Ahead(solicit_in)
    /\ \A r \in Routers : Ahead(routers[r])
    /\ \A s \in Resolvers : Ahead(resolvers[s])
    /\ \A key \in Prefixes : prefixes[key] # None => PrefixAhead(prefixes[key])

(***************************************************************************)
(* The inductive invariant.  NothingMissed alone is not inductive: a       *)
(* second that passes changes what is live unless every deadline that is   *)
(* held lies ahead after it, and which address is the fresh one depends on *)
(* the order of the list, where all but the last are deprecated.           *)
(***************************************************************************)
IInv ==
    /\ TypeOK
    /\ \A key \in Prefixes : prefixes[key] # None => Aged(prefixes[key])
    /\ running /\ AllAhead => view = last_view
    /\ running /\ AllAhead /\ temporary =>
          \A key \in Prefixes : prefixes[key] # None => FreshLast(prefixes[key])
    /\ call = "tick" => AllAhead

-----------------------------------------------------------------------------
(***************************************************************************)
(* A set of naturals that is not empty has a least element: what retain    *)
(* keeps is established by the least counterexample.                       *)
(***************************************************************************)
LEMMA Least ==
    ASSUME NEW T, T \subseteq Nat, T # {}
    PROVE  \E x \in T : \A y \in T : x <= y
<1> DEFINE R == OpToRel(<, Nat)
<1>1. IsWellFoundedOn(R, Nat)
  BY NatLessThanWellFounded DEF OpToRel
<1> HIDE DEF R
<1>2. PICK x \in T : \A y \in T : ~(<<y, x>> \in R)
  BY <1>1, WFMin, Zenon
<1> USE DEF R
<1>3. \A y \in T : ~(y < x)
  BY <1>2, Zenon DEF OpToRel
<1> QED
  BY <1>3

(***************************************************************************)
(* retain on the temporary addresses.                                      *)
(***************************************************************************)
\* kept[m] is what retain keeps of the first m addresses.
Kept(kept, temps, n) ==
    kept = [m \in 0 .. n |->
              IF m = 0 THEN <<>>
              ELSE IF Live(temps[m].valid) THEN Append(kept[m - 1], temps[m]) ELSE kept[m - 1]]

(***************************************************************************)
(* One step of the recursion retain is.                                    *)
(***************************************************************************)
LEMMA KeptStep ==
    ASSUME NEW kept, NEW temps, NEW n \in Nat, Kept(kept, temps, n), NEW m \in 0 .. n
    PROVE  kept[m] = IF m = 0 THEN <<>>
                     ELSE IF Live(temps[m].valid) THEN Append(kept[m - 1], temps[m]) ELSE kept[m - 1]
<1> DEFINE e(k) == IF k = 0 THEN <<>>
                   ELSE IF Live(temps[k].valid) THEN Append(kept[k - 1], temps[k]) ELSE kept[k - 1]
<1>1. kept = [k \in 0 .. n |-> e(k)]
  BY Zenon DEF Kept
<1> HIDE DEF e
<1>2. kept[m] = e(m)
  BY <1>1
<1> QED
  BY <1>2 DEF e

(***************************************************************************)
(* The recursion has a value: retain terminates and yields addresses of    *)
(* the list it was given.                                                  *)
(***************************************************************************)
LEMMA KeptExists ==
    ASSUME NEW temps \in Seq(Temp)
    PROVE  \E kept : Kept(kept, temps, Len(temps))
<1> DEFINE T == {n \in Nat : ~ \E kept : Kept(kept, temps, n)}
<1>0. Len(temps) \in Nat
  OBVIOUS
<1> SUFFICES ASSUME T # {}
             PROVE  FALSE
  BY <1>0
<1>1. PICK n \in T : \A y \in T : n <= y
  BY Least, Zenon
<1>2. n \in Nat /\ ~ \E kept : Kept(kept, temps, n)
  BY <1>1
<1>3. n # 0
  <2> SUFFICES ASSUME n = 0
               PROVE  FALSE
    OBVIOUS
  <2> DEFINE k == [m \in 0 .. 0 |-> <<>>]
  <2>1. k = [m \in 0 .. 0 |->
              IF m = 0 THEN <<>>
              ELSE IF Live(temps[m].valid) THEN Append(k[m - 1], temps[m]) ELSE k[m - 1]]
    OBVIOUS
  <2>2. Kept(k, temps, n)
    BY <2>1 DEF Kept
  <2> QED
    BY <1>2, <2>2
<1>4. n - 1 \in Nat /\ n - 1 \notin T
  BY <1>1, <1>2, <1>3
<1>5. PICK g : Kept(g, temps, n - 1)
  BY <1>4
<1> DEFINE h == [m \in 0 .. n |->
                   IF m = n
                   THEN IF Live(temps[n].valid) THEN Append(g[n - 1], temps[n]) ELSE g[n - 1]
                   ELSE g[m]]
<1> HIDE DEF T
<1>6. \A m \in 0 .. n : h[m] = IF m = 0 THEN <<>>
                              ELSE IF Live(temps[m].valid) THEN Append(h[m - 1], temps[m]) ELSE h[m - 1]
  <2> SUFFICES ASSUME NEW m \in 0 .. n
               PROVE  h[m] = IF m = 0 THEN <<>>
                             ELSE IF Live(temps[m].valid) THEN Append(h[m - 1], temps[m]) ELSE h[m - 1]
    BY SMTT(20)
  <2>1. \A j \in 0 .. n - 1 : h[j] = g[j]
    BY <1>2
  <2>2. CASE m = n
    BY <1>2, <1>3, <2>1, <2>2
  <2>3. CASE m # n
    <3>1. m \in 0 .. n - 1 /\ (m # 0 => m - 1 \in 0 .. n - 1)
      BY <1>2, <2>3
    <3>2. g[m] = IF m = 0 THEN <<>>
                 ELSE IF Live(temps[m].valid) THEN Append(g[m - 1], temps[m]) ELSE g[m - 1]
      BY <1>4, <1>5, <3>1, KeptStep
    <3> QED
      BY <2>1, <3>1, <3>2
  <2> QED
    BY <2>2, <2>3
<1>7. h = [m \in 0 .. n |-> h[m]]
  OBVIOUS
<1> HIDE DEF h
<1>8. Kept(h, temps, n)
  BY <1>6, <1>7, Zenon DEF Kept
<1> QED
  BY <1>2, <1>8

(***************************************************************************)
(* retain keeps addresses of the list, in their order, that are still      *)
(* valid: a kept one that is not the last was not the last before.         *)
(***************************************************************************)
LEMMA RetainedOK ==
    ASSUME NEW temps \in Seq(Temp)
    PROVE  LET R == Retained(temps)
           IN  /\ R \in Seq(Temp) /\ Len(R) <= Len(temps)
               /\ \A i \in 1 .. Len(R) :
                     \E k \in 1 .. Len(temps) :
                         /\ R[i] = temps[k] /\ Live(temps[k].valid)
                         /\ i < Len(R) => k < Len(temps)
<1> DEFINE R == Retained(temps)
           L == Len(temps)
           kept == CHOOSE f : f = [n \in 0 .. L |->
                        IF n = 0 THEN <<>>
                        ELSE IF Live(temps[n].valid) THEN Append(f[n - 1], temps[n]) ELSE f[n - 1]]
<1>1. L \in Nat /\ R = kept[L]
  BY DEF Retained
<1>2. Kept(kept, temps, L)
  <2>1. \E f : f = [n \in 0 .. L |->
                IF n = 0 THEN <<>>
                ELSE IF Live(temps[n].valid) THEN Append(f[n - 1], temps[n]) ELSE f[n - 1]]
    BY KeptExists DEF Kept
  <2>2. kept = [n \in 0 .. L |->
                IF n = 0 THEN <<>>
                ELSE IF Live(temps[n].valid) THEN Append(kept[n - 1], temps[n]) ELSE kept[n - 1]]
    BY <2>1, Zenon
  <2> QED
    BY <2>2, Zenon DEF Kept
<1> HIDE DEF kept, R
<1>3. /\ kept[0] = <<>>
      /\ \A n \in 1 .. L : kept[n] = IF Live(temps[n].valid) THEN Append(kept[n - 1], temps[n]) ELSE kept[n - 1]
  <2>1. \A m \in 0 .. L :
           kept[m] = IF m = 0 THEN <<>>
                     ELSE IF Live(temps[m].valid) THEN Append(kept[m - 1], temps[m]) ELSE kept[m - 1]
    BY <1>1, <1>2, KeptStep
  <2> QED
    BY <1>1, <2>1
<1> DEFINE Good(n) == /\ kept[n] \in Seq(Temp) /\ Len(kept[n]) <= n
                      /\ \A i \in 1 .. Len(kept[n]) :
                            \E k \in 1 .. n :
                                /\ kept[n][i] = temps[k] /\ Live(temps[k].valid)
                                /\ i < Len(kept[n]) => k < n
           T == {n \in 0 .. L : ~Good(n)}
<1>4. T = {}
  <2> SUFFICES ASSUME T # {}
               PROVE  FALSE
    OBVIOUS
  <2>1. T \subseteq Nat
    BY <1>1
  <2>2. PICK n \in T : \A y \in T : n <= y
    BY <2>1, Least, Zenon
  <2>3. n \in 0 .. L /\ ~Good(n)
    BY <2>2
  <2>4. n # 0
    <3>1. Good(0)
      BY <1>3
    <3> QED
      BY <2>3, <3>1
  <2>5. n - 1 \in 0 .. L /\ n - 1 \notin T
    BY <1>1, <2>2, <2>3, <2>4
  <2>6. Good(n - 1)
    BY <2>5, Zenon
  <2>7. n \in 1 .. L /\ temps[n] \in Temp
    BY <1>1, <2>3, <2>4
  <2> DEFINE s == kept[n - 1]
             u == kept[n]
  <2>8. /\ s \in Seq(Temp) /\ Len(s) <= n - 1 /\ Len(s) \in Nat
        /\ \A i \in 1 .. Len(s) : \E k \in 1 .. n - 1 : s[i] = temps[k] /\ Live(temps[k].valid)
    BY <2>6
  <2>9. u = IF Live(temps[n].valid) THEN Append(s, temps[n]) ELSE s
    BY <1>3, <2>7
  <2> HIDE DEF s, u, T, Good
  <2>10. /\ u \in Seq(Temp) /\ Len(u) <= n /\ Len(u) \in Nat
    BY <1>1, <2>7, <2>8, <2>9
  <2>11. ASSUME NEW i \in 1 .. Len(u)
         PROVE  \E k \in 1 .. n : /\ u[i] = temps[k] /\ Live(temps[k].valid)
                                  /\ i < Len(u) => k < n
    <3>1. CASE ~Live(temps[n].valid)
      <4>1. PICK k \in 1 .. n - 1 : s[i] = temps[k] /\ Live(temps[k].valid)
        BY <2>8, <2>9, <3>1
      <4> QED
        BY <1>1, <2>7, <2>9, <3>1, <4>1
    <3>2. CASE Live(temps[n].valid) /\ i = Len(s) + 1
      BY <1>1, <2>7, <2>8, <2>9, <3>2
    <3>3. CASE Live(temps[n].valid) /\ i # Len(s) + 1
      <4>1. i \in 1 .. Len(s) /\ u[i] = s[i]
        BY <2>7, <2>8, <2>9, <3>3
      <4>2. PICK k \in 1 .. n - 1 : s[i] = temps[k] /\ Live(temps[k].valid)
        BY <2>8, <4>1
      <4> QED
        BY <1>1, <2>7, <4>1, <4>2
    <3> QED
      BY <3>1, <3>2, <3>3
  <2>12. Good(n)
    BY <2>10, <2>11 DEF Good, u
  <2> QED
    BY <2>3, <2>12
<1>5. Good(L)
  BY <1>1, <1>4
<1> QED
  BY <1>1, <1>5 DEF R

(***************************************************************************)
(* What the assumptions say of the constants.                              *)
(***************************************************************************)
LEMMA Constants ==
    /\ None \notin Int /\ Forever \notin Int /\ None # Forever /\ None \notin Prefix
    /\ TWO_HOURS \in Nat /\ TWO_HOURS > 0 /\ TEMP_PREFERRED \in Nat /\ TEMP_VALID \in Nat
    /\ MAX_DESYNC \in Nat /\ MAX_DESYNC < TEMP_PREFERRED /\ TEMP_PREFERRED <= TEMP_VALID
    /\ MAX_TEMPS \in Nat /\ MAX_TEMPS > 0
    /\ SOLICIT_INTERVAL \in Nat /\ SOLICIT_INTERVAL > 0
    /\ MAX_SOLICIT_INTERVAL \in Nat /\ MAX_SOLICIT_INTERVAL >= SOLICIT_INTERVAL
    /\ SOLICITS_BEFORE_BACKOFF \in Nat
    /\ None \notin PrefixInfo /\ Adverts \subseteq Advert
  BY NdpAssumption

(***************************************************************************)
(* min of two Instants is one of them, and ahead if both are.              *)
(***************************************************************************)
LEMMA EarlierOK ==
    ASSUME NEW a \in Lifetime \cup {Acted}, NEW b \in Lifetime \cup {Acted}
    PROVE  /\ Earlier(a, b) \in {a, b}
           /\ Live(a) /\ Live(b) => Live(Earlier(a, b))
  BY DEF Earlier

(***************************************************************************)
(* A finite set has no more images than elements.                          *)
(***************************************************************************)
LEMMA ImageBound ==
    ASSUME NEW S, IsFiniteSet(S), NEW f, f = [x \in S |-> f[x]]
    PROVE  IsFiniteSet({f[x] : x \in S}) /\ Cardinality({f[x] : x \in S}) <= Cardinality(S)
<1> DEFINE T == {f[x] : x \in S}
<1>1. f \in Surjection(S, T)
  BY DEF Surjection
<1> HIDE DEF T
<1>2. IsFiniteSet(T) /\ Cardinality(T) <= Cardinality(S)
  BY <1>1, FS_Surjection
<1> QED
  BY <1>2 DEF T

(***************************************************************************)
(* new_temp finds an identifier the prefix does not have already.          *)
(***************************************************************************)
LEMMA DrawnOK ==
    ASSUME NEW temps \in Seq(Temp), Len(temps) <= MAX_TEMPS
    PROVE  Drawn(temps) \in Iids /\ \A i \in DOMAIN temps : temps[i].iid # Drawn(temps)
<1> DEFINE S == 1 .. Len(temps)
           f == [i \in S |-> temps[i].iid]
           T == {f[i] : i \in S}
<1>1. Len(temps) \in Nat /\ S = DOMAIN temps
  OBVIOUS
<1>2. IsFiniteSet(S) /\ Cardinality(S) = Len(temps)
  BY <1>1, FS_Interval, SMTT(20)
<1>3. f = [x \in S |-> f[x]]
  OBVIOUS
<1>4. \A i \in S : f[i] = temps[i].iid /\ f[i] \in Iids
  <2>1. \A i \in S : temps[i] \in Temp
    BY <1>1
  <2> QED
    BY <2>1 DEF Temp
<1> HIDE DEF f, S
<1>5. IsFiniteSet(T) /\ Cardinality(T) <= Len(temps)
  BY <1>2, <1>3, ImageBound
<1>6. T \in SUBSET Iids
  BY <1>4
<1>7. IsFiniteSet(T) /\ Cardinality(T) <= MAX_TEMPS
  <2>1. Cardinality(T) \in Nat
    BY <1>5, FS_CardinalityType
  <2> QED
    BY <1>1, <1>5, <2>1, Constants
<1>8. Iids \ T # {}
  BY <1>6, <1>7, NdpAssumption
<1>9. \E iid \in Iids : \A i \in DOMAIN temps : temps[i].iid # iid
  BY <1>1, <1>4, <1>8
<1> HIDE DEF T
<1> QED
  BY <1>9 DEF Drawn

(***************************************************************************)
(* A new temporary address lives no longer than its prefix, and is         *)
(* preferred if the prefix is: new_temp's desync is below TEMP_PREFERRED.  *)
(***************************************************************************)
LEMMA NewTempOK ==
    ASSUME NEW p \in Prefix, NEW temps \in Seq(Temp), Len(temps) <= MAX_TEMPS,
           NEW desync \in 0 .. MAX_DESYNC
    PROVE  /\ NewTemp(p, temps, desync) \in Temp
           /\ Live(p.preferred) => Live(NewTemp(p, temps, desync).preferred)
           /\ Live(p.valid) => Live(NewTemp(p, temps, desync).valid)
<1> DEFINE a == TEMP_PREFERRED - desync
           b == Earlier(a, p.preferred)
           c == Earlier(TEMP_VALID, p.valid)
<1>1. a \in Nat /\ a > 0 /\ TEMP_VALID \in Nat /\ TEMP_VALID > 0
  BY Constants
<1>2. p.preferred \in Lifetime \cup {Acted} /\ p.valid \in Lifetime
  BY DEF Prefix
<1> HIDE DEF a
<1>3. b \in Lifetime \cup {Acted} /\ (Live(p.preferred) => Live(b))
  <2>1. Live(a) /\ a \in Lifetime
    BY <1>1 DEF Live, Lifetime
  <2> QED
    BY <1>2, <2>1, EarlierOK
<1>4. c \in Lifetime /\ (Live(p.valid) => Live(c))
  <2>1. Live(TEMP_VALID) /\ TEMP_VALID \in Lifetime
    BY <1>1 DEF Live, Lifetime
  <2> QED
    BY <1>2, <2>1, EarlierOK
<1>5. NewTemp(p, temps, desync) = [iid |-> Drawn(temps), preferred |-> b, valid |-> c]
  BY DEF NewTemp, a
<1>6. Drawn(temps) \in Iids
  BY DrawnOK
<1> HIDE DEF b, c
<1> QED
  BY <1>3, <1>4, <1>5, <1>6 DEF Temp

(***************************************************************************)
(* Once expire has looked at a preferred lifetime it is no deadline that   *)
(* has come, and it is as live as it was.                                  *)
(***************************************************************************)
LEMMA SeenOK ==
    ASSUME NEW e \in Lifetime \cup {Acted}
    PROVE  /\ Seen(e) \in Lifetime \cup {Acted}
           /\ (Live(Seen(e)) <=> Live(e))
           /\ Ahead(Pending(Seen(e)))
<1>1. CASE Live(e)
  <2>1. Seen(e) = e /\ e # Acted
    BY <1>1, Constants DEF Seen, Live, Acted
  <2>2. Ahead(e)
    BY <1>1 DEF Ahead, Live
  <2> QED
    BY <2>1, <2>2 DEF Pending
<1>2. CASE ~Live(e)
  <2>1. Seen(e) = Acted /\ ~Live(Acted)
    BY <1>2, Constants DEF Seen, Live, Acted
  <2> QED
    BY <1>2, <2>1 DEF Pending, Ahead
<1> QED
  BY <1>1, <1>2

(***************************************************************************)
(* drain keeps the newest MAX_TEMPS addresses, the last one among them.    *)
(***************************************************************************)
LEMMA CutOK ==
    ASSUME NEW temps \in Seq(Temp)
    PROVE  LET C == Cut(temps)
           IN  /\ C \in Seq(Temp) /\ Len(C) <= MAX_TEMPS /\ Len(C) <= Len(temps)
               /\ temps # <<>> => C # <<>> /\ C[Len(C)] = temps[Len(temps)]
               /\ \A i \in 1 .. Len(C) : \E k \in 1 .. Len(temps) :
                     C[i] = temps[k] /\ (i < Len(C) => k < Len(temps))
<1> DEFINE L == Len(temps)
           m == IF L > MAX_TEMPS THEN L - MAX_TEMPS + 1 ELSE 1
           C == Cut(temps)
<1>1. L \in Nat /\ MAX_TEMPS \in Nat /\ MAX_TEMPS > 0
  BY Constants
<1>2. m \in Nat /\ m >= 1 /\ (L > 0 => m <= L) /\ L - m + 1 <= MAX_TEMPS /\ L - m + 1 \in Nat /\ L - m + 1 <= L
  BY <1>1
<1>3. C = SubSeq(temps, m, L)
  BY DEF Cut
<1> HIDE DEF m
<1>4. /\ C \in Seq(Temp) /\ Len(C) = L - m + 1
      /\ \A i \in 1 .. L - m + 1 : C[i] = temps[m + i - 1]
  <2>1. \A i \in m .. L : temps[i] \in Temp
    BY <1>1, <1>2
  <2>2. C = [i \in 1 .. L - m + 1 |-> temps[m + i - 1]]
    BY <1>1, <1>2, <1>3
  <2>3. \A i \in 1 .. L - m + 1 : m + i - 1 \in m .. L
    BY <1>1, <1>2
  <2> HIDE DEF C
  <2>4. C \in [1 .. L - m + 1 -> Temp]
    BY <2>1, <2>2, <2>3
  <2>5. C \in Seq(Temp)
    BY <1>2, <2>4
  <2>6. Len(C) = L - m + 1
    BY <1>2, <2>2, <2>5
  <2> QED
    BY <2>2, <2>5, <2>6, Zenon
<1> HIDE DEF C
<1>5. ASSUME NEW i \in 1 .. Len(C)
      PROVE  \E k \in 1 .. L : C[i] = temps[k] /\ (i < Len(C) => k < L)
  <2>1. m + i - 1 \in 1 .. L /\ C[i] = temps[m + i - 1] /\ (i < Len(C) => m + i - 1 < L)
    BY <1>1, <1>2, <1>4
  <2> QED
    BY <2>1
<1>6. temps # <<>> => C # <<>> /\ C[Len(C)] = temps[L]
  <2> SUFFICES ASSUME temps # <<>>
               PROVE  C # <<>> /\ C[Len(C)] = temps[L]
    OBVIOUS
  <2>1. L > 0
    BY <1>1
  <2>2. Len(C) \in 1 .. L - m + 1 /\ Len(C) > 0 /\ m + Len(C) - 1 = L
    BY <1>1, <1>2, <1>4, <2>1
  <2> QED
    BY <1>4, <2>2
<1> QED
  BY <1>2, <1>4, <1>5, <1>6 DEF C

\* A list of temporary addresses as expire keeps it: all valid, all but the last deprecated.
Grown(temps) ==
    /\ temps \in Seq(Temp)
    /\ \A i \in 1 .. Len(temps) : Live(temps[i].valid)
    /\ \A i \in 1 .. Len(temps) - 1 : ~Live(temps[i].preferred)

(***************************************************************************)
(* Cutting the list to MAX_TEMPS keeps the shape of it.                    *)
(***************************************************************************)
LEMMA CutGrown ==
    ASSUME NEW temps, Grown(temps)
    PROVE  /\ Grown(Cut(temps)) /\ Len(Cut(temps)) <= MAX_TEMPS
           /\ temps # <<>> => Cut(temps) # <<>> /\ Cut(temps)[Len(Cut(temps))] = temps[Len(temps)]
<1> DEFINE C == Cut(temps)
<1>1. temps \in Seq(Temp) /\ Len(temps) \in Nat
  BY DEF Grown
<1>2. /\ C \in Seq(Temp) /\ Len(C) <= MAX_TEMPS /\ Len(C) <= Len(temps)
      /\ temps # <<>> => C # <<>> /\ C[Len(C)] = temps[Len(temps)]
      /\ \A i \in 1 .. Len(C) : \E k \in 1 .. Len(temps) :
            C[i] = temps[k] /\ (i < Len(C) => k < Len(temps))
  BY <1>1, CutOK
<1> HIDE DEF C
<1>3. Len(C) \in Nat
  BY <1>2
<1>4. \A i \in 1 .. Len(C) : Live(C[i].valid)
  BY <1>2 DEF Grown
<1>5. ASSUME NEW i \in 1 .. Len(C) - 1
      PROVE  ~Live(C[i].preferred)
  <2>1. i \in 1 .. Len(C) /\ i < Len(C)
    BY <1>3
  <2>2. PICK k \in 1 .. Len(temps) : C[i] = temps[k] /\ k < Len(temps)
    BY <1>2, <2>1
  <2>3. k \in 1 .. Len(temps) - 1
    BY <1>1, <2>2
  <2> QED
    BY <2>2, <2>3 DEF Grown
<1>6. Grown(C)
  BY <1>2, <1>4, <1>5, Zenon DEF Grown
<1> QED
  BY <1>2, <1>6 DEF C

(***************************************************************************)
(* The regeneration in expire keeps the shape of the list and leaves a     *)
(* preferred address at the end of it while the prefix is preferred.       *)
(***************************************************************************)
LEMMA RegeneratedOK ==
    ASSUME NEW p \in Prefix, Live(p.valid), NEW desync \in 0 .. MAX_DESYNC,
           NEW temps, Grown(temps), Len(temps) <= MAX_TEMPS
    PROVE  LET R == Regenerated(p, temps, desync)
           IN  /\ Grown(R) /\ Len(R) <= MAX_TEMPS
               /\ temporary /\ Live(p.preferred) => R # <<>> /\ Live(R[Len(R)].preferred)
<1> DEFINE t == NewTemp(p, temps, desync)
           R == Regenerated(p, temps, desync)
           needed == temporary /\ Live(p.preferred) /\ (temps = <<>> \/ ~Live(temps[Len(temps)].preferred))
<1>1. temps \in Seq(Temp) /\ Len(temps) \in Nat
  BY DEF Grown
<1>2. t \in Temp /\ Live(t.valid) /\ (Live(p.preferred) => Live(t.preferred))
  BY <1>1, NewTempOK
<1> HIDE DEF t
<1>3. CASE needed
  <2> DEFINE U == Append(temps, t)
  <2>1. R = Cut(U)
    BY <1>3 DEF Regenerated, t
  <2>2. /\ U \in Seq(Temp) /\ Len(U) = Len(temps) + 1 /\ U # <<>> /\ U[Len(U)] = t
        /\ \A i \in 1 .. Len(temps) : U[i] = temps[i]
    BY <1>1, <1>2
  <2> HIDE DEF U
  <2>3. \A i \in 1 .. Len(temps) : ~Live(temps[i].preferred)
    <3>1. \A i \in 1 .. Len(temps) : i \in 1 .. Len(temps) - 1 \/ (i = Len(temps) /\ temps # <<>>)
      BY <1>1
    <3> QED
      BY <1>3, <3>1 DEF Grown
  <2>4. \A i \in 1 .. Len(U) - 1 : ~Live(U[i].preferred)
    BY <1>1, <2>2, <2>3
  <2>5. \A i \in 1 .. Len(U) : Live(U[i].valid)
    <3>1. \A i \in 1 .. Len(U) : i \in 1 .. Len(temps) \/ i = Len(U)
      BY <1>1, <2>2
    <3> QED
      BY <1>2, <2>2, <3>1 DEF Grown
  <2>6. Grown(U)
    BY <2>2, <2>4, <2>5 DEF Grown
  <2>7. Grown(R) /\ Len(R) <= MAX_TEMPS /\ R # <<>> /\ R[Len(R)] = t
    BY <2>1, <2>2, <2>6, CutGrown
  <2> QED
    BY <1>2, <1>3, <2>7
<1>4. CASE ~needed
  <2>1. R = Cut(temps)
    BY <1>4 DEF Regenerated
  <2>2. /\ Grown(R) /\ Len(R) <= MAX_TEMPS
        /\ temps # <<>> => R # <<>> /\ R[Len(R)] = temps[Len(temps)]
    BY <2>1, CutGrown
  <2> HIDE DEF R
  <2>3. temporary /\ Live(p.preferred) => temps # <<>> /\ Live(temps[Len(temps)].preferred)
    BY <1>4
  <2> QED
    BY <2>2, <2>3 DEF R
<1> QED
  BY <1>3, <1>4

(***************************************************************************)
(* What expire makes of a prefix: it goes exactly when its valid lifetime  *)
(* is over, and otherwise every deadline of it lies ahead.                 *)
(***************************************************************************)
LEMMA ExpirePrefixOK ==
    ASSUME NEW p \in Prefix \cup {None}, p # None => Aged(p), NEW desync \in 0 .. MAX_DESYNC
    PROVE  LET q == ExpirePrefix(p, desync)
           IN  /\ q \in Prefix \cup {None}
               /\ q # None <=> p # None /\ Live(p.valid)
               /\ q # None => /\ Aged(q) /\ PrefixAhead(q) /\ q.valid = p.valid
                              /\ temporary => FreshLast(q)
<1> DEFINE q == ExpirePrefix(p, desync)
<1>1. CASE p = None \/ ~Live(p.valid)
  BY <1>1 DEF ExpirePrefix
<1>2. CASE p # None /\ Live(p.valid)
  <2> DEFINE K == Retained(p.temps)
             R == Regenerated(p, K, desync)
             T == [i \in DOMAIN R |-> SeenTemp(R[i])]
  <2>1. p \in Prefix /\ Aged(p) /\ p.temps \in Seq(Temp) /\ Len(p.temps) \in Nat
    BY <1>2 DEF Prefix
  <2>2. q = [p EXCEPT !.preferred = Seen(p.preferred), !.temps = T]
    BY <1>2 DEF ExpirePrefix
  <2>3. /\ K \in Seq(Temp) /\ Len(K) <= Len(p.temps)
        /\ \A i \in 1 .. Len(K) : \E k \in 1 .. Len(p.temps) :
              /\ K[i] = p.temps[k] /\ Live(p.temps[k].valid)
              /\ i < Len(K) => k < Len(p.temps)
    BY <2>1, RetainedOK, Zenon
  <2> HIDE DEF K
  <2>4. Len(K) \in Nat /\ Len(K) <= MAX_TEMPS
    BY <2>1, <2>3, Constants DEF Aged
  <2>5. \A i \in 1 .. Len(K) : Live(K[i].valid)
    BY <2>3
  <2>6. ASSUME NEW i \in 1 .. Len(K) - 1
        PROVE  ~Live(K[i].preferred)
    <3>1. i \in 1 .. Len(K) /\ i < Len(K)
      BY <2>4
    <3>2. PICK k \in 1 .. Len(p.temps) : K[i] = p.temps[k] /\ k < Len(p.temps)
      BY <2>3, <3>1
    <3>3. k \in 1 .. Len(p.temps) - 1
      BY <2>1, <3>2
    <3> QED
      BY <2>1, <3>2, <3>3 DEF Aged
  <2>7. Grown(K)
    BY <2>3, <2>5, <2>6 DEF Grown
  <2>8. /\ Grown(R) /\ Len(R) <= MAX_TEMPS
        /\ temporary /\ Live(p.preferred) => R # <<>> /\ Live(R[Len(R)].preferred)
    BY <1>2, <2>1, <2>4, <2>7, RegeneratedOK
  <2> HIDE DEF R
  <2>9. R \in Seq(Temp) /\ Len(R) \in Nat /\ DOMAIN R = 1 .. Len(R)
    BY <2>8 DEF Grown
  <2>10. ASSUME NEW i \in 1 .. Len(R)
         PROVE  /\ T[i] \in Temp /\ T[i].valid = R[i].valid
                /\ Live(T[i].preferred) <=> Live(R[i].preferred)
                /\ Ahead(T[i].valid) /\ Ahead(Pending(T[i].preferred))
    <3>1. R[i] \in Temp /\ Live(R[i].valid) /\ T[i] = SeenTemp(R[i])
      BY <2>8, <2>9 DEF Grown
    <3>2. R[i].preferred \in Lifetime \cup {Acted}
      BY <3>1 DEF Temp
    <3>3. /\ Seen(R[i].preferred) \in Lifetime \cup {Acted}
          /\ Live(Seen(R[i].preferred)) <=> Live(R[i].preferred)
          /\ Ahead(Pending(Seen(R[i].preferred)))
      BY <3>2, SeenOK
    <3> HIDE DEF T
    <3>4. /\ T[i] \in Temp /\ T[i].valid = R[i].valid
          /\ T[i].preferred = Seen(R[i].preferred)
      BY <3>1, <3>3 DEF SeenTemp, Temp
    <3>5. Ahead(R[i].valid)
      BY <3>1 DEF Ahead, Live
    <3> QED
      BY <3>3, <3>4, <3>5
  <2>11. T \in Seq(Temp) /\ Len(T) = Len(R) /\ DOMAIN T = 1 .. Len(R)
    <3>1. T \in [1 .. Len(R) -> Temp]
      BY <2>9, <2>10
    <3> HIDE DEF T
    <3> QED
      BY <2>9, <3>1
  <2> HIDE DEF T, q
  <2>12. p.preferred \in Lifetime \cup {Acted}
    BY <2>1 DEF Prefix
  <2>13. /\ Seen(p.preferred) \in Lifetime \cup {Acted}
         /\ Live(Seen(p.preferred)) <=> Live(p.preferred)
         /\ Ahead(Pending(Seen(p.preferred)))
    BY <2>12, SeenOK
  <2>14. /\ q \in Prefix /\ q.preferred = Seen(p.preferred) /\ q.temps = T
         /\ q.valid = p.valid
    BY <2>1, <2>2, <2>11, <2>13, Zenon DEF Prefix
  <2>15. q # None
    BY <2>14, Constants
  <2>16. Aged(q)
    <3>1. \A i \in 1 .. Len(R) - 1 : i \in 1 .. Len(R)
      BY <2>9
    <3> QED
      BY <2>8, <2>10, <2>11, <2>14, <3>1 DEF Aged, Grown
  <2>17. PrefixAhead(q)
    <3>1. Ahead(q.valid)
      BY <1>2, <2>14 DEF Ahead, Live
    <3> QED
      BY <2>10, <2>11, <2>13, <2>14, <3>1 DEF PrefixAhead
  <2>18. temporary => FreshLast(q)
    <3> SUFFICES ASSUME temporary, Live(p.preferred)
                 PROVE  q.temps # <<>> /\ Live(q.temps[Len(q.temps)].preferred)
      BY <2>13, <2>14 DEF FreshLast
    <3>1. R # <<>> /\ Live(R[Len(R)].preferred)
      BY <2>8
    <3>2. Len(R) \in 1 .. Len(R)
      BY <2>9, <3>1
    <3>3. T # <<>>
      BY <2>11, <3>2
    <3> QED
      BY <2>10, <2>11, <2>14, <3>1, <3>2, <3>3
  <2> QED
    BY <1>2, <2>14, <2>15, <2>16, <2>17, <2>18 DEF q
<1> QED
  BY <1>1, <1>2

(***************************************************************************)
(* The two-hour rule, on the lifetimes: what is left is live if it was,    *)
(* and no less than the lesser of two hours and what there was.            *)
(***************************************************************************)
LEMMA ValidOK ==
    ASSUME NEW left \in Lifetime, NEW received \in Lifetime
    PROVE  /\ Valid(left, received) \in Lifetime
           /\ Live(left) => /\ Live(Valid(left, received))
                            /\ ~Exceeds(Earlier(left, TWO_HOURS), Valid(left, received))
<1> USE Constants
<1>1. Valid(left, received) \in Lifetime
  BY DEF Valid, Earlier, Lifetime
<1>2. CASE Exceeds(received, TWO_HOURS) \/ Exceeds(received, left)
  <2>1. Valid(left, received) = received
    BY <1>2 DEF Valid
  <2>2. Live(left) => Live(received)
    BY <1>2 DEF Exceeds, Live, Lifetime
  <2>3. ~Exceeds(Earlier(left, TWO_HOURS), received)
    BY <1>2 DEF Exceeds, Earlier, Lifetime
  <2> QED
    BY <1>1, <2>1, <2>2, <2>3
<1>3. CASE ~(Exceeds(received, TWO_HOURS) \/ Exceeds(received, left))
  <2> DEFINE e == Earlier(left, TWO_HOURS)
  <2>1. Valid(left, received) = e
    BY <1>3 DEF Valid
  <2>2. e \in Lifetime /\ (Live(left) => Live(e))
    BY DEF Earlier, Exceeds, Live, Lifetime
  <2> HIDE DEF e
  <2>3. ~Exceeds(e, e)
    BY <2>2 DEF Exceeds, Lifetime
  <2> QED
    BY <2>1, <2>2, <2>3 DEF e
<1> QED
  BY <1>2, <1>3

(***************************************************************************)
(* receive_prefix adds a prefix with at most one temporary address, or     *)
(* refreshes one it has under the two-hour rule.                           *)
(***************************************************************************)
LEMMA ReceivePrefixOK ==
    ASSUME NEW p \in Prefix \cup {None}, p # None => Aged(p),
           NEW info \in PrefixInfo \cup {None}, NEW desync \in 0 .. MAX_DESYNC
    PROVE  LET r == ReceivePrefix(p, info, desync)
           IN  /\ r \in Prefix \cup {None} /\ (r # None => Aged(r))
               /\ p # None /\ Live(p.valid) =>
                     /\ r # None /\ Live(r.valid)
                     /\ ~Exceeds(Earlier(p.valid, TWO_HOURS), r.valid)
<1> DEFINE r == ReceivePrefix(p, info, desync)
<1>0. \A e \in Lifetime : ~Exceeds(Earlier(e, TWO_HOURS), e)
  BY Constants DEF Exceeds, Earlier, Lifetime
<1>1. CASE info = None \/ ~Acceptable(info)
  <2>1. r = p
    BY <1>1 DEF ReceivePrefix
  <2>2. p # None => p.valid \in Lifetime
    BY DEF Prefix
  <2> QED
    BY <1>0, <2>1, <2>2
<1>2. CASE ~(info = None \/ ~Acceptable(info)) /\ p # None
  <2>1. r = [p EXCEPT !.on_link = info.on_link, !.preferred = info.preferred,
                      !.valid = Valid(p.valid, info.valid)]
    BY <1>2 DEF ReceivePrefix
  <2>2. p \in Prefix /\ info \in PrefixInfo /\ Aged(p)
    BY <1>2
  <2>3. p.valid \in Lifetime /\ info.valid \in Lifetime /\ info.preferred \in Lifetime /\ info.on_link \in BOOLEAN
    BY <2>2 DEF Prefix, PrefixInfo
  <2> DEFINE v == Valid(p.valid, info.valid)
  <2>4. /\ v \in Lifetime
        /\ Live(p.valid) => Live(v) /\ ~Exceeds(Earlier(p.valid, TWO_HOURS), v)
    BY <2>3, ValidOK
  <2> HIDE DEF v, r
  <2>5. r \in Prefix /\ r.valid = v /\ r.temps = p.temps
    BY <2>1, <2>2, <2>3, <2>4, Zenon DEF Prefix, v
  <2>6. Aged(r) /\ r # None
    BY <2>2, <2>5, Constants DEF Aged
  <2> QED
    BY <2>4, <2>5, <2>6 DEF r
<1>3. CASE ~(info = None \/ ~Acceptable(info)) /\ p = None
  <2>1. info \in PrefixInfo
    BY <1>3
  <2>2. info.valid \in Lifetime /\ info.preferred \in Lifetime /\ info.on_link \in BOOLEAN
    BY <2>1 DEF PrefixInfo
  <2> DEFINE q == [on_link |-> info.on_link, valid |-> info.valid,
                   preferred |-> info.preferred, temps |-> <<>>]
             t == NewTemp(q, <<>>, desync)
  <2>3. q \in Prefix
    BY <2>2 DEF Prefix
  <2>4. t \in Temp
    <3>1. <<>> \in Seq(Temp) /\ Len(<<>>) <= MAX_TEMPS
      BY Constants
    <3> HIDE DEF q
    <3> QED
      BY <2>3, <3>1, NewTempOK, Zenon
  <2>5. r \in {None, q, [q EXCEPT !.temps = <<t>>]}
    BY <1>3 DEF ReceivePrefix
  <2> HIDE DEF r, t
  <2>6. [q EXCEPT !.temps = <<t>>] \in Prefix
    <3>1. <<t>> \in Seq(Temp)
      BY <2>4
    <3> QED
      BY <2>3, <3>1, Zenon DEF Prefix
  <2>7. Aged(q) /\ Aged([q EXCEPT !.temps = <<t>>])
    BY Constants DEF Aged
  <2> QED
    BY <1>3, <2>3, <2>5, <2>6, <2>7 DEF r
<1> QED
  BY <1>1, <1>2, <1>3

(***************************************************************************)
(* next_deadline covers all the engine's state: no deadline has come       *)
(* exactly when every lifetime and the solicitation lie ahead.             *)
(***************************************************************************)
LEMMA NotDue ==
    ASSUME TypeOK
    PROVE  ~Due <=> AllAhead
<1> DEFINE Of(p) == {p.valid, Pending(p.preferred)} \cup {t.valid : t \in TempsOf(p)}
                    \cup {Pending(t.preferred) : t \in TempsOf(p)}
           Some == {solicit_in} \cup {routers[r] : r \in Routers} \cup {resolvers[s] : s \in Resolvers}
                   \cup UNION {Of(p) : p \in Held}
<1>1. Deadlines = Some \ {None, Forever}
  BY Zenon DEF Deadlines
<1>2. \A e : e \in Lifetime \cup {None, Acted} =>
         /\ (e \notin {None, Forever} /\ e <= 0) <=> ~Ahead(e)
         /\ Pending(e) \in Lifetime \cup {None, Acted}
  BY Constants DEF Ahead, Lifetime, Acted, Pending
<1>3. \A p \in Prefix : Of(p) \subseteq Lifetime \cup {None, Acted}
  <2> SUFFICES ASSUME NEW p \in Prefix
               PROVE  Of(p) \subseteq Lifetime \cup {None, Acted}
    OBVIOUS
  <2>1. p.valid \in Lifetime /\ p.preferred \in Lifetime \cup {Acted} /\ p.temps \in Seq(Temp)
    BY DEF Prefix
  <2>2. \A t \in TempsOf(p) : t \in Temp
    BY <2>1 DEF TempsOf
  <2>3. \A t \in TempsOf(p) : t.valid \in Lifetime /\ t.preferred \in Lifetime \cup {Acted}
    BY <2>2 DEF Temp
  <2> QED
    BY <1>2, <2>1, <2>3
<1>4. \A p \in Prefix : (\A e \in Of(p) : Ahead(e)) <=> PrefixAhead(p)
  BY DEF PrefixAhead, TempsOf
<1>5. Held \subseteq Prefix /\ \A p : p \in Held <=> \E key \in Prefixes : prefixes[key] = p /\ p # None
  BY DEF Held, TypeOK
<1> HIDE DEF Of
<1>6. Some \subseteq Lifetime \cup {None, Acted}
  BY <1>3, <1>5 DEF TypeOK, Lifetime
<1>7. (\A e \in Some : Ahead(e)) <=> AllAhead
  <2>1. (\A e \in Some : Ahead(e)) <=>
           /\ Ahead(solicit_in) /\ (\A r \in Routers : Ahead(routers[r]))
           /\ (\A s \in Resolvers : Ahead(resolvers[s]))
           /\ \A p \in Held : \A e \in Of(p) : Ahead(e)
    OBVIOUS
  <2>2. (\A p \in Held : \A e \in Of(p) : Ahead(e)) <=> \A p \in Held : PrefixAhead(p)
    BY <1>4, <1>5
  <2>3. (\A p \in Held : PrefixAhead(p)) <=> \A key \in Prefixes : prefixes[key] # None => PrefixAhead(prefixes[key])
    BY <1>5, Zenon
  <2> QED
    BY <2>1, <2>2, <2>3 DEF AllAhead
<1> HIDE DEF Some
<1> QED
  BY <1>1, <1>2, <1>6, <1>7 DEF Due

-----------------------------------------------------------------------------
(***************************************************************************)
(* The calls.                                                              *)
(***************************************************************************)
\* When to solicit next, as expire and tick pass it on.
Schedule == [at : Nat \cup {None}, interval : Nat \ {0}, solicits : Nat]

\* The prefixes as expire leaves them.
Settled(ps) ==
    /\ ps \in [Prefixes -> Prefix \cup {None}]
    /\ \A key \in Prefixes : ps[key] # None =>
          Aged(ps[key]) /\ PrefixAhead(ps[key]) /\ (temporary => FreshLast(ps[key]))

(***************************************************************************)
(* expire leaves no router, resolver or domain whose lifetime is over.     *)
(***************************************************************************)
LEMMA ExpireOK ==
    ASSUME NEW s \in Schedule, NEW rs \in [Routers -> Nat \cup {None}],
           NEW ds \in [Resolvers -> Lifetime \cup {None}]
    PROVE  /\ ExpireSchedule(s, rs) \in Schedule
           /\ ExpireRouters(rs) \in [Routers -> Nat \cup {None}]
           /\ \A r \in Routers : Ahead(ExpireRouters(rs)[r])
           /\ ExpireResolvers(ds) \in [Resolvers -> Lifetime \cup {None}]
           /\ \A d \in Resolvers : Ahead(ExpireResolvers(ds)[d])
<1>1. ExpireSchedule(s, rs) \in Schedule
  BY Constants DEF ExpireSchedule, Schedule
<1>2. /\ ExpireRouters(rs) \in [Routers -> Nat \cup {None}]
      /\ \A r \in Routers : Ahead(ExpireRouters(rs)[r])
  BY DEF ExpireRouters, Ahead
<1>3. /\ ExpireResolvers(ds) \in [Resolvers -> Lifetime \cup {None}]
      /\ \A d \in Resolvers : Ahead(ExpireResolvers(ds)[d])
  BY DEF ExpireResolvers, Ahead, Live
<1> QED
  BY <1>1, <1>2, <1>3

(***************************************************************************)
(* A tenth off an interval leaves some of it: the next solicitation lies   *)
(* ahead.                                                                  *)
(***************************************************************************)
LEMMA JitteredOK ==
    ASSUME NEW interval \in Nat \ {0}
    PROVE  \A n \in Jittered(interval) : n \in Nat /\ n > 0
<1>1. /\ interval \div 10 \in Nat /\ interval \div 10 < interval
      /\ interval \div 5 \in Nat
  OBVIOUS
<1> QED
  BY <1>1 DEF Jittered

(***************************************************************************)
(* After a tick every deadline lies ahead, and what the accessors answer   *)
(* has been reported.                                                      *)
(***************************************************************************)
LEMMA TickOK ==
    ASSUME IInv, NEW s \in Schedule, NEW desync \in Desyncs, tick(s, desync)
    PROVE  /\ temporary' = temporary /\ Settled(prefixes')
           /\ solicit_in' \in Nat \cup {None} /\ solicit_interval' \in Nat /\ solicit_interval' > 0
           /\ solicits' \in Nat
           /\ routers' \in [Routers -> Nat \cup {None}]
           /\ resolvers' \in [Resolvers -> Lifetime \cup {None}]
           /\ Ahead(solicit_in')
           /\ \A r \in Routers : Ahead(routers'[r])
           /\ \A d \in Resolvers : Ahead(resolvers'[d])
           /\ last_view' = view'
<1> DEFINE expired == ExpireSchedule(s, ExpireRouters(routers))
           count == IF expired.solicits < SOLICITS_BEFORE_BACKOFF
                    THEN expired.solicits + 1 ELSE expired.solicits
           interval == IF count < SOLICITS_BEFORE_BACKOFF THEN expired.interval
                       ELSE IF 2 * expired.interval < MAX_SOLICIT_INTERVAL
                       THEN 2 * expired.interval ELSE MAX_SOLICIT_INTERVAL
<1>1. /\ routers' = ExpireRouters(routers)
      /\ prefixes' = [key \in Prefixes |-> ExpirePrefix(prefixes[key], desync[key])]
      /\ resolvers' = ExpireResolvers(resolvers)
      /\ temporary' = temporary /\ last_view' = view'
      /\ \/ /\ solicits' = count /\ solicit_interval' = interval
            /\ solicit_in' \in Jittered(interval)
         \/ /\ expired.at # None => expired.at > 0
            /\ solicits' = expired.solicits /\ solicit_interval' = expired.interval
            /\ solicit_in' = expired.at
  BY Zenon DEF tick, emit_if_changed
<1>2. routers \in [Routers -> Nat \cup {None}] /\ resolvers \in [Resolvers -> Lifetime \cup {None}]
  BY DEF IInv, TypeOK
<1>3. ExpireRouters(routers) \in [Routers -> Nat \cup {None}]
  BY <1>2, ExpireOK
<1>4. /\ expired \in Schedule
      /\ \A r \in Routers : Ahead(ExpireRouters(routers)[r])
      /\ ExpireResolvers(resolvers) \in [Resolvers -> Lifetime \cup {None}]
      /\ \A d \in Resolvers : Ahead(ExpireResolvers(resolvers)[d])
  BY <1>2, <1>3, ExpireOK
<1> HIDE DEF expired
<1>5. count \in Nat /\ interval \in Nat \ {0} /\ expired.interval \in Nat \ {0}
      /\ expired.solicits \in Nat /\ expired.at \in Nat \cup {None}
  BY <1>4, Constants DEF Schedule
<1> HIDE DEF count, interval
<1>6. /\ solicit_in' \in Nat \cup {None} /\ solicit_interval' \in Nat /\ solicit_interval' > 0
      /\ solicits' \in Nat /\ Ahead(solicit_in')
  <2>1. \A n \in Jittered(interval) : n \in Nat /\ n > 0
    BY <1>5, JitteredOK
  <2> QED
    BY <1>1, <1>5, <2>1 DEF Ahead
<1>7. Settled(prefixes')
  <2>1. ASSUME NEW key \in Prefixes
        PROVE  LET q == ExpirePrefix(prefixes[key], desync[key])
               IN  /\ q \in Prefix \cup {None}
                   /\ q # None => Aged(q) /\ PrefixAhead(q) /\ (temporary => FreshLast(q))
    <3>1. /\ prefixes[key] \in Prefix \cup {None} /\ (prefixes[key] # None => Aged(prefixes[key]))
          /\ desync[key] \in 0 .. MAX_DESYNC
      BY SMTT(20) DEF IInv, TypeOK, Desyncs
    <3> QED
      BY <3>1, ExpirePrefixOK
  <2> QED
    BY <1>1, <2>1 DEF Settled
<1> QED
  BY <1>1, <1>3, <1>4, <1>6, <1>7

(***************************************************************************)
(* An advertisement, with the expire and emit_if_changed that end receive. *)
(***************************************************************************)
LEMMA ReceiveOK ==
    ASSUME IInv, NEW a \in Adverts, Receive(a)
    PROVE  /\ temporary' = temporary /\ running' = running /\ running /\ Settled(prefixes')
           /\ solicit_in' \in Nat \cup {None} /\ solicit_interval' \in Nat /\ solicit_interval' > 0
           /\ solicits' \in Nat
           /\ routers' \in [Routers -> Nat \cup {None}]
           /\ resolvers' \in [Resolvers -> Lifetime \cup {None}]
           /\ last_view' = view' /\ call' = "receive"
           /\ \A key \in Prefixes : prefixes[key] # None /\ Live(prefixes[key].valid) =>
                 /\ prefixes'[key] # None
                 /\ ~Exceeds(Earlier(prefixes[key].valid, TWO_HOURS), prefixes'[key].valid)
<1> DEFINE left == IF a.router_lifetime > 0 THEN a.router_lifetime ELSE None
           rs == [routers EXCEPT ![a.source] = left]
           at == IF a.router_lifetime > 0 THEN None ELSE solicit_in
           ds == [d \in Resolvers |->
                    IF a.resolvers[d] = None THEN resolvers[d]
                    ELSE IF a.resolvers[d] = 0 THEN None
                    ELSE a.resolvers[d]]
           s == [at |-> at, interval |-> solicit_interval, solicits |-> solicits]
           expired == ExpireSchedule(s, ExpireRouters(rs))
<1>1. /\ routers' = ExpireRouters(rs) /\ resolvers' = ExpireResolvers(ds)
      /\ solicit_in' = expired.at /\ solicit_interval' = expired.interval
      /\ solicits' = expired.solicits
      /\ temporary' = temporary /\ running' = running /\ running
      /\ last_view' = view' /\ call' = "receive"
  BY Zenon DEF Receive, emit_if_changed
<1>2. PICK desync \in Desyncs :
         prefixes' = [key \in Prefixes |->
             ExpirePrefix(ReceivePrefix(prefixes[key], a.prefixes[key], desync[key]), desync[key])]
  BY Zenon DEF Receive
<1>3. a \in Advert
  BY Constants, SMTT(20)
<1>4. rs \in [Routers -> Nat \cup {None}] /\ ds \in [Resolvers -> Lifetime \cup {None}] /\ s \in Schedule
  <2>1. /\ a.source \in Routers /\ a.router_lifetime \in Nat
        /\ a.resolvers \in [Resolvers -> Lifetime \cup {None}]
    BY <1>3 DEF Advert
  <2>2. left \in Nat \cup {None} /\ at \in Nat \cup {None}
    BY <2>1 DEF IInv, TypeOK
  <2> HIDE DEF left, at
  <2>3. rs \in [Routers -> Nat \cup {None}]
    BY <2>1, <2>2 DEF IInv, TypeOK
  <2>4. ds \in [Resolvers -> Lifetime \cup {None}]
    BY <2>1 DEF IInv, TypeOK
  <2>5. s \in Schedule
    BY <2>2 DEF IInv, TypeOK, Schedule
  <2> QED
    BY <2>3, <2>4, <2>5, Zenon
<1> HIDE DEF rs, ds, s
<1>5. ExpireRouters(rs) \in [Routers -> Nat \cup {None}]
  BY <1>4, ExpireOK
<1>6. expired \in Schedule /\ ExpireResolvers(ds) \in [Resolvers -> Lifetime \cup {None}]
  BY <1>4, <1>5, ExpireOK
<1> HIDE DEF expired
<1>7. /\ solicit_in' \in Nat \cup {None} /\ solicit_interval' \in Nat /\ solicit_interval' > 0
      /\ solicits' \in Nat
  BY <1>1, <1>6, SMTT(20) DEF Schedule
<1>8. ASSUME NEW key \in Prefixes
      PROVE  LET q == prefixes'[key]
             IN  /\ q \in Prefix \cup {None}
                 /\ q # None => Aged(q) /\ PrefixAhead(q) /\ (temporary => FreshLast(q))
                 /\ prefixes[key] # None /\ Live(prefixes[key].valid) =>
                       /\ q # None
                       /\ ~Exceeds(Earlier(prefixes[key].valid, TWO_HOURS), q.valid)
  <2> DEFINE p == prefixes[key]
             d == desync[key]
             r == ReceivePrefix(p, a.prefixes[key], d)
             q == ExpirePrefix(r, d)
  <2>1. /\ p \in Prefix \cup {None} /\ (p # None => Aged(p))
        /\ d \in 0 .. MAX_DESYNC
    BY DEF IInv, TypeOK, Desyncs
  <2>2. a.prefixes[key] \in PrefixInfo \cup {None}
    BY <1>3 DEF Advert
  <2>3. prefixes'[key] = q
    BY <1>2
  <2> HIDE DEF p, d
  <2>4. /\ r \in Prefix \cup {None} /\ (r # None => Aged(r))
        /\ p # None /\ Live(p.valid) =>
              /\ r # None /\ Live(r.valid)
              /\ ~Exceeds(Earlier(p.valid, TWO_HOURS), r.valid)
    BY <2>1, <2>2, ReceivePrefixOK, Zenon
  <2> HIDE DEF r
  <2>5. /\ q \in Prefix \cup {None}
        /\ q # None <=> r # None /\ Live(r.valid)
        /\ q # None => /\ Aged(q) /\ PrefixAhead(q) /\ q.valid = r.valid
                       /\ temporary => FreshLast(q)
    BY <2>1, <2>4, ExpirePrefixOK
  <2> HIDE DEF q
  <2> QED
    BY <2>3, <2>4, <2>5 DEF p
<1>9. Settled(prefixes')
  <2>1. prefixes' \in [Prefixes -> Prefix \cup {None}]
    BY <1>2, <1>8
  <2> QED
    BY <1>8, <2>1 DEF Settled
<1> QED
  BY <1>1, <1>5, <1>6, <1>7, <1>8, <1>9, Zenon

(***************************************************************************)
(* A second off a deadline that stays ahead changes nothing of what is     *)
(* live.                                                                   *)
(***************************************************************************)
LEMMA SoonerOK ==
    ASSUME NEW e \in Lifetime \cup {None, Acted}
    PROVE  /\ Sooner(e) \in Lifetime \cup {None, Acted}
           /\ Sooner(e) = None <=> e = None
           /\ Sooner(e) = Acted <=> e = Acted
           /\ e # None => (Live(Sooner(e)) => Live(e))
           /\ Ahead(Pending(Sooner(e))) => Ahead(Pending(e))
           /\ e # None /\ Ahead(Pending(Sooner(e))) => (Live(Sooner(e)) <=> Live(e))
<1> USE Constants DEF Lifetime, Acted, Sooner
<1>1. Sooner(e) \in Lifetime \cup {None, Acted}
  OBVIOUS
<1>2. (Sooner(e) = None <=> e = None) /\ (Sooner(e) = Acted <=> e = Acted)
  OBVIOUS
<1>3. e # None => (Live(Sooner(e)) => Live(e))
  BY DEF Live
<1>4. Ahead(Pending(Sooner(e))) => Ahead(Pending(e))
  BY DEF Ahead, Pending
<1>5. e # None /\ Ahead(Pending(Sooner(e))) => (Live(Sooner(e)) <=> Live(e))
  BY DEF Live, Ahead, Pending
<1> QED
  BY <1>1, <1>2, <1>3, <1>4, <1>5

(***************************************************************************)
(* The same of a deadline that expire does not mark.                       *)
(***************************************************************************)
LEMMA SoonerValid ==
    ASSUME NEW e \in Lifetime \cup {None}
    PROVE  /\ Sooner(e) \in Lifetime \cup {None} /\ (Sooner(e) = None <=> e = None)
           /\ Ahead(Sooner(e)) => Ahead(e)
           /\ e # None /\ Ahead(Sooner(e)) => (Live(Sooner(e)) <=> Live(e))
<1>1. e # Acted
  BY Constants DEF Lifetime, Acted
<1>2. e \in Lifetime \cup {None, Acted}
  OBVIOUS
<1>3. /\ Sooner(e) \in Lifetime \cup {None, Acted} /\ (Sooner(e) = None <=> e = None)
      /\ Sooner(e) # Acted
      /\ Ahead(Pending(Sooner(e))) => Ahead(Pending(e))
      /\ e # None /\ Ahead(Pending(Sooner(e))) => (Live(Sooner(e)) <=> Live(e))
  BY <1>1, <1>2, SoonerOK
<1>4. Pending(e) = e /\ Pending(Sooner(e)) = Sooner(e)
  BY <1>1, <1>3 DEF Pending
<1> QED
  BY <1>3, <1>4

(***************************************************************************)
(* A second in the life of a temporary address.                            *)
(***************************************************************************)
LEMMA SoonerTempOK ==
    ASSUME NEW t \in Temp
    PROVE  LET u == SoonerTemp(t)
           IN  /\ u \in Temp /\ u.iid = t.iid
               /\ Live(u.preferred) => Live(t.preferred)
               /\ Ahead(u.valid) => Ahead(t.valid) /\ (Live(u.valid) <=> Live(t.valid))
               /\ Ahead(Pending(u.preferred)) =>
                     Ahead(Pending(t.preferred)) /\ (Live(u.preferred) <=> Live(t.preferred))
<1> DEFINE u == SoonerTemp(t)
<1>1. t.valid \in Lifetime /\ t.preferred \in Lifetime \cup {Acted} /\ t.iid \in Iids
  BY DEF Temp
<1>2. t.valid # None /\ t.preferred # None
  BY <1>1, Constants DEF Lifetime, Acted
<1>3. Sooner(t.valid) \in Lifetime /\ Sooner(t.preferred) \in Lifetime \cup {Acted}
  BY <1>1, <1>2, SoonerOK, SoonerValid
<1>4. u \in Temp /\ u.iid = t.iid /\ u.valid = Sooner(t.valid) /\ u.preferred = Sooner(t.preferred)
  BY <1>3, Zenon DEF SoonerTemp, Temp
<1> HIDE DEF u
<1>5. Live(u.preferred) => Live(t.preferred)
  BY <1>1, <1>2, <1>4, SoonerOK
<1>6. Ahead(u.valid) => Ahead(t.valid) /\ (Live(u.valid) <=> Live(t.valid))
  BY <1>1, <1>2, <1>4, SoonerValid
<1>7. Ahead(Pending(u.preferred)) =>
         Ahead(Pending(t.preferred)) /\ (Live(u.preferred) <=> Live(t.preferred))
  BY <1>1, <1>2, <1>4, SoonerOK, SMTT(20)
<1> QED
  BY <1>4, <1>5, <1>6, <1>7 DEF u

(***************************************************************************)
(* A second in the life of a prefix: as long as none of its deadlines      *)
(* comes, the addresses it gives are the same.                             *)
(***************************************************************************)
LEMMA SoonerPrefixOK ==
    ASSUME NEW p \in Prefix, Aged(p)
    PROVE  LET q == SoonerPrefix(p)
           IN  /\ q \in Prefix /\ Aged(q)
               /\ PrefixAhead(q) =>
                     /\ PrefixAhead(p)
                     /\ FreshLast(p) => FreshLast(q)
                     /\ \A key : AddressesOf(key, q) = AddressesOf(key, p)
<1> DEFINE q == SoonerPrefix(p)
           T == [i \in DOMAIN p.temps |-> SoonerTemp(p.temps[i])]
<1>1. /\ p.valid \in Lifetime /\ p.preferred \in Lifetime \cup {Acted}
      /\ p.temps \in Seq(Temp) /\ Len(p.temps) \in Nat /\ DOMAIN p.temps = 1 .. Len(p.temps)
  BY DEF Prefix
<1>2. p.valid # None /\ p.preferred # None
  BY <1>1, Constants, SMTT(20) DEF Lifetime, Acted
<1>3. Sooner(p.valid) \in Lifetime /\ Sooner(p.preferred) \in Lifetime \cup {Acted}
  BY <1>1, <1>2, SoonerOK, SoonerValid, SMTT(20)
<1>4. \A i \in 1 .. Len(p.temps) : p.temps[i] \in Temp /\ T[i] = SoonerTemp(p.temps[i]) /\ T[i] \in Temp
  BY <1>1, SoonerTempOK
<1>5. T \in Seq(Temp) /\ Len(T) = Len(p.temps) /\ DOMAIN T = 1 .. Len(p.temps)
  <2>1. T \in [1 .. Len(p.temps) -> Temp]
    BY <1>1, <1>4, Zenon
  <2> HIDE DEF T
  <2> QED
    BY <1>1, <2>1
<1>6. q = [p EXCEPT !.valid = Sooner(p.valid), !.preferred = Sooner(p.preferred), !.temps = T]
  BY Zenon DEF SoonerPrefix
<1> HIDE DEF q, T
<1>7. /\ q \in Prefix /\ q.valid = Sooner(p.valid) /\ q.preferred = Sooner(p.preferred)
      /\ q.temps = T /\ q.on_link = p.on_link
  BY <1>3, <1>5, <1>6, Zenon DEF Prefix
<1>8. ASSUME NEW i \in 1 .. Len(p.temps)
      PROVE  LET t == p.temps[i]
                 u == T[i]
             IN  /\ u.iid = t.iid
                 /\ Live(u.preferred) => Live(t.preferred)
                 /\ Ahead(u.valid) => Ahead(t.valid) /\ (Live(u.valid) <=> Live(t.valid))
                 /\ Ahead(Pending(u.preferred)) =>
                       Ahead(Pending(t.preferred)) /\ (Live(u.preferred) <=> Live(t.preferred))
  <2>1. p.temps[i] \in Temp /\ T[i] = SoonerTemp(p.temps[i])
    BY <1>4
  <2> QED
    BY <2>1, SoonerTempOK, ZenonT(30)
<1>9. Aged(q)
  <2>1. \A i \in 1 .. Len(T) - 1 : i \in 1 .. Len(p.temps) - 1 /\ i \in 1 .. Len(p.temps)
    BY <1>1, <1>5
  <2> QED
    BY <1>5, <1>7, <1>8, <2>1 DEF Aged
<1>10. ASSUME PrefixAhead(q)
       PROVE  /\ PrefixAhead(p)
              /\ FreshLast(p) => FreshLast(q)
              /\ \A key : AddressesOf(key, q) = AddressesOf(key, p)
  <2>1. /\ Ahead(p.valid) /\ (Live(q.valid) <=> Live(p.valid))
        /\ Ahead(Pending(p.preferred)) /\ (Live(q.preferred) <=> Live(p.preferred))
    <3>1. Ahead(q.valid) /\ Ahead(Pending(q.preferred))
      BY <1>10 DEF PrefixAhead
    <3> QED
      BY <1>1, <1>2, <1>7, <3>1, SoonerOK, SoonerValid
  <2>2. ASSUME NEW i \in 1 .. Len(p.temps)
        PROVE  /\ T[i].iid = p.temps[i].iid
               /\ Ahead(p.temps[i].valid) /\ Ahead(Pending(p.temps[i].preferred))
               /\ Live(T[i].valid) <=> Live(p.temps[i].valid)
               /\ Live(T[i].preferred) <=> Live(p.temps[i].preferred)
    <3>1. Ahead(T[i].valid) /\ Ahead(Pending(T[i].preferred))
      BY <1>5, <1>7, <1>10, SMTT(20) DEF PrefixAhead
    <3> QED
      BY <1>8, <3>1
  <2>3. PrefixAhead(p)
    BY <1>1, <2>1, <2>2 DEF PrefixAhead
  <2>4. FreshLast(p) => FreshLast(q)
    <3> SUFFICES ASSUME FreshLast(p), Live(q.preferred)
                 PROVE  q.temps # <<>> /\ Live(q.temps[Len(q.temps)].preferred)
      BY DEF FreshLast
    <3>1. p.temps # <<>> /\ Live(p.temps[Len(p.temps)].preferred)
      BY <2>1 DEF FreshLast
    <3>2. Len(p.temps) \in 1 .. Len(p.temps)
      BY <1>1, <3>1
    <3>3. T # <<>>
      BY <1>5, <3>2
    <3> QED
      BY <1>5, <1>7, <2>2, <3>1, <3>2, <3>3
  <2>5. ASSUME NEW key
        PROVE  AddressesOf(key, q) = AddressesOf(key, p)
    <3> DEFINE D(P, a) == ~(Live(P) /\ Live(a))
               A(iid, l, d) == [prefix |-> key, iid |-> iid, on_link |-> l, deprecated |-> d]
               Of(x) == {A(Stable, x.on_link, D(x.preferred, x.preferred))}
                        \cup {A(t.iid, x.on_link, D(x.preferred, t.preferred)) :
                                 t \in {u \in TempsOf(x) : Live(u.valid)}}
    <3>1. \A x : AddressesOf(key, x) = IF x = None \/ ~Live(x.valid) THEN {} ELSE Of(x)
      BY Zenon DEF AddressesOf
    <3>2. p # None /\ q # None
      BY <1>7, Constants
    <3>3. D(q.preferred, q.preferred) = D(p.preferred, p.preferred)
      BY <2>1
    <3>4. \A i \in 1 .. Len(p.temps) : D(q.preferred, T[i].preferred) = D(p.preferred, p.temps[i].preferred)
      BY <2>1, <2>2
    <3> HIDE DEF D, A
    <3>5. Of(q) = Of(p)
      <4>1. \A x \in TempsOf(p) : \E i \in 1 .. Len(p.temps) : x = p.temps[i]
        BY <1>1 DEF TempsOf
      <4>2. \A x \in TempsOf(q) : \E i \in 1 .. Len(p.temps) : x = T[i]
        BY <1>5, <1>7 DEF TempsOf
      <4>3. \A i \in 1 .. Len(p.temps) : p.temps[i] \in TempsOf(p) /\ T[i] \in TempsOf(q)
        BY <1>1, <1>5, <1>7, SMTT(20) DEF TempsOf
      <4>4. ASSUME NEW i \in 1 .. Len(p.temps)
            PROVE  A(T[i].iid, q.on_link, D(q.preferred, T[i].preferred))
                   = A(p.temps[i].iid, p.on_link, D(p.preferred, p.temps[i].preferred))
        BY <1>7, <2>2, <3>4
      <4>5. A(Stable, q.on_link, D(q.preferred, q.preferred)) = A(Stable, p.on_link, D(p.preferred, p.preferred))
        BY <1>7, <3>3
      <4>6. \A y \in Of(q) : y \in Of(p)
        BY <2>2, <4>2, <4>3, <4>4, <4>5
      <4>7. \A y \in Of(p) : y \in Of(q)
        BY <2>2, <4>1, <4>3, <4>4, <4>5, SMTT(20)
      <4> QED
        BY <4>6, <4>7
    <3> HIDE DEF Of
    <3> QED
      BY <2>1, <3>1, <3>2, <3>5
  <2> QED
    BY <2>3, <2>4, <2>5
<1> QED
  BY <1>7, <1>9, <1>10 DEF q

(***************************************************************************)
(* Time keeps the invariant. What the accessors answer changes only when   *)
(* some deadline comes, and then Due holds and nothing is claimed.         *)
(***************************************************************************)
LEMMA ElapseOK ==
    ASSUME IInv, Elapse
    PROVE  IInv'
<1> DEFINE P == prefixes'
           R == routers'
           D == resolvers'
<1>0. P = [key \in Prefixes |->
              IF prefixes[key] = None THEN None ELSE SoonerPrefix(prefixes[key])]
  BY DEF Elapse
<1>1. /\ solicit_in' = Sooner(solicit_in)
      /\ R = [r \in Routers |-> Sooner(routers[r])]
      /\ D = [s \in Resolvers |-> Sooner(resolvers[s])]
      /\ P = [key \in Prefixes |->
                  IF prefixes[key] = None THEN None ELSE SoonerPrefix(prefixes[key])]
      /\ running' = running /\ temporary' = temporary /\ solicit_interval' = solicit_interval
      /\ solicits' = solicits /\ mtu' = mtu /\ dhcp6_wanted' = dhcp6_wanted
      /\ last_view' = last_view /\ call' = "elapse"
  BY <1>0 DEF Elapse
<1>2. TypeOK
  BY DEF IInv
<1>3. /\ solicit_in' \in Nat \cup {None}
      /\ Ahead(solicit_in') => Ahead(solicit_in)
  BY <1>1, <1>2, Constants DEF TypeOK, Sooner, Ahead
<1>4. ASSUME NEW r \in Routers
      PROVE  /\ R[r] \in Nat \cup {None} /\ (R[r] = None <=> routers[r] = None)
             /\ Ahead(R[r]) => Ahead(routers[r])
             /\ routers[r] # None /\ Ahead(R[r]) => (R[r] > 0 <=> routers[r] > 0)
  <2>1. routers[r] \in Nat \cup {None} /\ R[r] = Sooner(routers[r])
    BY <1>1, <1>2 DEF TypeOK
  <2> HIDE DEF R
  <2> QED
    BY <2>1, Constants DEF Sooner, Ahead
<1>5. ASSUME NEW s \in Resolvers
      PROVE  /\ D[s] \in Lifetime \cup {None} /\ (D[s] = None <=> resolvers[s] = None)
             /\ Ahead(D[s]) => Ahead(resolvers[s])
             /\ resolvers[s] # None /\ Ahead(D[s]) => (Live(D[s]) <=> Live(resolvers[s]))
  <2>1. resolvers[s] \in Lifetime \cup {None} /\ D[s] = Sooner(resolvers[s])
    BY <1>1, <1>2, SMTT(20) DEF TypeOK
  <2> HIDE DEF D
  <2> QED
    BY <2>1, SoonerValid
<1>6. ASSUME NEW key \in Prefixes
      PROVE  /\ P[key] \in Prefix \cup {None} /\ (P[key] = None <=> prefixes[key] = None)
             /\ P[key] # None => Aged(P[key])
             /\ P[key] # None /\ PrefixAhead(P[key]) =>
                   /\ PrefixAhead(prefixes[key])
                   /\ FreshLast(prefixes[key]) => FreshLast(P[key])
                   /\ AddressesOf(key, P[key]) = AddressesOf(key, prefixes[key])
  <2>1. /\ prefixes[key] \in Prefix \cup {None} /\ (prefixes[key] # None => Aged(prefixes[key]))
        /\ P[key] = IF prefixes[key] = None THEN None ELSE SoonerPrefix(prefixes[key])
    BY <1>1, <1>2, SMTT(20) DEF TypeOK, IInv
  <2> HIDE DEF P
  <2>2. CASE prefixes[key] = None
    BY <2>1, <2>2
  <2>3. CASE prefixes[key] # None
    <3>1. prefixes[key] \in Prefix /\ Aged(prefixes[key]) /\ P[key] = SoonerPrefix(prefixes[key])
      BY <2>1, <2>3
    <3>2. /\ P[key] \in Prefix /\ Aged(P[key])
          /\ PrefixAhead(P[key]) =>
                /\ PrefixAhead(prefixes[key])
                /\ FreshLast(prefixes[key]) => FreshLast(P[key])
                /\ AddressesOf(key, P[key]) = AddressesOf(key, prefixes[key])
      BY <3>1, SoonerPrefixOK
    <3> QED
      BY <2>3, <3>2, Constants
  <2> QED
    BY <2>2, <2>3
<1>7. TypeOK'
  <2>1. R \in [Routers -> Nat \cup {None}]
    BY <1>1, <1>4
  <2>2. D \in [Resolvers -> Lifetime \cup {None}]
    BY <1>1, <1>5
  <2>3. P \in [Prefixes -> Prefix \cup {None}]
    BY <1>1, <1>6, SMTT(20)
  <2> QED
    BY <1>1, <1>2, <1>3, <2>1, <2>2, <2>3 DEF TypeOK
<1>8. AllAhead' => AllAhead
  BY <1>3, <1>4, <1>5, <1>6, ZenonT(30) DEF AllAhead
<1>9. ASSUME AllAhead'
      PROVE  view' = view
  <2>1. /\ \A r \in Routers : Ahead(R[r])
        /\ \A s \in Resolvers : Ahead(D[s])
        /\ \A key \in Prefixes : P[key] # None => PrefixAhead(P[key])
    BY <1>9 DEF AllAhead
  <2>2. LiveRouters' = LiveRouters
    BY <1>4, <2>1 DEF LiveRouters
  <2>3. default_router' = default_router
    BY <2>2 DEF default_router
  <2>4. {s \in Resolvers : D[s] # None /\ Live(D[s])} = {s \in Resolvers : resolvers[s] # None /\ Live(resolvers[s])}
    BY <1>5, <2>1, SMTT(20)
  <2>5. \A key \in Prefixes : AddressesOf(key, P[key]) = AddressesOf(key, prefixes[key])
    BY <1>6, <2>1, ZenonT(30) DEF AddressesOf
  <2>6. UNION {AddressesOf(key, P[key]) : key \in Prefixes}
        = UNION {AddressesOf(key, prefixes[key]) : key \in Prefixes}
    BY <2>5
  <2>7. view' = [addresses |-> UNION {AddressesOf(key, P[key]) : key \in Prefixes},
                 router    |-> default_router',
                 resolvers |-> {s \in Resolvers : D[s] # None /\ Live(D[s])},
                 mtu       |-> mtu', dhcp6 |-> dhcp6_wanted']
    BY DEF view
  <2> HIDE DEF P, D
  <2> QED
    BY <1>1, <2>3, <2>4, <2>6, <2>7, Zenon DEF view
<1> QED
  <2>1. \A key \in Prefixes : P[key] # None => Aged(P[key])
    BY <1>6, SMTT(20)
  <2>2. running' /\ AllAhead' => view' = last_view'
    BY <1>1, <1>8, <1>9, Zenon DEF IInv
  <2>3. running' /\ AllAhead' /\ temporary' =>
           \A key \in Prefixes : P[key] # None => FreshLast(P[key])
    <3> SUFFICES ASSUME running', AllAhead', temporary', NEW key \in Prefixes, P[key] # None
                 PROVE  FreshLast(P[key])
      OBVIOUS
    <3>1. prefixes[key] # None => FreshLast(prefixes[key])
      BY <1>1, <1>8 DEF IInv
    <3>2. PrefixAhead(P[key])
      BY DEF AllAhead
    <3> HIDE DEF P
    <3> QED
      BY <1>6, <3>1, <3>2
  <2> QED
    BY <1>1, <1>7, <2>1, <2>2, <2>3 DEF IInv

(***************************************************************************)
(* Every call and every second keep the invariant.                         *)
(***************************************************************************)
LEMMA StepInv ==
    IInv /\ [Next]_vars => IInv'
<1> SUFFICES ASSUME IInv, [Next]_vars
             PROVE  IInv'
  OBVIOUS
<1>0. TypeOK
  BY DEF IInv
<1>1. ASSUME NEW s \in Schedule, NEW desync \in Desyncs, tick(s, desync), running' = TRUE
      PROVE  IInv'
  <2>1. /\ temporary' = temporary /\ Settled(prefixes')
        /\ solicit_in' \in Nat \cup {None} /\ solicit_interval' \in Nat /\ solicit_interval' > 0
        /\ solicits' \in Nat
        /\ routers' \in [Routers -> Nat \cup {None}]
        /\ resolvers' \in [Resolvers -> Lifetime \cup {None}]
        /\ Ahead(solicit_in')
        /\ \A r \in Routers : Ahead(routers'[r])
        /\ \A d \in Resolvers : Ahead(resolvers'[d])
        /\ last_view' = view'
    BY <1>1, TickOK, SMTT(20)
  <2>2. TypeOK'
    BY <1>0, <1>1, <2>1 DEF TypeOK, Settled
  <2>3. AllAhead'
    BY <2>1 DEF AllAhead, Settled
  <2>4. /\ \A key \in Prefixes : prefixes'[key] # None => Aged(prefixes'[key])
        /\ temporary' => \A key \in Prefixes : prefixes'[key] # None => FreshLast(prefixes'[key])
    BY <2>1 DEF Settled
  <2> QED
    BY <2>1, <2>2, <2>3, <2>4 DEF IInv
<1>2. CASE Start
  <2>1. [at |-> 0, interval |-> SOLICIT_INTERVAL, solicits |-> 0] \in Schedule
    BY Constants DEF Schedule
  <2> QED
    BY <1>1, <1>2, <2>1, Zenon DEF Start
<1>3. CASE Tick
  <2>1. [at |-> solicit_in, interval |-> solicit_interval, solicits |-> solicits] \in Schedule
    BY <1>0 DEF Schedule, TypeOK
  <2>2. running' = TRUE
    BY <1>0, <1>3 DEF Tick, TypeOK
  <2>3. PICK desync \in Desyncs :
           tick([at |-> solicit_in, interval |-> solicit_interval, solicits |-> solicits], desync)
    BY <1>3, ZenonT(30) DEF Tick
  <2> QED
    BY <1>1, <2>1, <2>2, <2>3, Zenon
<1>4. ASSUME NEW a \in Adverts, Receive(a)
      PROVE  IInv'
  <2>1. /\ temporary' = temporary /\ running' = running /\ Settled(prefixes')
        /\ solicit_in' \in Nat \cup {None} /\ solicit_interval' \in Nat /\ solicit_interval' > 0
        /\ solicits' \in Nat
        /\ routers' \in [Routers -> Nat \cup {None}]
        /\ resolvers' \in [Resolvers -> Lifetime \cup {None}]
        /\ last_view' = view' /\ call' = "receive"
    BY <1>4, ReceiveOK, Zenon
  <2>2. TypeOK'
    BY <1>0, <2>1 DEF TypeOK, Settled
  <2>3. /\ \A key \in Prefixes : prefixes'[key] # None => Aged(prefixes'[key])
        /\ temporary' => \A key \in Prefixes : prefixes'[key] # None => FreshLast(prefixes'[key])
    BY <2>1 DEF Settled
  <2> QED
    BY <2>1, <2>2, <2>3, SMTT(20) DEF IInv
<1>5. CASE Stop
  <2>1. TypeOK'
    BY <1>5, Constants, Zenon DEF Stop, TypeOK
  <2>2. running' = FALSE /\ call' = "new" /\ prefixes' = [key \in Prefixes |-> None]
    BY <1>5 DEF Stop
  <2> QED
    BY <2>1, <2>2 DEF IInv
<1>6. CASE Elapse
  BY <1>6, ElapseOK
<1>7. CASE UNCHANGED vars
  <2>1. UNCHANGED view
    BY <1>7, SMTT(20) DEF vars, view, default_router, LiveRouters
  <2>2. UNCHANGED AllAhead
    BY <1>7, Zenon DEF vars, AllAhead
  <2>3. TypeOK'
    BY <1>0, <1>7 DEF vars, TypeOK
  <2> QED
    BY <1>7, <2>1, <2>2, <2>3 DEF vars, IInv
<1> QED
  BY <1>2, <1>3, <1>4, <1>5, <1>6, <1>7 DEF Next

(***************************************************************************)
(* The inductive invariant holds of the engine, whatever the link's        *)
(* advertisements, lifetimes and draws (Engine::start, tick, receive).     *)
(***************************************************************************)
THEOREM Invariance ==
    Spec => []IInv
<1>1. Init => IInv
  <2> SUFFICES ASSUME Init
               PROVE  IInv
    OBVIOUS
  <2>1. TypeOK
    BY Constants, Zenon DEF Init, TypeOK
  <2>2. running = FALSE /\ call = "new" /\ prefixes = [key \in Prefixes |-> None]
    BY DEF Init
  <2> QED
    BY <2>1, <2>2 DEF IInv
<1> QED
  BY <1>1, StepInv, PTL DEF Spec

(***************************************************************************)
(* "No transition can be missed": while no deadline has come the accessors *)
(* answer what was last reported, and after a tick none has                *)
(* (emit_if_changed, next_deadline).                                       *)
(***************************************************************************)
THEOREM NoTransitionMissed ==
    Spec => []NothingMissed
<1>1. IInv => NothingMissed
  <2> SUFFICES ASSUME IInv
               PROVE  NothingMissed
    OBVIOUS
  <2>1. ~Due <=> AllAhead
    BY NotDue DEF IInv
  <2> QED
    BY <2>1 DEF IInv, NothingMissed
<1> QED
  BY <1>1, Invariance, PTL

(***************************************************************************)
(* While a prefix is preferred exactly one of its temporary addresses is,  *)
(* the last formed, and there are at most MAX_TEMPS (expire, new_temp).    *)
(***************************************************************************)
THEOREM OneTemporaryFresh ==
    Spec => []OneFreshTemporary
<1>1. IInv => OneFreshTemporary
  <2> SUFFICES ASSUME IInv, running, temporary, ~Due, NEW p \in Held
               PROVE  /\ Len(p.temps) <= MAX_TEMPS
                      /\ Live(p.preferred) =>
                            {i \in DOMAIN p.temps : Live(p.temps[i].preferred)} = {Len(p.temps)}
    BY DEF OneFreshTemporary
  <2>1. AllAhead
    BY NotDue DEF IInv
  <2>2. p \in Prefix /\ Aged(p) /\ FreshLast(p)
    BY <2>1 DEF Held, IInv, TypeOK
  <2>3. Len(p.temps) \in Nat /\ DOMAIN p.temps = 1 .. Len(p.temps) /\ p.temps \in Seq(Temp)
    BY <2>2, SMTT(20) DEF Prefix
  <2>4. ASSUME Live(p.preferred)
        PROVE  {i \in DOMAIN p.temps : Live(p.temps[i].preferred)} = {Len(p.temps)}
    <3>1. p.temps # <<>> /\ Live(p.temps[Len(p.temps)].preferred)
      BY <2>2, <2>4, SMTT(20) DEF FreshLast
    <3>2. Len(p.temps) \in 1 .. Len(p.temps)
      BY <2>3, <3>1
    <3>3. \A i \in 1 .. Len(p.temps) : i \in 1 .. Len(p.temps) - 1 \/ i = Len(p.temps)
      BY <2>3
    <3> QED
      BY <2>2, <2>3, <3>1, <3>2, <3>3, SMTT(20) DEF Aged
  <2> QED
    BY <2>2, <2>4 DEF Aged
<1> QED
  BY <1>1, Invariance, PTL

(***************************************************************************)
(* No advertisement takes a prefix away: it stays for two hours or what it *)
(* had left (receive_prefix).                                              *)
(***************************************************************************)
THEOREM PrefixesStayTwoHours ==
    Spec => TwoHourRule
<1> DEFINE Kept2(key) ==
        call' = "receive" /\ prefixes[key] # None /\ Live(prefixes[key].valid) =>
            /\ prefixes'[key] # None
            /\ ~Exceeds(Earlier(prefixes[key].valid, TWO_HOURS), prefixes'[key].valid)
<1>1. IInv /\ [Next]_vars => [\A key \in Prefixes : Kept2(key)]_vars
  <2> SUFFICES ASSUME IInv, Next, NEW key \in Prefixes, call' = "receive",
                      prefixes[key] # None, Live(prefixes[key].valid)
               PROVE  /\ prefixes'[key] # None
                      /\ ~Exceeds(Earlier(prefixes[key].valid, TWO_HOURS), prefixes'[key].valid)
    BY ZenonT(30)
  <2>1. ~Start /\ ~Tick /\ ~Stop /\ ~Elapse
    BY Zenon DEF Start, Tick, Stop, Elapse
  <2>2. PICK a \in Adverts : Receive(a)
    BY <2>1 DEF Next
  <2> QED
    BY <2>2, ReceiveOK, ZenonT(30)
<1> QED
  BY <1>1, Invariance, PTL DEF Spec, TwoHourRule
=============================================================================
