---------------------------- MODULE NetlinkProofs ----------------------------
(***************************************************************************)
(* Proof that netd never waits for ever on its request socket, which has   *)
(* no timeout: for any tables, any requests, any number of faults and any  *)
(* width of the sequence number, the smallest included.                    *)
(*                                                                         *)
(* What a waiting call has is its answer somewhere in the queue, behind    *)
(* whatever earlier calls left there, or a dump of its own that the kernel *)
(* goes on with each time a datagram is read, or an error to be told of.   *)
(***************************************************************************)
EXTENDS Netlink, FiniteSetTheorems, FunctionTheorems, SequenceTheorems, TLAPS

IsSeq(s) == s \in Seq(Range(s))

Finite(t) == t = [p \in Names |-> t[p]] /\ \A p \in Names : IsFiniteSet(t[p])

DumpOK(d) ==
    /\ d = [sequence |-> d.sequence, part |-> d.part, left |-> d.left, intr |-> d.intr]
    /\ d.part \in Names
    /\ IsFiniteSet(d.left)

CallOK ==
    /\ phase \in {"send", "call"} =>
          /\ {"sequence", "part"} \subseteq DOMAIN call
          /\ call.part \in DOMAIN Parts
    /\ phase = "call" => call.sequence \in Nat \ {0}

Decided(queue, s) ==
    \E i \in 1 .. Len(queue) : \E j \in DOMAIN queue[i] : Decisive(queue[i][j], s)

Answered(queue, d, fails, s) ==
    fails \/ Decided(queue, s) \/ (d.sequence = s /\ queue # <<>>)

IInv ==
    /\ IsSeq(replies)
    /\ sequence \in Nat
    /\ Finite(table)
    /\ DumpOK(dump)
    /\ CallOK
    /\ phase = "call" => Answered(replies, dump, failing, call.sequence)

-----------------------------------------------------------------------------
(***************************************************************************)
(* Sequences of anything: what Append and Tail do to a queue.              *)
(***************************************************************************)
LEMMA QueueAppend ==
    ASSUME NEW q, IsSeq(q), NEW e
    PROVE  /\ IsSeq(Append(q, e))
           /\ Append(q, e) # <<>>
           /\ Len(q) \in Nat
           /\ Len(Append(q, e)) = Len(q) + 1
           /\ \A i \in 1 .. Len(q) : Append(q, e)[i] = q[i]
           /\ Append(q, e)[Len(q) + 1] = e
<1> DEFINE S == Range(q) \cup {e}
<1>1. q \in Seq(S) /\ e \in S
  BY SeqMonotonic, Range(q) \subseteq S DEF IsSeq
<1>2. Append(q, e) \in Seq(S)
  BY <1>1, AppendProperties
<1>3. IsSeq(Append(q, e))
  BY <1>2, SeqOfRange DEF IsSeq
<1>4. Len(q) \in Nat
  BY <1>1, LenProperties
<1> QED
  BY <1>1, <1>3, <1>4, AppendProperties

LEMMA QueueTail ==
    ASSUME NEW q, IsSeq(q), q # <<>>
    PROVE  /\ IsSeq(Tail(q))
           /\ Head(q) = q[1]
           /\ Len(q) \in Nat \ {0}
           /\ Len(Tail(q)) = Len(q) - 1
           /\ \A i \in 1 .. Len(Tail(q)) : Tail(q)[i] = q[i + 1]
<1>1. q \in Seq(Range(q))
  BY DEF IsSeq
<1>2. Tail(q) \in Seq(Range(q))
  BY <1>1, HeadTailProperties
<1>3. IsSeq(Tail(q))
  BY <1>2, SeqOfRange DEF IsSeq
<1>4. Len(q) \in Nat \ {0}
  BY <1>1, EmptySeq
<1> QED
  BY <1>1, <1>3, <1>4, HeadTailProperties

LEMMA Enumerated ==
    ASSUME NEW n \in Nat, NEW f, f = [i \in 1 .. n |-> f[i]]
    PROVE  IsSeq(f)
<1>1. f \in [1 .. n -> Range(f)]
  BY DEF Range
<1>2. Seq(Range(f)) = UNION {[1 .. k -> Range(f)] : k \in Nat}
  BY SeqDef
<1> QED
  BY <1>1, <1>2 DEF IsSeq

\* A datagram more leaves what was decided decided.
LEMMA StaysDecided ==
    ASSUME NEW q, IsSeq(q), NEW e, NEW s
    PROVE  /\ Decided(q, s) => Decided(Append(q, e), s)
           /\ (\E j \in DOMAIN e : Decisive(e[j], s)) => Decided(Append(q, e), s)
<1> USE QueueAppend
<1>1. ASSUME Decided(q, s) PROVE Decided(Append(q, e), s)
  <2>1. PICK i \in 1 .. Len(q) : \E j \in DOMAIN q[i] : Decisive(q[i][j], s)
    BY <1>1 DEF Decided
  <2>2. i \in 1 .. Len(Append(q, e)) /\ Append(q, e)[i] = q[i]
    OBVIOUS
  <2> QED
    BY <2>1, <2>2 DEF Decided
<1>2. ASSUME \E j \in DOMAIN e : Decisive(e[j], s) PROVE Decided(Append(q, e), s)
  <2>1. Len(q) + 1 \in 1 .. Len(Append(q, e)) /\ Append(q, e)[Len(q) + 1] = e
    OBVIOUS
  <2> QED
    BY <1>2, <2>1 DEF Decided
<1> QED
  BY <1>1, <1>2

\* A datagram that decides nothing is read away without loss.
LEMMA DecidedBehind ==
    ASSUME NEW q, IsSeq(q), q # <<>>, NEW s, Decided(q, s),
           \A j \in DOMAIN Head(q) : ~Decisive(Head(q)[j], s)
    PROVE  Decided(Tail(q), s)
<1> USE QueueTail
<1>1. PICK i \in 1 .. Len(q) : \E j \in DOMAIN q[i] : Decisive(q[i][j], s)
  BY DEF Decided
<1>2. i # 1
  BY <1>1
<1>3. i - 1 \in 1 .. Len(Tail(q)) /\ Tail(q)[i - 1] = q[i]
  BY <1>2
<1> QED
  BY <1>1, <1>3 DEF Decided

-----------------------------------------------------------------------------
\* Numbers are never 0, wrapping included (LinuxRtnl::next_sequence).
LEMMA NextSequence ==
    ASSUME sequence \in Nat PROVE next_sequence \in Nat \ {0}
<1> DEFINE n == (sequence + 1) % (SEQ_MAX + 1)
<1> HIDE DEF n
<1>1. n \in Nat
  BY SequenceAssumption DEF n
<1>2. \E m \in {1, n} : \A y \in {1, n} : m >= y
  <2>1. CASE n >= 1
    BY <1>1, <2>1
  <2>2. CASE ~(n >= 1)
    BY <1>1, <2>2
  <2> QED
    BY <2>1, <2>2
<1>3. Max({1, n}) \in {1, n} /\ \A y \in {1, n} : Max({1, n}) >= y
  BY <1>2, Zenon DEF Max
<1> QED
  BY <1>1, <1>3 DEF next_sequence, n

(***************************************************************************)
(* The tables stay finite whatever netd asks for and whoever else moves.   *)
(***************************************************************************)
LEMMA PartsNamed ==
    {"links", "addresses4", "routes4", "addresses6", "routes6"} \subseteq Names
<1>1. /\ DOMAIN Parts = 1 .. 5
      /\ Parts[1] = "links" /\ Parts[2] = "addresses4" /\ Parts[3] = "routes4"
      /\ Parts[4] = "addresses6" /\ Parts[5] = "routes6"
  BY DEF Parts
<1> QED
  BY <1>1 DEF Names

Put(t, p, S) == [t EXCEPT ![p] = S]

LEMMA FinitePut ==
    ASSUME NEW t, Finite(t), NEW p \in Names, NEW S, IsFiniteSet(S)
    PROVE  Finite(Put(t, p, S))
  BY DEF Finite, Put

LEMMA WithoutFinite ==
    ASSUME NEW S, IsFiniteSet(S), NEW a PROVE IsFiniteSet(Without(S, a))
<1>1. Without(S, a) \in SUBSET S
  BY DEF Without
<1> QED
  BY <1>1, FS_Subset

Flagged(S, up) == {[l EXCEPT !.flags = IF up THEN @ \cup {"Up"} ELSE @ \ {"Up"}] : l \in S}

LEMMA FlaggedFinite ==
    ASSUME NEW S, IsFiniteSet(S), NEW up PROVE IsFiniteSet(Flagged(S, up))
<1> DEFINE g == [l \in S |-> [l EXCEPT !.flags = IF up THEN @ \cup {"Up"} ELSE @ \ {"Up"}]]
           T == {g[l] : l \in S}
<1>1. g \in Surjection(S, T)
  <2>1. g \in [S -> T]
    OBVIOUS
  <2>2. \A t \in T : \E l \in S : g[l] = t
    OBVIOUS
  <2> QED
    BY <2>1, <2>2, Zenon DEF Surjection
<1>2. IsFiniteSet(T)
  BY <1>1, FS_Surjection
<1>3. T = Flagged(S, up)
  BY DEF Flagged
<1> QED
  BY <1>2, <1>3

LEMMA AppliedFinite ==
    ASSUME Finite(table), NEW op \in Requests PROVE Finite(Applied(op))
<1> USE PartsNamed
<1>1. AddressPart(op.address) \in Names /\ RoutePart(op.route) \in Names
  BY DEF AddressPart, RoutePart
<1>2. \A p \in Names : IsFiniteSet(table[p])
  BY DEF Finite
<1>3. CASE op.type = "SetUp"
  <2> DEFINE S == Flagged(table["links"], op.up)
  <2>1. IsFiniteSet(S)
    BY <1>2, FlaggedFinite
  <2>2. Applied(op) = Put(table, "links", S)
    BY <1>3 DEF Applied, Put, Flagged
  <2> HIDE DEF S
  <2> QED
    BY <2>1, <2>2, FinitePut
<1>4. CASE op.type = "NewAddress"
  <2> DEFINE S == Without(table[AddressPart(op.address)], op.address)
                  \cup {Stored(address_message(op.address))}
  <2>1. IsFiniteSet(S)
    BY <1>1, <1>2, WithoutFinite, FS_AddElement
  <2>2. Applied(op) = Put(table, AddressPart(op.address), S)
    BY <1>4 DEF Applied, Put
  <2> HIDE DEF S
  <2> QED
    BY <1>1, <2>1, <2>2, FinitePut
<1>5. CASE op.type = "DelAddress"
  <2> DEFINE S == Without(table[AddressPart(op.address)], op.address)
  <2>1. IsFiniteSet(S)
    BY <1>1, <1>2, WithoutFinite
  <2>2. Applied(op) = Put(table, AddressPart(op.address), S)
    BY <1>5 DEF Applied, Put
  <2> HIDE DEF S
  <2> QED
    BY <1>1, <2>1, <2>2, FinitePut
<1>6. CASE op.type = "NewRoute"
  <2> DEFINE S == table[RoutePart(op.route)] \cup {StoredRoute(route_message(op.route))}
  <2>1. IsFiniteSet(S)
    BY <1>1, <1>2, FS_AddElement
  <2>2. Applied(op) = Put(table, RoutePart(op.route), S)
    BY <1>6 DEF Applied, Put
  <2> HIDE DEF S
  <2> QED
    BY <1>1, <2>1, <2>2, FinitePut
<1>7. CASE op.type = "DelRoute"
  <2> DEFINE S == table[RoutePart(op.route)] \ {StoredRoute(route_message(op.route))}
  <2>1. IsFiniteSet(S)
    BY <1>1, <1>2, FS_RemoveElement
  <2>2. Applied(op) = Put(table, RoutePart(op.route), S)
    BY <1>7 DEF Applied, Put
  <2> HIDE DEF S
  <2> QED
    BY <1>1, <2>1, <2>2, FinitePut
<1> QED
  BY <1>3, <1>4, <1>5, <1>6, <1>7, TablesAssumption

(***************************************************************************)
(* A dump whose table changes goes on, under the same number.              *)
(***************************************************************************)
LEMMA MarkedOK ==
    ASSUME NEW d, DumpOK(d), NEW change, Finite(change)
    PROVE  DumpOK(Marked(d, change)) /\ Marked(d, change).sequence = d.sequence
<1>1. CASE d = NoDump
  BY <1>1 DEF Marked
<1>2. CASE d # NoDump
  <2> DEFINE old == table[d.part]
             new == change[d.part]
             left == (d.left \cap new) \cup (new \ old)
  <2>1. IsFiniteSet(new) /\ left \in SUBSET new
    BY DEF DumpOK, Finite
  <2>2. IsFiniteSet(left)
    BY <2>1, FS_Subset
  <2>3. Marked(d, change) = [sequence |-> d.sequence, part |-> d.part, left |-> left,
                             intr |-> d.intr \/ new # old]
    BY <1>2 DEF Marked, DumpOK
  <2> HIDE DEF left, old, new
  <2> QED
    BY <2>2, <2>3 DEF DumpOK
<1> QED
  BY <1>1, <1>2

LEMMA NoDumpOK == DumpOK(NoDump)
<1>1. IsFiniteSet({}) /\ "links" \in Names
  BY FS_EmptySet, PartsNamed
<1> QED
  BY <1>1 DEF DumpOK, NoDump

(***************************************************************************)
(* The last datagram of a dump says that it is done, under the dump's      *)
(* number.                                                                 *)
(***************************************************************************)
LEMMA LastDatagram ==
    ASSUME NEW d, NEW chunk, IsFiniteSet(chunk)
    PROVE  LET g == DumpDatagram(d, chunk, TRUE)
           IN  \E j \in DOMAIN g : Decisive(g[j], d.sequence)
<1> DEFINE done == [Message(d.sequence, "done") EXCEPT !.intr = d.intr]
           n == Cardinality(chunk)
           inner == [i \in 1 .. n |->
                        [[Message(d.sequence, "inner") EXCEPT !.object = SetToSeq(chunk)[i]]
                         EXCEPT !.intr = d.intr]]
           g == Append(inner, done)
<1>1. n \in Nat
  BY FS_CardinalityType
<1>2. DumpDatagram(d, chunk, TRUE) = g
  BY DEF DumpDatagram
<1>3. done.sequence = d.sequence /\ done.kind = "done"
  BY DEF Message
<1>4. Decisive(done, d.sequence)
  BY <1>3 DEF Decisive
<1>5. inner = [i \in 1 .. n |-> inner[i]]
  OBVIOUS
<1> HIDE DEF inner, done, n
<1>6. IsSeq(inner)
  BY <1>1, <1>5, Enumerated
<1>7. IsSeq(g) /\ Len(inner) + 1 \in 1 .. Len(g) /\ g[Len(inner) + 1] = done
  BY <1>6, QueueAppend
<1>8. DOMAIN g = 1 .. Len(g)
  BY <1>7, LenProperties DEF IsSeq
<1> QED
  BY <1>2, <1>4, <1>7, <1>8

(***************************************************************************)
(* Whatever the kernel makes of its turn in a dump, a call waiting for     *)
(* that dump has something to wait for, and one waiting for anything else  *)
(* loses nothing.                                                          *)
(***************************************************************************)
LEMMA KernelSendsAnswers ==
    ASSUME NEW d, DumpOK(d), NEW queue, IsSeq(queue), KernelSends(d, queue)
    PROVE  /\ IsSeq(replies')
           /\ DumpOK(dump')
           /\ Answered(replies', dump', failing', d.sequence)
           /\ failing => failing'
           /\ \A s : Decided(queue, s) => failing' \/ Decided(replies', s)
<1>1. ASSUME NEW chunk \in Chunks(d.left), NEW done \in BOOLEAN,
             replies' = Append(queue, DumpDatagram(d, chunk, done)),
             dump' = IF done THEN NoDump ELSE [d EXCEPT !.left = @ \ chunk],
             UNCHANGED <<failing, faults>>
      PROVE  /\ DumpOK(dump')
             /\ Answered(replies', dump', failing', d.sequence)
  <2>1. IsFiniteSet(d.left)
    BY DEF DumpOK
  <2>2. chunk \in SUBSET d.left
    BY DEF Chunks
  <2>3. IsFiniteSet(chunk)
    BY <2>1, <2>2, FS_Subset
  <2>4. CASE done
    <3>1. Decided(replies', d.sequence)
      BY <1>1, <2>3, <2>4, LastDatagram, StaysDecided
    <3> QED
      BY <1>1, <2>4, <3>1, NoDumpOK DEF Answered
  <2>5. CASE ~done
    <3> DEFINE rest == d.left \ chunk
    <3>1. rest \in SUBSET d.left
      OBVIOUS
    <3>2. IsFiniteSet(rest)
      BY <2>1, <3>1, FS_Subset
    <3>3. dump' = [sequence |-> d.sequence, part |-> d.part, left |-> rest, intr |-> d.intr]
      BY <1>1, <2>5 DEF DumpOK
    <3> HIDE DEF rest
    <3>4. replies' # <<>>
      BY <1>1, QueueAppend
    <3> QED
      BY <3>2, <3>3, <3>4 DEF DumpOK, Answered
  <2> QED
    BY <2>4, <2>5
<1>2. ASSUME NEW m, m = Message(d.sequence, "malformed") \/ m = Message(d.sequence, "overrun"),
             replies' = Append(queue, <<m>>)
      PROVE  Decided(replies', d.sequence)
  <2>1. Decisive(m, d.sequence)
    BY <1>2 DEF Message, Decisive
  <2>2. 1 \in DOMAIN <<m>> /\ <<m>>[1] = m
    OBVIOUS
  <2>3. \E j \in DOMAIN <<m>> : Decisive(<<m>>[j], d.sequence)
    BY <2>1, <2>2
  <2> QED
    BY <1>2, <2>3, StaysDecided
<1>3. \/ replies' = queue /\ failing' = TRUE
      \/ \E e : replies' = Append(queue, e)
  BY DEF KernelSends
<1>4. IsSeq(replies')
  BY <1>3, QueueAppend
<1>5. failing => failing'
  BY DEF KernelSends
<1>6. \A s : Decided(queue, s) => failing' \/ Decided(replies', s)
  <2>1. CASE replies' = queue
    BY <2>1
  <2>2. ASSUME NEW e, replies' = Append(queue, e)
        PROVE  \A s : Decided(queue, s) => Decided(replies', s)
    BY <2>2, StaysDecided
  <2> QED
    BY <1>3, <2>1, <2>2
<1>7. DumpOK(dump') /\ Answered(replies', dump', failing', d.sequence)
  <2>1. CASE \E chunk \in Chunks(d.left), done \in BOOLEAN :
                /\ replies' = Append(queue, DumpDatagram(d, chunk, done))
                /\ dump' = IF done THEN NoDump ELSE [d EXCEPT !.left = @ \ chunk]
                /\ UNCHANGED <<failing, faults>>
    BY <1>1, <2>1
  <2>2. CASE /\ dump' = NoDump
             /\ \/ failing' = TRUE
                \/ replies' = Append(queue, <<Message(d.sequence, "malformed")>>)
                \/ replies' = Append(queue, <<Message(d.sequence, "overrun")>>)
    BY <1>2, <2>2, NoDumpOK DEF Answered
  <2> QED
    BY <2>1, <2>2 DEF KernelSends
<1> QED
  BY <1>4, <1>5, <1>6, <1>7

LEMMA KernelAnswersAnswers ==
    ASSUME IsSeq(replies), NEW s, NEW code, KernelAnswers(s, code)
    PROVE  IsSeq(replies') /\ (failing' \/ Decided(replies', s))
<1> DEFINE m == [Message(s, "error") EXCEPT !.code = code]
<1>1. Decisive(m, s)
  BY DEF Message, Decisive
<1>2. replies' = Append(replies, <<m>>) \/ (failing' = TRUE /\ replies' = replies)
  BY DEF KernelAnswers
<1> HIDE DEF m
<1>3. \E j \in DOMAIN <<m>> : Decisive(<<m>>[j], s)
  <2>1. 1 \in DOMAIN <<m>> /\ <<m>>[1] = m
    OBVIOUS
  <2> QED
    BY <1>1, <2>1
<1>4. CASE replies' = Append(replies, <<m>>)
  BY <1>3, <1>4, QueueAppend, StaysDecided
<1>5. CASE failing' = TRUE /\ replies' = replies
  <2>1. IsSeq(replies')
    BY <1>5
  <2>2. failing'
    BY <1>5
  <2> QED
    BY <2>1, <2>2
<1> QED
  BY <1>2, <1>4, <1>5

(***************************************************************************)
(* A datagram after which a call goes on decides nothing for that call     *)
(* (decode_reply).                                                         *)
(***************************************************************************)
LEMMA MoreDecidesNothing ==
    ASSUME NEW g, NEW s, decode_reply(g, s).result = "more"
    PROVE  \A j \in DOMAIN g : ~Decisive(g[j], s)
<1> DEFINE ends == {i \in DOMAIN g : Decisive(g[i], s)}
<1>1. decode_reply(g, s).result = IF ends = {} THEN "more" ELSE Outcome(g[Min(ends)])
  BY DEF decode_reply
<1>2. \A m : Outcome(m) # "more"
  BY DEF Outcome, check_reply_code
<1>3. ends = {}
  BY <1>1, <1>2
<1> QED
  BY <1>3

-----------------------------------------------------------------------------
LEMMA Initially == Init => IInv
<1> SUFFICES ASSUME Init PROVE IInv
  OBVIOUS
<1>1. IsSeq(replies)
  <2>1. replies = <<>>
    BY DEF Init, Opened
  <2> QED
    BY <2>1, EmptySeq DEF IsSeq
<1>2. Finite(table)
  BY TablesAssumption DEF Init, Finite
<1>3. DumpOK(dump)
  BY NoDumpOK DEF Init, Opened
<1>4. CallOK
  BY DEF Init, Opened, CallOK, DumpCall, Parts
<1> QED
  BY <1>1, <1>2, <1>3, <1>4 DEF IInv, Init, Opened

LEMMA KernelMovesPreserves == ASSUME IInv, KernelMoves PROVE IInv'
<1>1. PICK p \in Names : \E m \in Universe[p] :
         LET change == [table EXCEPT ![p] = IF m \in @ THEN @ \ {m} ELSE @ \cup {m}]
         IN  table' = change /\ dump' = Marked(dump, change) /\ call' = During(call, change)
  BY DEF KernelMoves, Announced
<1>1a. PICK m \in Universe[p] :
         LET change == [table EXCEPT ![p] = IF m \in @ THEN @ \ {m} ELSE @ \cup {m}]
         IN  table' = change /\ dump' = Marked(dump, change) /\ call' = During(call, change)
  BY <1>1
<1> DEFINE S == IF m \in table[p] THEN table[p] \ {m} ELSE table[p] \cup {m}
<1>2. IsFiniteSet(S)
  <2>1. IsFiniteSet(table[p])
    BY DEF IInv, Finite
  <2> QED
    BY <2>1, FS_AddElement, FS_RemoveElement
<1>3. table' = Put(table, p, S) /\ dump' = Marked(dump, table') /\ call' = During(call, table')
  BY <1>1a DEF Put
<1> HIDE DEF S
<1>4. Finite(table')
  BY <1>2, <1>3, FinitePut DEF IInv
<1>5. DumpOK(dump') /\ dump'.sequence = dump.sequence
  BY <1>3, <1>4, MarkedOK DEF IInv
<1>6. UNCHANGED <<sequence, replies, failing, phase>>
  BY DEF KernelMoves
<1>7. {"sequence", "part"} \subseteq DOMAIN call =>
         /\ DOMAIN call' = DOMAIN call
         /\ call'.sequence = call.sequence /\ call'.part = call.part
  BY <1>3 DEF During
<1>8. CallOK'
  BY <1>6, <1>7 DEF CallOK, IInv
<1>9. phase' = "call" => Answered(replies', dump', failing', call'.sequence)
  BY <1>5, <1>6, <1>7 DEF IInv, CallOK, Answered
<1> QED
  BY <1>4, <1>5, <1>6, <1>8, <1>9 DEF IInv

LEMMA SendDumpPreserves == ASSUME IInv, SendDump PROVE IInv'
<1> DEFINE n == next_sequence
<1>1. n \in Nat \ {0}
  BY NextSequence DEF IInv
<1>2. /\ {"sequence", "part"} \subseteq DOMAIN call' /\ call'.part = call.part
      /\ call'.sequence = n /\ sequence' = n /\ phase' = "call"
  BY DEF SendDump, IInv, CallOK
<1>3. table' = table
  BY DEF SendDump
<1>4. /\ IsSeq(replies') /\ DumpOK(dump')
      /\ Answered(replies', dump', failing', n)
  <2>1. CASE dump # NoDump
    <3>1. KernelAnswers(n, -EBUSY) /\ dump' = dump
      BY <2>1 DEF SendDump
    <3>2. IsSeq(replies') /\ (failing' \/ Decided(replies', n))
      BY <3>1, KernelAnswersAnswers DEF IInv
    <3> QED
      BY <3>1, <3>2 DEF IInv, Answered
  <2>2. CASE dump = NoDump
    <3> DEFINE part == Parts[call.part]
               d == [sequence |-> n, part |-> part, left |-> table[part], intr |-> FALSE]
    <3>1. KernelSends(d, replies)
      BY <2>2 DEF SendDump
    <3>2. part \in Names
      BY DEF SendDump, IInv, CallOK, Names
    <3>3. DumpOK(d)
      BY <3>2 DEF IInv, Finite, DumpOK
    <3>4. d.sequence = n
      OBVIOUS
    <3> HIDE DEF d
    <3> QED
      BY <3>1, <3>3, <3>4, KernelSendsAnswers DEF IInv
  <2> QED
    BY <2>1, <2>2
<1>5. call.part \in DOMAIN Parts
  BY DEF SendDump, IInv, CallOK
<1> HIDE DEF n
<1> QED
  BY <1>1, <1>2, <1>3, <1>4, <1>5 DEF IInv, CallOK

LEMMA RequestPreserves == ASSUME IInv, request PROVE IInv'
<1> DEFINE n == next_sequence
<1>1. n \in Nat \ {0}
  BY NextSequence DEF IInv
<1>2. PICK op \in Requests, granted \in BOOLEAN :
         LET change == IF granted THEN Applied(op) ELSE table
         IN  /\ table' = change
             /\ dump' = Marked(dump, change)
             /\ call' = [DumpCall EXCEPT !.kind = "request", !.sequence = n,
                                         !.op = op, !.granted = granted]
             /\ KernelAnswers(n, IF granted THEN 0 ELSE -EEXIST)
  BY DEF request, Announced
<1>3. phase' = "call" /\ sequence' = n
  BY DEF request
<1>4. /\ {"sequence", "part"} \subseteq DOMAIN call'
      /\ call'.sequence = n /\ call'.part = 1 /\ 1 \in DOMAIN Parts
  BY <1>2 DEF DumpCall, Parts
<1>5. Finite(table')
  BY <1>2, AppliedFinite DEF IInv
<1>6. DumpOK(dump')
  BY <1>2, <1>5, MarkedOK DEF IInv
<1>7. IsSeq(replies') /\ (failing' \/ Decided(replies', n))
  BY <1>2, KernelAnswersAnswers DEF IInv
<1> HIDE DEF n
<1> QED
  BY <1>1, <1>3, <1>4, <1>5, <1>6, <1>7 DEF IInv, CallOK, Answered

\* A call that returns waits for nothing; the next part is one there is.
LEMMA ReturnEndsCall ==
    ASSUME CallOK, phase = "call", NEW r, NEW out, Return(r, out)
    PROVE  CallOK' /\ phase' # "call"
<1>1. DOMAIN Parts = 1 .. 5 /\ Len(Parts) = 5
  BY DEF Parts
<1>2. CASE call.kind = "request"
  BY <1>2 DEF Return, ReturnRequest, CallOK
<1>3. CASE call.kind # "request" /\ r # "ok"
  <2>1. phase' \in {"exited", "poll"}
    BY <1>3 DEF Return, DumpFails
  <2> QED
    BY <2>1 DEF CallOK
<1>4. CASE call.kind # "request" /\ r = "ok" /\ call.part = Len(Parts)
  <2>1. phase' \in {"pass", "poll"}
    BY <1>4 DEF Return, DumpSucceeds
  <2> QED
    BY <2>1 DEF CallOK
<1>5. CASE call.kind # "request" /\ r = "ok" /\ call.part # Len(Parts)
  <2>1. phase' = "send" /\ call' = [call EXCEPT !.part = @ + 1, !.out = out]
    BY <1>5 DEF Return
  <2>2. call.part \in 1 .. 5 /\ {"sequence", "part"} \subseteq DOMAIN call
    BY <1>1 DEF CallOK
  <2>3. {"sequence", "part"} \subseteq DOMAIN call' /\ call'.part = call.part + 1
    BY <2>1, <2>2
  <2> QED
    BY <1>1, <1>5, <2>1, <2>2, <2>3 DEF CallOK
<1> QED
  BY <1>2, <1>3, <1>4, <1>5

LEMMA ReceivePreserves == ASSUME IInv, receive PROVE IInv'
<1>1. phase = "call" /\ table' = table /\ sequence' = sequence
  BY DEF receive
<1> DEFINE s == call.sequence
<1>2. s \in Nat \ {0} /\ IsSeq(replies) /\ DumpOK(dump) /\ CallOK
  BY <1>1 DEF IInv, CallOK
<1>3. CASE failing
  <2>1. Return("error", call.out) /\ replies' = replies /\ dump' = dump
    BY <1>3 DEF receive
  <2>2. CallOK' /\ phase' # "call"
    BY <1>1, <1>2, <2>1, ReturnEndsCall
  <2> QED
    BY <1>1, <2>1, <2>2 DEF IInv
<1>4. CASE ~failing
  <2>1. replies # <<>>
    BY <1>4 DEF receive
  <2>2. IsSeq(Tail(replies))
    BY <1>2, <2>1, QueueTail
  <2>3. \/ dump = NoDump /\ replies' = Tail(replies) /\ dump' = dump
        \/ KernelSends(dump, Tail(replies))
    BY <1>4 DEF receive
  <2>4. IsSeq(replies') /\ DumpOK(dump')
    BY <1>2, <2>2, <2>3, KernelSendsAnswers
  <2> DEFINE reply == decode_reply(Head(replies), s)
             part == Parts[call.part]
             out == [call.out EXCEPT ![part] = @ \cup Seen(part, reply.inner)]
  <2>5. CASE reply.result = "more"
    <3>1. call' = [call EXCEPT !.out = out] /\ phase' = phase
      BY <1>4, <2>5 DEF receive
    <3> HIDE DEF out
    <3>2. DOMAIN call' = DOMAIN call /\ call'.sequence = s /\ call'.part = call.part
      BY <1>1, <1>2, <3>1 DEF CallOK
    <3>3. \A j \in DOMAIN Head(replies) : ~Decisive(Head(replies)[j], s)
      BY <2>5, MoreDecidesNothing
    <3>4. Decided(replies, s) \/ dump.sequence = s
      BY <1>1, <1>4 DEF IInv, Answered
    <3>5. Decided(replies, s) => Decided(Tail(replies), s)
      BY <1>2, <2>1, <3>3, DecidedBehind
    <3>6. Answered(replies', dump', failing', s)
      <4>1. CASE dump = NoDump /\ replies' = Tail(replies)
        <5>1. dump.sequence # s
          BY <1>2, <4>1 DEF NoDump
        <5> QED
          BY <3>4, <3>5, <4>1, <5>1 DEF Answered
      <4>2. CASE KernelSends(dump, Tail(replies))
        <5>1. CASE dump.sequence = s
          BY <1>2, <2>2, <4>2, <5>1, KernelSendsAnswers
        <5>2. CASE dump.sequence # s
          <6>1. Decided(Tail(replies), s)
            BY <3>4, <3>5, <5>2
          <6> QED
            BY <1>2, <2>2, <4>2, <6>1, KernelSendsAnswers DEF Answered
        <5> QED
          BY <5>1, <5>2
      <4> QED
        BY <2>3, <4>1, <4>2
    <3>7. CallOK'
      BY <1>1, <1>2, <3>1, <3>2 DEF CallOK
    <3> QED
      BY <1>1, <2>4, <3>2, <3>6, <3>7 DEF IInv
  <2>6. CASE reply.result # "more"
    <3>1. Return(reply.result, out)
      BY <1>4, <2>6 DEF receive
    <3>2. CallOK' /\ phase' # "call"
      BY <1>1, <1>2, <3>1, ReturnEndsCall
    <3> QED
      BY <1>1, <2>4, <3>2 DEF IInv
  <2> QED
    BY <2>5, <2>6
<1> QED
  BY <1>3, <1>4

\* Starting a dump, or a pass, asks nothing yet.
LEMMA LoopPreserves ==
    ASSUME IInv, Wake \/ OtherWake \/ Redump \/ Restart PROVE IInv'
<1>1. CASE Wake \/ Redump
  <2>1. /\ call' = DumpCall /\ phase' = "send"
        /\ UNCHANGED <<table, sequence, replies, dump>>
    BY <1>1 DEF Wake, Redump
  <2>2. CallOK'
    BY <2>1 DEF CallOK, DumpCall, Parts
  <2> QED
    BY <2>1, <2>2 DEF IInv
<1>2. CASE OtherWake
  <2>1. phase' = "pass" /\ UNCHANGED <<table, sequence, replies, dump>>
    BY <1>2 DEF OtherWake
  <2> QED
    BY <2>1 DEF IInv, CallOK
<1>3. CASE Restart
  <2>1. /\ call' = DumpCall /\ phase' = "send" /\ replies' = <<>> /\ dump' = NoDump
        /\ sequence' = 1 /\ table' = table
    BY <1>3 DEF Restart, Opened
  <2>2. CallOK'
    BY <2>1 DEF CallOK, DumpCall, Parts
  <2>3. IsSeq(<<>>)
    BY EmptySeq DEF IsSeq
  <2> QED
    BY <2>1, <2>2, <2>3, NoDumpOK DEF IInv
<1> QED
  BY <1>1, <1>2, <1>3

(***************************************************************************)
(* netd never waits for ever on its request socket (LinuxRtnl::receive,    *)
(* which has no timeout): a call that waits has an answer, a datagram of   *)
(* its dump or an error to read, whatever earlier calls left behind and    *)
(* however the sequence number wraps.                                      *)
(***************************************************************************)
THEOREM CallsEnd == Spec => []NeverStuck
<1>1. IInv /\ [Next]_vars => IInv'
  <2> SUFFICES ASSUME IInv, [Next]_vars PROVE IInv'
    OBVIOUS
  <2>1. CASE UNCHANGED vars
    BY <2>1 DEF IInv, CallOK, vars
  <2> QED
    BY <2>1, KernelMovesPreserves, SendDumpPreserves, RequestPreserves, ReceivePreserves,
       LoopPreserves DEF Next
<1>2. IInv => NeverStuck
  <2> SUFFICES ASSUME IInv, phase = "call", ~failing PROVE replies # <<>>
    BY DEF NeverStuck
  <2>1. Decided(replies, call.sequence) => replies # <<>>
    <3>1. Len(<<>>) = 0
      OBVIOUS
    <3> QED
      BY <3>1 DEF Decided
  <2> QED
    BY <2>1 DEF IInv, Answered
<1> QED
  BY Initially, <1>1, <1>2, PTL DEF Spec

-----------------------------------------------------------------------------
(***************************************************************************)
(* An address that was granted reads back as it was asked for: the flag    *)
(* sent as a lifetime comes back as a flag, and an IPv4 address without    *)
(* flags has none (address_message, address_from_message).                 *)
(***************************************************************************)
LEMMA AddressReadsBack ==
    ASSUME NEW op \in Requests, op.type = "NewAddress"
    PROVE  address_from_message(Stored(address_message(op.address))) = op.address
<1> DEFINE a == op.address
           v4 == a.address.family = 4
           npr == IF a.no_prefix_route THEN {"Noprefixroute"} ELSE {}
           dep == IF a.deprecated THEN {"Deprecated"} ELSE {}
           flags == npr \cup {"Permanent"} \cup dep
           local == IF v4 THEN a.address ELSE None
           m == Stored(address_message(a))
<1>1. /\ a = [index |-> a.index, address |-> a.address, prefix |-> a.prefix,
              deprecated |-> a.deprecated, no_prefix_route |-> a.no_prefix_route,
              tentative |-> FALSE]
      /\ a.address # None
      /\ a.deprecated \in BOOLEAN /\ a.no_prefix_route \in BOOLEAN
      /\ a.address.family \in {4, 6}
      /\ v4 => ~a.deprecated /\ ~a.no_prefix_route
      /\ None # "zero" /\ None \notin SUBSET {"Noprefixroute", "Permanent", "Deprecated"}
  BY RequestsAssumption
<1> HIDE DEF a
<1>2. flags # None /\ {"Noprefixroute"} # None
  BY <1>1
<1>3. m.index = a.index /\ m.prefix_len = a.prefix /\ m.header_flags = {}
  BY DEF Stored, address_message
<1>4. m.attributes.local = local /\ m.attributes.address = a.address
  BY DEF Stored, address_message
<1>5. m.attributes.flags = flags
  <2>1. CASE v4
    <3>1. m.attributes.flags = {} \cup {"Permanent"} \cup {}
      BY <1>1, <2>1 DEF Stored, address_message
    <3> QED
      BY <1>1, <2>1, <3>1
  <2>2. CASE ~v4
    <3>1. a.address.family = 6
      BY <1>1, <2>2
    <3>2. m.attributes.flags = npr \cup {"Permanent"} \cup dep
      BY <1>1, <1>2, <3>1 DEF Stored, address_message
    <3> QED
      BY <3>2
  <2> QED
    BY <2>1, <2>2
<1> HIDE DEF m
<1>6. /\ ("Deprecated" \in flags) = a.deprecated
      /\ ("Noprefixroute" \in flags) = a.no_prefix_route
      /\ ("Tentative" \in flags \cup {}) = FALSE
  BY <1>1
<1> HIDE DEF flags
<1>7. address_from_message(m) =
         [index |-> a.index, prefix |-> a.prefix, address |-> a.address,
          deprecated |-> "Deprecated" \in flags, no_prefix_route |-> "Noprefixroute" \in flags,
          tentative |-> "Tentative" \in flags \cup {}]
  BY <1>1, <1>2, <1>3, <1>4, <1>5 DEF address_from_message
<1>8. address_from_message(m) =
         [index |-> a.index, prefix |-> a.prefix, address |-> a.address,
          deprecated |-> a.deprecated, no_prefix_route |-> a.no_prefix_route,
          tentative |-> FALSE]
  BY <1>6, <1>7
<1> QED
  BY <1>1, <1>8 DEF a, m

(***************************************************************************)
(* A route reads back as it was asked for, but for the metric the kernel   *)
(* gives an IPv6 route that names none.                                    *)
(***************************************************************************)
LEMMA RouteReadsBack ==
    ASSUME NEW op \in Requests, op.type = "NewRoute"
    PROVE  LET r == op.route
           IN  route_from_message(StoredRoute(route_message(r))) =
                  IF r.destination.family = 6 /\ r.metric = 0
                  THEN Defaulted(r) ELSE r
<1> DEFINE r == op.route
           family == r.destination.family
           destination == IF r.prefix > 0 THEN r.destination ELSE None
           given == IF r.metric > 0 THEN r.metric ELSE None
           priority == IF family = 6 /\ given = None THEN 1024 ELSE given
           m == StoredRoute(route_message(r))
<1>1. /\ r = [index |-> r.index, destination |-> r.destination, prefix |-> r.prefix,
              gateway |-> r.gateway, metric |-> r.metric, protocol |-> r.protocol]
      /\ r.index # None /\ r.metric \in Nat /\ r.prefix \in Nat
      /\ r.destination # None /\ family \in {4, 6}
      /\ r.prefix = 0 => r.destination = Unspecified(family)
      /\ None \notin Nat
  BY RequestsAssumption
<1> HIDE DEF r
<1>2. m = [family |-> family, prefix_len |-> r.prefix, table |-> RT_TABLE_MAIN,
           protocol |-> r.protocol, kind |-> "Unicast", destination |-> destination,
           gateway |-> r.gateway, oif |-> r.index, priority |-> priority]
  BY DEF StoredRoute, route_message
<1>3. route_from_message(m) =
         [index |-> r.index, prefix |-> r.prefix,
          destination |-> IF destination = None THEN Unspecified(family) ELSE destination,
          gateway |-> r.gateway,
          metric |-> IF priority = None THEN 0 ELSE priority, protocol |-> r.protocol]
  BY <1>1, <1>2 DEF route_from_message
<1>4. (IF destination = None THEN Unspecified(family) ELSE destination) = r.destination
  BY <1>1
<1>5. (IF priority = None THEN 0 ELSE priority)
         = IF family = 6 /\ r.metric = 0 THEN 1024 ELSE r.metric
  BY <1>1
<1> HIDE DEF m
<1> QED
  BY <1>1, <1>3, <1>4, <1>5 DEF r, m, Defaulted

(***************************************************************************)
(* What netd was granted is what a dump shows (netlink.rs: address_message *)
(* and route_message against address_from_message and                      *)
(* route_from_message), for every address and every route it may ask for.  *)
(***************************************************************************)
THEOREM GrantedReadsBack == Spec => []ReadBack
<1>1. ReadBack
  <2> SUFFICES ASSUME NEW op \in Requests
               PROVE  /\ op.type = "NewAddress" =>
                            LET p == AddressPart(op.address) IN
                            Stored(address_message(op.address)) \in table[p] =>
                                op.address \in Seen(p, table[p])
                      /\ op.type = "NewRoute" =>
                            LET p == RoutePart(op.route)
                                r == IF p = "routes6" /\ op.route.metric = 0
                                     THEN Defaulted(op.route) ELSE op.route IN
                            StoredRoute(route_message(op.route)) \in table[p] =>
                                r \in Seen(p, table[p])
    BY DEF ReadBack
  <2>1. ASSUME op.type = "NewAddress",
               Stored(address_message(op.address)) \in table[AddressPart(op.address)]
        PROVE  op.address \in Seen(AddressPart(op.address), table[AddressPart(op.address)])
    <3>1. op.address # None
      BY <2>1, RequestsAssumption
    <3>2. \A m : from_message(AddressPart(op.address), m) = address_from_message(m)
      BY DEF from_message, AddressPart
    <3> QED
      BY <2>1, <3>1, <3>2, AddressReadsBack DEF Seen
  <2>2. ASSUME op.type = "NewRoute",
               StoredRoute(route_message(op.route)) \in table[RoutePart(op.route)]
        PROVE  (IF RoutePart(op.route) = "routes6" /\ op.route.metric = 0
                THEN Defaulted(op.route) ELSE op.route)
                  \in Seen(RoutePart(op.route), table[RoutePart(op.route)])
    <3> DEFINE r == IF op.route.destination.family = 6 /\ op.route.metric = 0
                    THEN Defaulted(op.route) ELSE op.route
    <3>1. op.route # None /\ op.route.destination.family \in {4, 6}
      BY <2>2, RequestsAssumption
    <3>2. \A m : from_message(RoutePart(op.route), m) = route_from_message(m)
      BY DEF from_message, RoutePart
    <3>3. RoutePart(op.route) = "routes6" <=> op.route.destination.family = 6
      BY <3>1 DEF RoutePart
    <3>4. route_from_message(StoredRoute(route_message(op.route))) = r
      BY <2>2, RouteReadsBack
    <3>5. r # None
      BY <2>2, RequestsAssumption
    <3> QED
      BY <2>2, <3>2, <3>3, <3>4, <3>5 DEF Seen
  <2> QED
    BY <2>1, <2>2
<1> QED
  BY <1>1, PTL DEF Spec
=============================================================================
