---------------------------- MODULE Dhcp6Proofs ----------------------------
(***************************************************************************)
(* Proofs about the DHCPv6 client, for every set of answers, refresh times *)
(* and limits that satisfies the assumption of Dhcp6Client.                *)
(***************************************************************************)
EXTENDS Dhcp6Client, FiniteSetTheorems, TLAPS

-----------------------------------------------------------------------------
(***************************************************************************)
(* The inductive invariant.  Answers under way are few, so that a fresh    *)
(* transaction exists, and are told apart by their transaction; the time   *)
(* since the last request and since the last answer make up, with what is  *)
(* left to the timer, the floors.                                          *)
(***************************************************************************)
Gap == FIRST_RETRANSMIT - FIRST_RETRANSMIT \div 10

FewUnderWay == IsFiniteSet(under_way) /\ Cardinality(under_way) <= MaxUnderWay

ToldApart == \A a \in under_way : a.late = (a.txid # txid)

Pacing ==
    /\ retransmit_in # None => answered = REFRESH_MINIMUM /\ retransmit_in + quiet >= Gap
    /\ refresh_in # None => /\ refresh_in + answered >= REFRESH_MINIMUM
                            /\ quiet >= Smaller(answered, FIRST_RETRANSMIT)

IInv == TypeOK /\ (running => txid # None) /\ OneTimer /\ Settles /\ NoLateAnswer
        /\ FewUnderWay /\ ToldApart /\ Pacing

-----------------------------------------------------------------------------
(***************************************************************************)
(* jitter takes a tenth at most off an interval, so no jittered interval   *)
(* is shorter than the shortest of the first, and none is zero.            *)
(***************************************************************************)
LEMMA JitterBounds ==
    ASSUME NEW interval \in FIRST_RETRANSMIT .. MAX_RETRANSMIT, NEW j \in Jittered(interval)
    PROVE  j \in Nat /\ j >= Gap /\ j > 0 /\ Gap \in Nat /\ Gap <= FIRST_RETRANSMIT
<1>1. FIRST_RETRANSMIT \in Nat /\ FIRST_RETRANSMIT > 0 /\ MAX_RETRANSMIT \in Nat
  BY Dhcp6Assumption
<1>2. interval \in Nat /\ interval >= FIRST_RETRANSMIT
  BY <1>1
<1>3. PICK k \in 0 .. interval \div 5 : j = interval - interval \div 10 + k
  BY DEF Jittered
<1>4. /\ interval - interval \div 10 >= FIRST_RETRANSMIT - FIRST_RETRANSMIT \div 10
      /\ interval - interval \div 10 > 0 /\ interval - interval \div 10 \in Nat
      /\ FIRST_RETRANSMIT - FIRST_RETRANSMIT \div 10 \in Nat
      /\ FIRST_RETRANSMIT - FIRST_RETRANSMIT \div 10 <= FIRST_RETRANSMIT
  BY <1>1, <1>2
<1>5. k \in Nat
  BY <1>2, <1>3
<1> QED
  BY <1>3, <1>4, <1>5 DEF Gap

(***************************************************************************)
(* The values of a function on a finite set are no more than its arguments.*)
(* The image FS_Image speaks of takes an operator, which cannot be given.  *)
(***************************************************************************)
LEMMA ImageBound ==
    ASSUME NEW S, IsFiniteSet(S), NEW f, f = [x \in S |-> f[x]]
    PROVE  IsFiniteSet({f[x] : x \in S}) /\ Cardinality({f[x] : x \in S}) <= Cardinality(S)
<1> DEFINE T == {f[x] : x \in S}
<1>1. f \in Surjection(S, T)
  BY DEF Surjection
<1> HIDE DEF T
<1>2. IsFiniteSet(T) /\ Cardinality(T) <= Cardinality(S)
  BY <1>1, FS_Surjection
<1> QED
  BY <1>2 DEF T

(***************************************************************************)
(* begin_exchange finds a transaction that no answer under way is for.     *)
(***************************************************************************)
LEMMA FreshExists ==
    ASSUME FewUnderWay, under_way \subseteq Answer
    PROVE  Fresh \in Txids /\ Fresh # txid /\ \A a \in under_way : a.txid # Fresh
<1> DEFINE used == {a.txid : a \in under_way}
<1>1. IsFiniteSet(used) /\ Cardinality(used) <= Cardinality(under_way)
  <2> DEFINE f == [a \in under_way |-> a.txid]
  <2>1. f = [a \in under_way |-> f[a]] /\ used = {f[a] : a \in under_way}
    OBVIOUS
  <2> HIDE DEF f, used
  <2> QED
    BY <2>1, ImageBound DEF FewUnderWay
<1> HIDE DEF used
<1>2. IsFiniteSet(used \cup {txid}) /\ Cardinality(used \cup {txid}) <= Cardinality(used) + 1
  <2>1. Cardinality(used) \in Nat
    BY <1>1, FS_CardinalityType
  <2>2. /\ IsFiniteSet(used \cup {txid})
        /\ Cardinality(used \cup {txid}) =
              IF txid \in used THEN Cardinality(used) ELSE Cardinality(used) + 1
    BY <1>1, FS_AddElement, Zenon
  <2> QED
    BY <2>1, <2>2
<1>3. \E t \in Txids : t \notin used \cup {txid}
  <2> SUFFICES ASSUME Txids \subseteq used \cup {txid}
               PROVE  FALSE
    OBVIOUS
  <2>1. Cardinality(Txids) <= Cardinality(used \cup {txid})
    BY <1>2, FS_Subset
  <2>2. /\ Cardinality(Txids) > MaxUnderWay + 1 /\ MaxUnderWay \in Nat
        /\ Cardinality(Txids) \in Nat
    BY Dhcp6Assumption, FS_CardinalityType
  <2>3. /\ Cardinality(used \cup {txid}) \in Nat /\ Cardinality(used) \in Nat
        /\ Cardinality(under_way) \in Nat /\ Cardinality(under_way) <= MaxUnderWay
    BY <1>1, <1>2, FS_CardinalityType DEF FewUnderWay
  <2> QED
    BY <1>1, <1>2, <2>1, <2>2, <2>3
<1>4. \E t \in Txids : t # txid /\ \A a \in under_way : a.txid # t
  BY <1>3 DEF used
<1> QED
  BY <1>4 DEF Fresh

-----------------------------------------------------------------------------
(***************************************************************************)
(* Client::new establishes the invariant.                                  *)
(***************************************************************************)
LEMMA InitIInv == Init => IInv
<1> SUFFICES ASSUME Init PROVE IInv
  OBVIOUS
<1>1. TypeOK
  <2>1. /\ FIRST_RETRANSMIT \in FIRST_RETRANSMIT .. MAX_RETRANSMIT
        /\ FIRST_RETRANSMIT \in 0 .. FIRST_RETRANSMIT
        /\ REFRESH_MINIMUM \in 0 .. REFRESH_MINIMUM
    BY Dhcp6Assumption
  <2> QED
    BY <2>1 DEF Init, TypeOK
<1>3. Settles /\ NoLateAnswer /\ ToldApart /\ Pacing
  BY DEF Init, Settles, NoLateAnswer, ToldApart, Pacing
<1>4. OneTimer
  BY DEF Init, OneTimer
<1>2. FewUnderWay
  BY FS_EmptySet, Dhcp6Assumption DEF Init, FewUnderWay
<1> QED
  BY <1>1, <1>2, <1>3, <1>4 DEF Init, IInv

(***************************************************************************)
(* Sending a request, of a new exchange or of the running one, preserves   *)
(* the invariant if the answers under way are told apart by its            *)
(* transaction and the last answer is long enough ago.                     *)
(***************************************************************************)
LEMMA RequestIInv ==
    ASSUME NEW t \in Txids, NEW interval \in FIRST_RETRANSMIT .. MAX_RETRANSMIT, NEW answers,
           answers \subseteq Answer, IsFiniteSet(answers), Cardinality(answers) <= MaxUnderWay,
           \A a \in answers : a.late = (a.txid # t),
           server \in Infos, server' = server, running' = TRUE,
           info' \in Infos \cup {None}, published' \in Infos \cup {None},
           answered' = REFRESH_MINIMUM,
           Request(t, interval, answers)
    PROVE  IInv'
<1> DEFINE new == [txid |-> t, late |-> FALSE, info |-> server]
<1>1. PICK j \in Jittered(interval) : retransmit_in' = j
  BY DEF Request
<1>2. j \in Nat /\ j >= Gap /\ j > 0 /\ Gap \in Nat
  BY JitterBounds
<1>3. /\ txid' = t /\ started' = TRUE /\ refresh_in' = None /\ quiet' = 0 /\ call' = "sent"
      /\ retransmit_interval' = Doubled(interval)
      /\ under_way' = answers \/ under_way' = answers \cup {new}
      /\ under_way' = answers \/ Cardinality(under_way') <= MaxUnderWay
  BY DEF Request
<1>4. Doubled(interval) \in FIRST_RETRANSMIT .. MAX_RETRANSMIT
  BY Dhcp6Assumption DEF Doubled, Smaller
<1>5. new \in Answer
  BY DEF Answer
<1>6. under_way' \subseteq Answer
  BY <1>3, <1>5
<1>7. retransmit_in' \in Nat /\ retransmit_in' # None
  BY <1>1, <1>2, Dhcp6Assumption
<1>8. TypeOK'
  BY <1>3, <1>4, <1>6, <1>7, Dhcp6Assumption DEF TypeOK
<1>9. OneTimer' /\ NoLateAnswer'
  BY <1>3, <1>7 DEF OneTimer, NoLateAnswer
<1>10. Settles'
  BY <1>1, <1>2, <1>3, <1>7 DEF Settles, next_deadline
<1>11. FewUnderWay'
  <2>1. IsFiniteSet(answers \cup {new})
    BY FS_AddElement
  <2> HIDE DEF new
  <2> QED
    BY <1>3, <2>1 DEF FewUnderWay
<1>12. ToldApart'
  <2> SUFFICES ASSUME NEW a \in under_way' PROVE a.late = (a.txid # t)
    BY <1>3 DEF ToldApart
  <2>1. CASE a \in answers
    BY <2>1
  <2>2. CASE a = new
    BY <2>2
  <2> QED
    BY <1>3, <2>1, <2>2
<1>13. Pacing'
  BY <1>1, <1>2, <1>3 DEF Pacing
<1>14. txid' # None
  BY <1>3, Dhcp6Assumption
<1> QED
  BY <1>8, <1>9, <1>10, <1>11, <1>12, <1>13, <1>14 DEF IInv

(***************************************************************************)
(* begin_exchange makes every answer under way a late one.                 *)
(***************************************************************************)
LEMMA BeginExchange ==
    ASSUME IInv, begin_exchange, server' = server, running' = TRUE,
           info' \in Infos \cup {None}, published' \in Infos \cup {None},
           answered' = REFRESH_MINIMUM
    PROVE  IInv'
<1> DEFINE late == Lost(under_way)
           f == [a \in under_way |-> [a EXCEPT !.late = TRUE]]
<1>1. Fresh \in Txids /\ \A a \in under_way : a.txid # Fresh
  BY FreshExists DEF IInv, TypeOK
<1>2. late \subseteq Answer
  BY DEF IInv, TypeOK, Lost, Answer
<1>3. IsFiniteSet(late) /\ Cardinality(late) <= MaxUnderWay
  <2>1. f = [a \in under_way |-> f[a]] /\ late = {f[a] : a \in under_way}
    BY DEF Lost
  <2> HIDE DEF f, late
  <2>2. IsFiniteSet(late) /\ Cardinality(late) <= Cardinality(under_way)
    BY <2>1, ImageBound DEF IInv, FewUnderWay
  <2>3. /\ Cardinality(late) \in Nat /\ Cardinality(under_way) \in Nat
        /\ Cardinality(under_way) <= MaxUnderWay
    BY <2>2, FS_CardinalityType DEF IInv, FewUnderWay
  <2> QED
    BY <2>2, <2>3, Dhcp6Assumption
<1>4. \A a \in late : a.late = (a.txid # Fresh)
  <2> SUFFICES ASSUME NEW b \in under_way
               PROVE  LET a == [b EXCEPT !.late = TRUE] IN a.late = (a.txid # Fresh)
    BY DEF Lost
  <2>1. b \in Answer
    BY DEF IInv, TypeOK
  <2>2. [b EXCEPT !.late = TRUE].late = TRUE /\ [b EXCEPT !.late = TRUE].txid = b.txid
    BY <2>1 DEF Answer
  <2> QED
    BY <1>1, <2>2
<1>5. FIRST_RETRANSMIT \in FIRST_RETRANSMIT .. MAX_RETRANSMIT
  BY Dhcp6Assumption
<1>6. Request(Fresh, FIRST_RETRANSMIT, late) /\ server \in Infos
  BY DEF begin_exchange, IInv, TypeOK
<1> HIDE DEF late, f
<1> QED
  BY <1>1, <1>2, <1>3, <1>4, <1>5, <1>6, RequestIInv

-----------------------------------------------------------------------------
(***************************************************************************)
(* Client::start begins an exchange.                                       *)
(***************************************************************************)
LEMMA StartIInv == ASSUME IInv, Start PROVE IInv'
  BY BeginExchange DEF Start, IInv, TypeOK

(***************************************************************************)
(* Client::tick, which refreshes, retransmits or does nothing.             *)
(***************************************************************************)
LEMMA TickIInv == ASSUME IInv, Tick PROVE IInv'
<1>1. /\ running /\ running' = TRUE /\ server' = server /\ answered' = answered
      /\ info' = info /\ published' = published
  BY DEF Tick, IInv, TypeOK
<1>2. CASE Due(refresh_in) /\ begin_exchange
  <2>1. answered = REFRESH_MINIMUM
    <3>1. refresh_in = 0 /\ refresh_in # None
      BY <1>2 DEF Due
    <3>2. refresh_in + answered >= REFRESH_MINIMUM /\ answered \in 0 .. REFRESH_MINIMUM
      BY <3>1 DEF IInv, Pacing, TypeOK
    <3> QED
      BY <3>1, <3>2, Dhcp6Assumption
  <2> QED
    BY <1>1, <1>2, <2>1, BeginExchange DEF IInv, TypeOK
<1>3. CASE Due(retransmit_in) /\ Request(txid, retransmit_interval, under_way)
  <2>1. answered = REFRESH_MINIMUM
    BY <1>3 DEF Due, IInv, Pacing
  <2>2. txid \in Txids
    BY <1>1 DEF IInv, TypeOK
  <2> QED
    BY <1>1, <1>3, <2>1, <2>2, RequestIInv DEF IInv, TypeOK, FewUnderWay, ToldApart
<1>4. CASE TickIdle
  <2>1. TypeOK' /\ OneTimer' /\ NoLateAnswer'
    BY <1>1, <1>4 DEF TickIdle, IInv, TypeOK, OneTimer, NoLateAnswer
  <2>2. Settles' /\ FewUnderWay' /\ ToldApart' /\ Pacing' /\ txid' # None
    BY <1>1, <1>4 DEF TickIdle, IInv, Settles, FewUnderWay, ToldApart, Pacing
  <2> QED
    BY <2>1, <2>2 DEF IInv
<1> QED
  BY <1>2, <1>3, <1>4 DEF Tick

(***************************************************************************)
(* Client::receive: an answer that parse_reply takes is for the running    *)
(* transaction, so it is not late, and the floor on the refresh time makes *)
(* the pacing good.                                                        *)
(***************************************************************************)
LEMMA AcceptIInv ==
    ASSUME IInv, NEW d \in Datagram, NEW a \in under_way, running, a.txid = txid, Accept(d, a),
           running' = running, server' = server, under_way' = under_way, quiet' = quiet
    PROVE  IInv'
<1>1. a \in Answer
  BY DEF IInv, TypeOK
<1>2. ~a.late
  BY DEF IInv, ToldApart
<1>3. refresh_time(d) \in Nat /\ refresh_time(d) >= REFRESH_MINIMUM
  <2> DEFINE asked == IF d.refresh = None THEN REFRESH_DEFAULT ELSE d.refresh
  <2>1. asked \in Nat /\ REFRESH_MINIMUM \in Nat
    BY Dhcp6Assumption DEF Datagram
  <2>2. refresh_time(d) = Larger(asked, REFRESH_MINIMUM)
    BY DEF refresh_time
  <2> HIDE DEF asked
  <2> QED
    BY <2>1, <2>2 DEF Larger
<1>4. /\ retransmit_in' = None /\ started' = FALSE /\ refresh_in' = refresh_time(d)
      /\ info' = a.info /\ answered' = 0 /\ call' = "accepted"
      /\ txid' = txid /\ retransmit_interval' = retransmit_interval
      /\ published' \in Infos \cup {None}
  BY <1>1, <1>2 DEF Accept, Published, Answer, IInv, TypeOK
<1>5. refresh_in' \in Nat /\ refresh_in' # None /\ refresh_in' > 0
  BY <1>3, <1>4, Dhcp6Assumption
<1>6. TypeOK'
  <2>1. a.info \in Infos /\ 0 \in 0 .. REFRESH_MINIMUM
    BY <1>1, Dhcp6Assumption DEF Answer
  <2> QED
    BY <1>4, <1>5, <2>1 DEF IInv, TypeOK
<1>7. OneTimer' /\ NoLateAnswer'
  BY <1>4, <1>5 DEF OneTimer, NoLateAnswer
<1>8. Settles'
  BY <1>4, <1>5 DEF Settles, next_deadline
<1>9. FewUnderWay' /\ ToldApart' /\ (running' => txid' # None)
  BY <1>4 DEF IInv, FewUnderWay, ToldApart
<1>10. Pacing'
  <2>1. quiet \in Nat /\ Smaller(0, FIRST_RETRANSMIT) = 0
    BY Dhcp6Assumption DEF IInv, TypeOK, Smaller
  <2> QED
    BY <1>3, <1>4, <2>1, Dhcp6Assumption DEF Pacing
<1> QED
  BY <1>6, <1>7, <1>8, <1>9, <1>10 DEF IInv

(***************************************************************************)
(* Client::receive of any datagram.                                        *)
(***************************************************************************)
LEMMA ReceiveIInv ==
    ASSUME IInv, NEW d \in Datagram, NEW a \in Answer, Receive(d, a)
    PROVE  IInv'
<1>1. CASE Listening /\ parse_reply(d, a.txid)
  BY <1>1, AcceptIInv DEF Receive, parse_reply
<1>2. CASE ~(Listening /\ parse_reply(d, a.txid))
  <2>1. /\ call' = "idle"
        /\ UNCHANGED <<running, txid, started, retransmit_in, retransmit_interval, refresh_in,
                       info, published, server, under_way, quiet, answered>>
    BY <1>2 DEF Receive
  <2>2. TypeOK' /\ OneTimer' /\ NoLateAnswer'
    BY <2>1 DEF IInv, TypeOK, OneTimer, NoLateAnswer
  <2>3. Settles' /\ FewUnderWay' /\ ToldApart' /\ Pacing' /\ (running' => txid' # None)
    BY <2>1 DEF IInv, Settles, FewUnderWay, ToldApart, Pacing
  <2> QED
    BY <2>2, <2>3 DEF IInv
<1> QED
  BY <1>1, <1>2

(***************************************************************************)
(* Dropping the client, and what the network, the server and the clock do. *)
(***************************************************************************)
LEMMA StopIInv == ASSUME IInv, Stop PROVE IInv'
<1>1. FIRST_RETRANSMIT \in FIRST_RETRANSMIT .. MAX_RETRANSMIT
  BY Dhcp6Assumption
<1>2. TypeOK' /\ OneTimer' /\ NoLateAnswer'
  BY <1>1 DEF Stop, IInv, TypeOK, OneTimer, NoLateAnswer
<1>3. Settles' /\ FewUnderWay' /\ ToldApart' /\ Pacing' /\ (running' => txid' # None)
  BY DEF Stop, IInv, Settles, FewUnderWay, ToldApart, Pacing
<1> QED
  BY <1>2, <1>3 DEF IInv

(***************************************************************************)
(* The network drops an answer for good.                                   *)
(***************************************************************************)
LEMMA LoseIInv == ASSUME IInv, Lose PROVE IInv'
<1>1. PICK a \in under_way : under_way' = under_way \ {a}
  BY DEF Lose
<1>2. TypeOK' /\ OneTimer' /\ NoLateAnswer'
  BY <1>1 DEF Lose, IInv, TypeOK, OneTimer, NoLateAnswer
<1>3. Settles' /\ ToldApart' /\ Pacing' /\ (running' => txid' # None)
  BY <1>1 DEF Lose, IInv, Settles, ToldApart, Pacing
<1>4. FewUnderWay'
  <2>1. under_way' \in SUBSET under_way /\ IsFiniteSet(under_way)
    BY <1>1 DEF IInv, FewUnderWay
  <2>2. IsFiniteSet(under_way') /\ Cardinality(under_way') <= Cardinality(under_way)
    BY <2>1, FS_Subset
  <2>3. /\ Cardinality(under_way') \in Nat /\ Cardinality(under_way) \in Nat
        /\ Cardinality(under_way) <= MaxUnderWay /\ MaxUnderWay \in Nat
    BY <2>1, <2>2, FS_CardinalityType, Dhcp6Assumption DEF IInv, FewUnderWay
  <2> QED
    BY <2>2, <2>3 DEF FewUnderWay
<1> QED
  BY <1>2, <1>3, <1>4 DEF IInv

(***************************************************************************)
(* The server is given other resolvers to name.                            *)
(***************************************************************************)
LEMMA ReconfigureIInv == ASSUME IInv, Reconfigure PROVE IInv'
<1>1. TypeOK' /\ OneTimer' /\ NoLateAnswer'
  BY DEF Reconfigure, IInv, TypeOK, OneTimer, NoLateAnswer
<1>2. Settles' /\ FewUnderWay' /\ ToldApart' /\ Pacing' /\ (running' => txid' # None)
  BY DEF Reconfigure, IInv, Settles, FewUnderWay, ToldApart, Pacing
<1> QED
  BY <1>1, <1>2 DEF IInv

(***************************************************************************)
(* A second passes: what a timer loses the histories gain, up to the       *)
(* floors they are compared with.                                          *)
(***************************************************************************)
LEMMA ElapseIInv == ASSUME IInv, Elapse PROVE IInv'
<1>1. /\ FIRST_RETRANSMIT \in Nat /\ REFRESH_MINIMUM \in Nat /\ None \notin Int
      /\ Gap \in Nat /\ Gap <= FIRST_RETRANSMIT
  BY Dhcp6Assumption DEF Gap
<1>2. /\ quiet \in 0 .. FIRST_RETRANSMIT /\ answered \in 0 .. REFRESH_MINIMUM
      /\ retransmit_in \in Nat \cup {None} /\ refresh_in \in Nat \cup {None}
  BY DEF IInv, TypeOK
<1>3. /\ quiet' = Smaller(quiet + 1, FIRST_RETRANSMIT) /\ quiet' \in 0 .. FIRST_RETRANSMIT
      /\ answered' = Smaller(answered + 1, REFRESH_MINIMUM)
      /\ answered' \in 0 .. REFRESH_MINIMUM
  BY <1>1, <1>2 DEF Elapse, Smaller
<1>4. /\ retransmit_in' = Sooner(retransmit_in) /\ refresh_in' = Sooner(refresh_in)
      /\ retransmit_in' \in Nat \cup {None} /\ refresh_in' \in Nat \cup {None}
      /\ (retransmit_in' = None) = (retransmit_in = None)
      /\ (refresh_in' = None) = (refresh_in = None)
  BY <1>1, <1>2 DEF Elapse, Sooner
<1>5. TypeOK'
  BY <1>3, <1>4 DEF Elapse, IInv, TypeOK
<1>6. OneTimer' /\ NoLateAnswer' /\ Settles'
  BY <1>4 DEF Elapse, IInv, OneTimer, NoLateAnswer, Settles
<1>7. FewUnderWay' /\ ToldApart' /\ (running' => txid' # None)
  BY DEF Elapse, IInv, FewUnderWay, ToldApart
<1>8. retransmit_in' # None =>
        answered' = REFRESH_MINIMUM /\ retransmit_in' + quiet' >= Gap
  <2> SUFFICES ASSUME retransmit_in' # None
               PROVE  answered' = REFRESH_MINIMUM /\ retransmit_in' + quiet' >= Gap
    OBVIOUS
  <2>1. /\ retransmit_in \in Nat /\ answered = REFRESH_MINIMUM
        /\ retransmit_in + quiet >= Gap
    BY <1>2, <1>4 DEF IInv, Pacing
  <2> QED
    BY <1>1, <1>2, <1>3, <1>4, <2>1 DEF Smaller, Sooner
<1>9. refresh_in' # None => /\ refresh_in' + answered' >= REFRESH_MINIMUM
                            /\ quiet' >= Smaller(answered', FIRST_RETRANSMIT)
  <2> SUFFICES ASSUME refresh_in' # None
               PROVE  /\ refresh_in' + answered' >= REFRESH_MINIMUM
                      /\ quiet' >= Smaller(answered', FIRST_RETRANSMIT)
    OBVIOUS
  <2>1. /\ refresh_in \in Nat /\ refresh_in + answered >= REFRESH_MINIMUM
        /\ quiet >= Smaller(answered, FIRST_RETRANSMIT)
    BY <1>2, <1>4 DEF IInv, Pacing
  <2>2. refresh_in' + answered' >= REFRESH_MINIMUM
    BY <1>1, <1>2, <1>3, <1>4, <2>1 DEF Smaller, Sooner
  <2>3. quiet' >= Smaller(answered', FIRST_RETRANSMIT)
    BY <1>1, <1>2, <1>3, <2>1 DEF Smaller
  <2> QED
    BY <2>2, <2>3
<1> QED
  BY <1>5, <1>6, <1>7, <1>8, <1>9 DEF IInv, Pacing

(***************************************************************************)
(* Every step, and every stuttering step, preserves the invariant.         *)
(***************************************************************************)
LEMMA NextIInv == IInv /\ [Next]_vars => IInv'
<1> SUFFICES ASSUME IInv, [Next]_vars PROVE IInv'
  OBVIOUS
<1>1. CASE UNCHANGED vars
  <2>1. TypeOK' /\ OneTimer' /\ NoLateAnswer' /\ (running' => txid' # None)
    BY <1>1 DEF vars, IInv, TypeOK, OneTimer, NoLateAnswer
  <2>2. Settles' /\ FewUnderWay' /\ ToldApart' /\ Pacing'
    BY <1>1 DEF vars, IInv, Settles, next_deadline, FewUnderWay, ToldApart, Pacing
  <2> QED
    BY <2>1, <2>2 DEF IInv
<1> QED
  BY <1>1, StartIInv, TickIInv, StopIInv, ReceiveIInv, LoseIInv, ReconfigureIInv, ElapseIInv
  DEF Next

-----------------------------------------------------------------------------
(***************************************************************************)
(* The invariant holds of every behaviour of the client.                   *)
(***************************************************************************)
THEOREM Invariance == Spec => []IInv
  BY InitIInv, NextIInv, PTL DEF Spec

(***************************************************************************)
(* Types, and the retransmission interval within its bounds.               *)
(***************************************************************************)
THEOREM TypeCorrect == Spec => []TypeOK
<1>1. IInv => TypeOK
  BY DEF IInv
<1> QED
  BY <1>1, Invariance, PTL

(***************************************************************************)
(* A client has exactly one thing scheduled, and what a call does is never *)
(* due again at once.                                                      *)
(***************************************************************************)
THEOREM AlwaysScheduled == Spec => []OneTimerAhead
<1>1. IInv => OneTimerAhead
  BY DEF IInv, OneTimerAhead
<1> QED
  BY <1>1, Invariance, PTL

(***************************************************************************)
(* No answer to an earlier exchange is ever taken, however long answers    *)
(* stay under way and however often they are delivered.                    *)
(***************************************************************************)
THEOREM LateAnswersIgnored == Spec => []NoLateAnswer
<1>1. IInv => NoLateAnswer
  BY DEF IInv
<1> QED
  BY <1>1, Invariance, PTL

(***************************************************************************)
(* The floors between requests, and between an answer and the next request.*)
(***************************************************************************)
THEOREM RequestsPaced == Spec => Paced
<1>1. IInv /\ [Next]_vars =>
        [running /\ call' = "sent" =>
            /\ quiet >= FIRST_RETRANSMIT - FIRST_RETRANSMIT \div 10
            /\ answered >= REFRESH_MINIMUM]_vars
  <2> SUFFICES ASSUME IInv, Next, running, call' = "sent"
               PROVE  /\ quiet >= FIRST_RETRANSMIT - FIRST_RETRANSMIT \div 10
                      /\ answered >= REFRESH_MINIMUM
    OBVIOUS
  <2>1. Due(refresh_in) \/ Due(retransmit_in)
    BY DEF Next, Start, Tick, TickIdle, Receive, Accept, Stop, Lose, Reconfigure, Elapse
  <2>2. /\ FIRST_RETRANSMIT \in Nat /\ REFRESH_MINIMUM \in Nat
        /\ FIRST_RETRANSMIT <= REFRESH_MINIMUM
        /\ quiet \in 0 .. FIRST_RETRANSMIT /\ answered \in 0 .. REFRESH_MINIMUM
    BY Dhcp6Assumption DEF IInv, TypeOK
  <2>3. CASE Due(retransmit_in)
    BY <2>2, <2>3 DEF Due, IInv, Pacing, Gap
  <2>4. CASE Due(refresh_in)
    <3>1. refresh_in = 0 /\ refresh_in + answered >= REFRESH_MINIMUM
          /\ quiet >= Smaller(answered, FIRST_RETRANSMIT)
      BY <2>4 DEF Due, IInv, Pacing
    <3> QED
      BY <2>2, <3>1 DEF Smaller
  <2> QED
    BY <2>1, <2>3, <2>4
<1> QED
  BY <1>1, Invariance, PTL DEF Spec, Paced
=============================================================================
