------------------------ MODULE FieldConnectorProofs ------------------------
(***************************************************************************)
(* The inductive invariants of the connectors that pass readings on one by *)
(* one, and the lemmas on sequences of readings they rest on.  What passes *)
(* a worker is a line: the readings sent, those in its hands and those in  *)
(* the queues before it, none of which is in the place of another.         *)
(* ODBC and FTP read from a source that keeps its rows: what they pass on  *)
(* is in the order of the source, but for what they were made to reread.   *)
(***************************************************************************)
EXTENDS Connectors, TLAPS, SequenceTheorems, FiniteSetTheorems

USE FieldConnectorAssumption

-----------------------------------------------------------------------------
(* Entries chosen from a sequence                                          *)

LEMMA LeastIs ==
    ASSUME NEW S \in SUBSET Nat, S # {}
    PROVE  \E x \in S : \A y \in S : x <= y
  <1> DEFINE R == {ss \in Nat \X Nat : ss[1] < ss[2]}
  <1>1. IsWellFoundedOn(R, Nat)
    BY NatLessThanWellFounded DEF OpToRel
  <1>2. \A y, z \in Nat : <<y, z>> \notin R => z <= y
    OBVIOUS
  <1> HIDE DEF R
  <1>3. PICK x \in S : \A y \in S : ~(<<y, x>> \in R)
    BY <1>1, WFMin
  <1>4. x \in Nat /\ \A y \in S : y \in Nat /\ ~(<<y, x>> \in R)
    BY <1>3
  <1>5. QED
    BY <1>2, <1>3, <1>4

(* Every set of places can be listed in ascending order.                    *)
Listed(I) == \E e \in [1..Cardinality(I) -> I] : Ascending(I, e)

LEMMA ListedNext ==
    ASSUME NEW m \in Nat, \A K \in SUBSET (1..m) : Listed(K), NEW J \in SUBSET (1..m + 1)
    PROVE  Listed(J)
  <1>1. CASE m + 1 \notin J
    <2>1. J \in SUBSET (1..m)
      BY <1>1
    <2>2. QED
      BY <2>1
  <1>2. CASE m + 1 \in J
    <2> DEFINE K == J \ {m + 1}
    <2>1. K \in SUBSET (1..m) /\ IsFiniteSet(K) /\ K \cup {m + 1} = J
      <3>1. K \in SUBSET (1..m) /\ K \cup {m + 1} = J
        BY <1>2
      <3>2. 1 \in Int /\ m \in Int
        OBVIOUS
      <3>3. IsFiniteSet(1..m)
        BY <3>2, FS_Interval
      <3>4. QED
        BY <3>1, <3>3, FS_Subset
    <2>2. Cardinality(K) \in Nat /\ Cardinality(J) = Cardinality(K) + 1
      BY <2>1, FS_CardinalityType, FS_AddElement
    <2>3. PICK e \in [1..Cardinality(K) -> K] : Ascending(K, e)
      BY <2>1 DEF Listed
    <2> DEFINE c == Cardinality(K)
               f == [i \in 1..c + 1 |-> IF i <= c THEN e[i] ELSE m + 1]
    <2>4. \A i \in 1..c : e[i] \in K /\ e[i] \in 1..m
      BY <2>1, <2>3
    <2>5. \A x \in K : \E i \in 1..c : e[i] = x
      BY <2>3 DEF Ascending, Range
    <2>6. \A j, k \in 1..c : j < k => e[j] < e[k]
      BY <2>3 DEF Ascending
    <2> HIDE DEF K
    <2>7. f \in [1..c + 1 -> J]
      BY <2>1, <2>2, <2>4
    <2>8. \A x \in J : \E i \in 1..c + 1 : f[i] = x
      BY <2>1, <2>2, <2>5
    <2>9. \A j, k \in 1..c + 1 : j < k => f[j] < f[k]
      BY <2>2, <2>4, <2>6
    <2> HIDE DEF f
    <2>10. DOMAIN f = 1..c + 1
      BY <2>7
    <2>13. Range(f) = J
      <3>1. \A x \in J : x \in Range(f)
        BY <2>8, <2>10 DEF Range
      <3>2. \A x \in Range(f) : x \in J
        BY <2>7, <2>10 DEF Range
      <3>3. QED
        BY <3>1, <3>2
    <2>11. Ascending(J, f)
      BY <2>9, <2>10, <2>13 DEF Ascending
    <2>12. QED
      BY <2>2, <2>7, <2>11 DEF Listed
  <1>3. QED
    BY <1>1, <1>2

LEMMA AllListed ==
    ASSUME NEW n \in Nat
    PROVE  \A I \in SUBSET (1..n) : Listed(I)
  <1> DEFINE S == {m \in Nat : ~ \A I \in SUBSET (1..m) : Listed(I)}
  <1>1. SUFFICES ASSUME S # {} PROVE FALSE
    OBVIOUS
  <1>2. S \in SUBSET Nat
    OBVIOUS
  <1> HIDE DEF S
  <1>3. PICK m \in S : \A y \in S : m <= y
    BY <1>1, <1>2, LeastIs
  <1>4. m \in Nat /\ ~ \A I \in SUBSET (1..m) : Listed(I)
    BY <1>3 DEF S
  <1>5. CASE m = 0
    <2>1. PICK I \in SUBSET (1..m) : ~Listed(I)
      BY <1>4
    <2>2. I = {} /\ Cardinality(I) = 0
      <3>1. I = {}
        BY <1>5, <2>1
      <3>2. QED
        BY <3>1, FS_EmptySet
    <2>3. <<>> \in [1..0 -> {}] /\ Ascending({}, <<>>)
      BY DEF Ascending, Range
    <2>4. QED
      BY <2>1, <2>2, <2>3 DEF Listed
  <1>6. CASE m # 0
    <2>1. m - 1 \in Nat /\ m - 1 \notin S /\ (m - 1) + 1 = m
      BY <1>3, <1>4, <1>6
    <2>2. \A I \in SUBSET (1..m - 1) : Listed(I)
      BY <2>1 DEF S
    <2>3. \A I \in SUBSET (1..(m - 1) + 1) : Listed(I)
      BY <2>1, <2>2, ListedNext
    <2>4. QED
      BY <1>4, <2>1, <2>3
  <1>7. QED
    BY <1>5, <1>6

(* t is a part of s, in the same order.                                     *)
Part(t, s) ==
    \E e \in [DOMAIN t -> DOMAIN s] :
        /\ \A j, k \in DOMAIN t : j < k => e[j] < e[k]
        /\ \A k \in DOMAIN t : t[k] = s[e[k]]

(* What is chosen is a part, and holds each entry of a chosen place.        *)
LEMMA ChosenIs ==
    ASSUME NEW S, NEW s \in Seq(S), NEW I \in SUBSET (DOMAIN s)
    PROVE  /\ Chosen(s, I) \in Seq(S) /\ Part(Chosen(s, I), s)
           /\ \A k \in DOMAIN Chosen(s, I) : \E i \in I : Chosen(s, I)[k] = s[i]
           /\ \A i \in I : \E k \in DOMAIN Chosen(s, I) : Chosen(s, I)[k] = s[i]
  <1> DEFINE e == CHOOSE e \in [1..Cardinality(I) -> I] : Ascending(I, e)
             t == [k \in DOMAIN e |-> s[e[k]]]
  <1>1. Len(s) \in Nat /\ DOMAIN s = 1..Len(s)
    OBVIOUS
  <1>2. I \in SUBSET (1..Len(s)) /\ IsFiniteSet(I)
    <2>1. I \in SUBSET (1..Len(s)) /\ 1 \in Int /\ Len(s) \in Int
      BY <1>1
    <2>2. IsFiniteSet(1..Len(s))
      BY <2>1, FS_Interval
    <2>3. QED
      BY <2>1, <2>2, FS_Subset
  <1>3. Cardinality(I) \in Nat /\ Listed(I)
    BY <1>1, <1>2, AllListed, FS_CardinalityType
  <1>4. e \in [1..Cardinality(I) -> I] /\ Ascending(I, e)
    BY <1>3, Zenon DEF Listed
  <1>5. t = Chosen(s, I)
    BY Zenon DEF Chosen
  <1> HIDE DEF e
  <1>6. \A k \in 1..Cardinality(I) : e[k] \in I /\ s[e[k]] \in S
    BY <1>1, <1>2, <1>4
  <1>7. DOMAIN e = 1..Cardinality(I)
    BY <1>4
  <1>8. t \in Seq(S) /\ DOMAIN t = 1..Cardinality(I)
    BY <1>3, <1>6, <1>7, IsASeq
  <1>9. \A k \in DOMAIN t : t[k] = s[e[k]] /\ e[k] \in I
    BY <1>6, <1>7, <1>8
  <1>10. \A i \in I : \E k \in DOMAIN t : e[k] = i
    BY <1>4, <1>7, <1>8 DEF Ascending, Range
  <1>11. \A j, k \in DOMAIN t : j < k => e[j] < e[k]
    BY <1>4, <1>7, <1>8 DEF Ascending
  <1>12. e \in [DOMAIN t -> DOMAIN s]
    BY <1>4, <1>7, <1>8, <1>9, <1>2, <1>1
  <1> HIDE DEF t
  <1>13. Part(t, s)
    BY <1>9, <1>11, <1>12 DEF Part
  <1>14. \A i \in I : \E k \in DOMAIN t : t[k] = s[i]
    BY <1>9, <1>10
  <1>15. QED
    BY <1>5, <1>8, <1>9, <1>13, <1>14

-----------------------------------------------------------------------------
(* Readings on their way, in the order in which they will reach the gateway *)

\* Readings of which the first m were made.
Samples(m) == [dev : Devices, n : 1..m, bad : BOOLEAN, late : BOOLEAN]

\* x comes before y; unless o, it is only another reading.
Earlier(o, x, y) == x.n # y.n /\ (o /\ x.dev = y.dev => x.n < y.n)
Sorted(o, s) == \A i, j \in DOMAIN s : i < j => Earlier(o, s[i], s[j])
Behind(o, s, t) == \A i \in DOMAIN s, j \in DOMAIN t : Earlier(o, s[i], t[j])
Gone(D, s) == \A x \in D, i \in DOMAIN s : x.n # s[i].n

\* What was sent (a), what a worker holds (b), the queues before it (c, d), and what
\* was thrown away (D).
Line(o, m, D, a, b, c, d) ==
    /\ a \in Seq(Samples(m)) /\ b \in Seq(Samples(m))
    /\ c \in Seq(Samples(m)) /\ d \in Seq(Samples(m)) /\ D \subseteq Samples(m)
    /\ Sorted(o, a) /\ Sorted(o, b) /\ Sorted(o, c) /\ Sorted(o, d)
    /\ Behind(o, a, b) /\ Behind(o, a, c) /\ Behind(o, a, d)
    /\ Behind(o, b, c) /\ Behind(o, b, d) /\ Behind(o, c, d)
    /\ Gone(D, a) /\ Gone(D, b) /\ Gone(D, c) /\ Gone(D, d)

LEMMA PartOf ==
    ASSUME NEW o \in BOOLEAN, NEW m \in Nat, NEW s \in Seq(Samples(m)), NEW t \in Seq(Samples(m)),
           Part(t, s), Sorted(o, s)
    PROVE  /\ Sorted(o, t)
           /\ \A r : (Behind(o, s, r) => Behind(o, t, r)) /\ (Behind(o, r, s) => Behind(o, r, t))
           /\ \A D : Gone(D, s) => Gone(D, t)
           /\ \A E : E \subseteq Range(s) /\ E \cap Range(t) = {} => Gone(E, t)
  <1>1. PICK e \in [DOMAIN t -> DOMAIN s] :
               /\ \A j, k \in DOMAIN t : j < k => e[j] < e[k]
               /\ \A k \in DOMAIN t : t[k] = s[e[k]]
    BY DEF Part
  <1>2. Sorted(o, t)
    BY <1>1 DEF Sorted
  <1>3. \A r : (Behind(o, s, r) => Behind(o, t, r)) /\ (Behind(o, r, s) => Behind(o, r, t))
    BY <1>1 DEF Behind
  <1>4. \A D : Gone(D, s) => Gone(D, t)
    BY <1>1 DEF Gone
  <1>5. ASSUME NEW E, E \subseteq Range(s), E \cap Range(t) = {} PROVE Gone(E, t)
    <2>1. SUFFICES ASSUME NEW x \in E, NEW k \in DOMAIN t PROVE x.n # t[k].n
      BY DEF Gone
    <2>2. PICK i \in DOMAIN s : x = s[i]
      BY <1>5 DEF Range
    <2>3. x # t[k] /\ t[k] = s[e[k]] /\ e[k] \in DOMAIN s
      BY <1>1, <1>5 DEF Range
    <2>4. i # e[k]
      BY <2>2, <2>3
    <2>5. i \in Int /\ e[k] \in Int
      BY <2>2, <2>3
    <2>6. QED
      <3>1. Earlier(o, s[i], s[e[k]]) \/ Earlier(o, s[e[k]], s[i])
        <4>1. i < e[k] \/ e[k] < i
          BY <2>4, <2>5
        <4>2. QED
          BY <2>2, <2>3, <4>1 DEF Sorted
      <3>2. QED
        BY <2>2, <2>3, <3>1 DEF Earlier
  <1>6. QED
    BY <1>2, <1>3, <1>4, <1>5

(* The pieces of a sequence.                                                *)
LEMMA PrefixAndRest ==
    ASSUME NEW o \in BOOLEAN, NEW m \in Nat, NEW s \in Seq(Samples(m)), NEW n \in 1..Len(s),
           Sorted(o, s)
    PROVE  /\ SubSeq(s, 1, n) \in Seq(Samples(m)) /\ SubSeq(s, n + 1, Len(s)) \in Seq(Samples(m))
           /\ Sorted(o, SubSeq(s, 1, n)) /\ Sorted(o, SubSeq(s, n + 1, Len(s)))
           /\ Behind(o, SubSeq(s, 1, n), SubSeq(s, n + 1, Len(s)))
           /\ \A r : Behind(o, r, s) => Behind(o, r, SubSeq(s, 1, n)) /\ Behind(o, r, SubSeq(s, n + 1, Len(s)))
           /\ \A r : Behind(o, s, r) => Behind(o, SubSeq(s, 1, n), r) /\ Behind(o, SubSeq(s, n + 1, Len(s)), r)
           /\ \A D : Gone(D, s) => Gone(D, SubSeq(s, 1, n)) /\ Gone(D, SubSeq(s, n + 1, Len(s)))
           /\ Range(SubSeq(s, 1, n)) \subseteq Range(s)
  <1> DEFINE p == SubSeq(s, 1, n)
             q == SubSeq(s, n + 1, Len(s))
  <1>1. /\ p \in Seq(Samples(m)) /\ DOMAIN p = 1..n /\ \A i \in 1..n : p[i] = s[i]
        /\ q \in Seq(Samples(m)) /\ DOMAIN q = 1..Len(s) - n /\ \A i \in 1..Len(s) - n : q[i] = s[n + i]
    OBVIOUS
  <1>2. DOMAIN s = 1..Len(s) /\ Len(s) \in Nat /\ n \in Nat /\ n <= Len(s)
    OBVIOUS
  <1> HIDE DEF p, q
  <1>8. \A i \in DOMAIN p : i \in DOMAIN s /\ i <= n /\ i \in Int /\ p[i] = s[i]
    <2>1. DOMAIN p = 1..n /\ \A i \in 1..n : p[i] = s[i]
      BY <1>1
    <2>2. \A i \in 1..n : i \in DOMAIN s /\ i <= n /\ i \in Int
      BY <1>2
    <2>3. QED
      BY <2>1, <2>2
  <1>9. \A i \in DOMAIN q : i \in Nat \ {0} /\ n + i \in DOMAIN s /\ q[i] = s[n + i]
    <2>1. DOMAIN q = 1..Len(s) - n /\ \A i \in 1..Len(s) - n : q[i] = s[n + i]
      BY <1>1
    <2>2. \A i \in 1..Len(s) - n : i \in Nat \ {0} /\ n + i \in DOMAIN s
      BY <1>2
    <2>3. QED
      BY <2>1, <2>2
  <1>3. Sorted(o, p) /\ Sorted(o, q) /\ Behind(o, p, q)
    <2>1. Sorted(o, p)
      BY <1>8 DEF Sorted
    <2>2. Sorted(o, q)
      BY <1>2, <1>9 DEF Sorted
    <2>3. Behind(o, p, q)
      <3>1. \A i \in DOMAIN p, j \in DOMAIN q : i < n + j
        BY <1>2, <1>8, <1>9
      <3>2. QED
        BY <1>8, <1>9, <3>1 DEF Sorted, Behind
    <2>4. QED
      BY <2>1, <2>2, <2>3
  <1>4. \A r : (Behind(o, r, s) => Behind(o, r, p) /\ Behind(o, r, q))
               /\ (Behind(o, s, r) => Behind(o, p, r) /\ Behind(o, q, r))
    BY <1>8, <1>9 DEF Behind
  <1>5. \A D : Gone(D, s) => Gone(D, p) /\ Gone(D, q)
    BY <1>8, <1>9 DEF Gone
  <1>6. Range(p) \subseteq Range(s)
    BY <1>8 DEF Range
  <1>7. QED
    BY <1>1, <1>3, <1>4, <1>5, <1>6 DEF p, q

(* Two sequences one after the other.                                       *)
LEMMA Joined ==
    ASSUME NEW o \in BOOLEAN, NEW m \in Nat, NEW s \in Seq(Samples(m)), NEW t \in Seq(Samples(m))
    PROVE  /\ s \o t \in Seq(Samples(m))
           /\ Sorted(o, s) /\ Sorted(o, t) /\ Behind(o, s, t) => Sorted(o, s \o t)
           /\ \A r : Behind(o, s, r) /\ Behind(o, t, r) => Behind(o, s \o t, r)
           /\ \A r : Behind(o, r, s) /\ Behind(o, r, t) => Behind(o, r, s \o t)
           /\ \A D : Gone(D, s) /\ Gone(D, t) => Gone(D, s \o t)
  <1> DEFINE u == s \o t
  <1>1. /\ u \in Seq(Samples(m)) /\ DOMAIN u = 1..Len(s) + Len(t)
        /\ \A i \in 1..Len(s) + Len(t) : u[i] = IF i <= Len(s) THEN s[i] ELSE t[i - Len(s)]
    OBVIOUS
  <1>2. /\ DOMAIN s = 1..Len(s) /\ Len(s) \in Nat
        /\ DOMAIN t = 1..Len(t) /\ Len(t) \in Nat
    OBVIOUS
  <1> HIDE DEF u
  <1>3. \A i \in DOMAIN u : (i \in DOMAIN s /\ u[i] = s[i])
                            \/ (i > Len(s) /\ i - Len(s) \in DOMAIN t /\ u[i] = t[i - Len(s)])
    BY <1>1, <1>2
  <1>4. Sorted(o, s) /\ Sorted(o, t) /\ Behind(o, s, t) => Sorted(o, u)
    BY <1>1, <1>2, <1>3 DEF Sorted, Behind
  <1>5. \A r : Behind(o, s, r) /\ Behind(o, t, r) => Behind(o, u, r)
    BY <1>3 DEF Behind
  <1>6. \A r : Behind(o, r, s) /\ Behind(o, r, t) => Behind(o, r, u)
    BY <1>3 DEF Behind
  <1>7. \A D : Gone(D, s) /\ Gone(D, t) => Gone(D, u)
    BY <1>3 DEF Gone
  <1>8. QED
    BY <1>1, <1>4, <1>5, <1>6, <1>7 DEF u

(* The first n entries of a queue are taken, or become a part of themselves  *)
(* in the next stage, and what is missing is thrown away.                    *)
LEMMA EmptyIs ==
    ASSUME NEW o
    PROVE  /\ \A m : <<>> \in Seq(Samples(m))
           /\ Sorted(o, <<>>) /\ \A r : Behind(o, <<>>, r) /\ Behind(o, r, <<>>)
           /\ \A D : Gone(D, <<>>)
  BY DEF Sorted, Behind, Gone

LEMMA Thrown ==
    ASSUME NEW D, NEW E, NEW s, Gone(D, s), Gone(E, s)
    PROVE  Gone(D \cup E, s)
  BY DEF Gone

(* What is thrown away of t comes neither before nor after.                  *)
LEMMA OutOf ==
    ASSUME NEW o, NEW s, NEW E, E \subseteq Range(s)
    PROVE  \A r : Behind(o, r, s) \/ Behind(o, s, r) => Gone(E, r)
  BY DEF Behind, Gone, Range, Earlier

LEMMA FirstTaken ==
    ASSUME NEW o \in BOOLEAN, NEW m \in Nat, NEW D, NEW a, NEW c, NEW d, NEW n \in 1..Len(c),
           Line(o, m, D, a, <<>>, c, d)
    PROVE  Line(o, m, D, a, SubSeq(c, 1, n), SubSeq(c, n + 1, Len(c)), d)
  <1>1. c \in Seq(Samples(m)) /\ Sorted(o, c)
    BY DEF Line
  <1>2. QED
    BY <1>1, PrefixAndRest DEF Line

LEMMA FirstTakenFar ==
    ASSUME NEW o \in BOOLEAN, NEW m \in Nat, NEW D, NEW a, NEW d, NEW n \in 1..Len(d),
           Line(o, m, D, a, <<>>, <<>>, d)
    PROVE  Line(o, m, D, a, SubSeq(d, 1, n), <<>>, SubSeq(d, n + 1, Len(d)))
  <1>1. d \in Seq(Samples(m)) /\ Sorted(o, d)
    BY DEF Line
  <1>2. QED
    BY <1>1, PrefixAndRest, EmptyIs DEF Line

LEMMA PartGiven ==
    ASSUME NEW o \in BOOLEAN, NEW m \in Nat, NEW D, NEW a, NEW b, NEW c, NEW d,
           NEW t \in Seq(Samples(m)), Part(t, b), NEW E, E \subseteq Range(b), E \cap Range(t) = {},
           Line(o, m, D, a, b, c, d)
    PROVE  Line(o, m, D \cup E, a \o t, <<>>, c, d)
  <1>1. /\ a \in Seq(Samples(m)) /\ b \in Seq(Samples(m)) /\ Sorted(o, b)
        /\ c \in Seq(Samples(m)) /\ d \in Seq(Samples(m)) /\ D \subseteq Samples(m)
    BY DEF Line
  <1>2. /\ Sorted(o, t) /\ Behind(o, a, t) /\ Behind(o, t, c) /\ Behind(o, t, d)
        /\ Gone(D, t) /\ Gone(E, t)
    BY <1>1, PartOf DEF Line
  <1>3. Gone(E, a) /\ Gone(E, c) /\ Gone(E, d)
    BY OutOf DEF Line
  <1>4. Gone(D \cup E, a) /\ Gone(D \cup E, c) /\ Gone(D \cup E, d) /\ Gone(D \cup E, t)
    BY <1>2, <1>3, Thrown DEF Line
  <1>5. E \subseteq Samples(m)
    BY <1>1 DEF Range
  <1>6. /\ a \o t \in Seq(Samples(m)) /\ Sorted(o, a \o t) /\ Behind(o, a \o t, c)
        /\ Behind(o, a \o t, d) /\ Gone(D \cup E, a \o t)
    BY <1>1, <1>2, <1>4, Joined DEF Line
  <1>7. QED
    BY <1>1, <1>4, <1>5, <1>6, EmptyIs DEF Line

LEMMA PartConverted ==
    ASSUME NEW o \in BOOLEAN, NEW m \in Nat, NEW D, NEW a, NEW b, NEW c, NEW d, NEW n \in 1..Len(d),
           NEW t \in Seq(Samples(m)), Part(t, SubSeq(d, 1, n)),
           NEW E, E \subseteq Range(SubSeq(d, 1, n)), E \cap Range(t) = {},
           Line(o, m, D, a, b, c, d)
    PROVE  Line(o, m, D \cup E, a, b, c \o t, SubSeq(d, n + 1, Len(d)))
  <1> DEFINE s == SubSeq(d, 1, n)
             r == SubSeq(d, n + 1, Len(d))
  <1>1. /\ a \in Seq(Samples(m)) /\ b \in Seq(Samples(m)) /\ Sorted(o, d)
        /\ c \in Seq(Samples(m)) /\ d \in Seq(Samples(m)) /\ D \subseteq Samples(m)
    BY DEF Line
  <1>2. /\ s \in Seq(Samples(m)) /\ r \in Seq(Samples(m)) /\ Sorted(o, s) /\ Sorted(o, r)
        /\ Behind(o, s, r) /\ Gone(D, s) /\ Gone(D, r)
        /\ Behind(o, a, s) /\ Behind(o, b, s) /\ Behind(o, c, s)
        /\ Behind(o, a, r) /\ Behind(o, b, r) /\ Behind(o, c, r)
    BY <1>1, PrefixAndRest DEF Line
  <1> HIDE DEF s, r
  <1>3. Part(t, s) /\ E \subseteq Range(s)
    BY DEF s
  <1>4. /\ Sorted(o, t) /\ Behind(o, a, t) /\ Behind(o, b, t) /\ Behind(o, c, t) /\ Behind(o, t, r)
        /\ Gone(D, t) /\ Gone(E, t)
    BY <1>2, <1>3, PartOf
  <1>5. Gone(E, a) /\ Gone(E, b) /\ Gone(E, c) /\ Gone(E, r)
    BY <1>2, <1>3, OutOf
  <1>6. /\ Gone(D \cup E, a) /\ Gone(D \cup E, b) /\ Gone(D \cup E, c) /\ Gone(D \cup E, r)
        /\ Gone(D \cup E, t)
    BY <1>2, <1>4, <1>5, Thrown DEF Line
  <1>7. E \subseteq Samples(m)
    BY <1>2, <1>3 DEF Range
  <1>8. /\ c \o t \in Seq(Samples(m)) /\ Sorted(o, c \o t) /\ Behind(o, c \o t, r)
        /\ Behind(o, a, c \o t) /\ Behind(o, b, c \o t) /\ Gone(D \cup E, c \o t)
    BY <1>1, <1>2, <1>4, <1>6, Joined DEF Line
  <1>9. QED
    BY <1>1, <1>2, <1>6, <1>7, <1>8 DEF Line, r

(* A new reading, and the passing of readings that are made elsewhere.       *)
LEMMA SamplesGrow ==
    ASSUME NEW m \in Nat, NEW k \in Nat, m <= k
    PROVE  Samples(m) \subseteq Samples(k) /\ Seq(Samples(m)) \subseteq Seq(Samples(k))
  <1>1. 1..m \subseteq 1..k
    OBVIOUS
  <1>2. Samples(m) \subseteq Samples(k)
    BY <1>1 DEF Samples
  <1>3. QED
    BY <1>2, SeqMonotonic

LEMMA LineGrows ==
    ASSUME NEW o, NEW m \in Nat, NEW k \in Nat, m <= k, NEW D, NEW a, NEW b, NEW c, NEW d,
           Line(o, m, D, a, b, c, d)
    PROVE  Line(o, k, D, a, b, c, d)
  BY SamplesGrow DEF Line

LEMMA NewIs ==
    ASSUME NEW o, NEW m \in Nat, NEW x \in Samples(m + 1), x.n = m + 1
    PROVE  /\ <<x>> \in Seq(Samples(m + 1)) /\ Sorted(o, <<x>>)
           /\ \A s \in Seq(Samples(m)) : Behind(o, s, <<x>>)
           /\ \A D \in SUBSET Samples(m) : Gone(D, <<x>>)
  <1>1. <<x>> \in Seq(Samples(m + 1)) /\ DOMAIN <<x>> = {1} /\ <<x>>[1] = x
    OBVIOUS
  <1>2. Sorted(o, <<x>>)
    BY <1>1 DEF Sorted
  <1>3. \A y \in Samples(m) : Earlier(o, y, x)
    BY DEF Samples, Earlier
  <1>4. \A s \in Seq(Samples(m)) : Behind(o, s, <<x>>)
    BY <1>1, <1>3 DEF Behind
  <1>5. \A D \in SUBSET Samples(m) : Gone(D, <<x>>)
    BY <1>1, <1>3 DEF Gone, Earlier
  <1>6. QED
    BY <1>1, <1>2, <1>4, <1>5

LEMMA NewLast ==
    ASSUME NEW o \in BOOLEAN, NEW m \in Nat, NEW D, NEW a, NEW b, NEW c, NEW d, NEW x \in Samples(m + 1),
           x.n = m + 1, Line(o, m, D, a, b, c, d)
    PROVE  Line(o, m + 1, D, a, b, c, Append(d, x))
  <1>1. /\ a \in Seq(Samples(m)) /\ b \in Seq(Samples(m)) /\ D \in SUBSET Samples(m)
        /\ c \in Seq(Samples(m)) /\ d \in Seq(Samples(m))
    BY DEF Line
  <1>2. Line(o, m + 1, D, a, b, c, d)
    BY LineGrows
  <1>3. Append(d, x) = d \o <<x>>
    BY <1>1, <1>2 DEF Line
  <1>4. /\ <<x>> \in Seq(Samples(m + 1)) /\ Sorted(o, <<x>>) /\ Gone(D, <<x>>)
        /\ Behind(o, a, <<x>>) /\ Behind(o, b, <<x>>) /\ Behind(o, c, <<x>>) /\ Behind(o, d, <<x>>)
    BY <1>1, NewIs
  <1>5. m + 1 \in Nat /\ d \in Seq(Samples(m + 1))
    BY <1>2 DEF Line
  <1>6. /\ d \o <<x>> \in Seq(Samples(m + 1)) /\ Sorted(o, d \o <<x>>) /\ Gone(D, d \o <<x>>)
        /\ Behind(o, a, d \o <<x>>) /\ Behind(o, b, d \o <<x>>) /\ Behind(o, c, d \o <<x>>)
    BY <1>2, <1>4, <1>5, Joined DEF Line
  <1>7. QED
    BY <1>2, <1>3, <1>6 DEF Line

LEMMA NewNearer ==
    ASSUME NEW o \in BOOLEAN, NEW m \in Nat, NEW D, NEW a, NEW b, NEW c, NEW x \in Samples(m + 1),
           x.n = m + 1, Line(o, m, D, a, b, c, <<>>)
    PROVE  Line(o, m + 1, D, a, b, Append(c, x), <<>>)
  <1>1. Line(o, m, D, a, b, <<>>, c)
    BY EmptyIs DEF Line
  <1>2. Line(o, m + 1, D, a, b, <<>>, Append(c, x))
    BY <1>1, NewLast
  <1>3. QED
    BY <1>2, EmptyIs DEF Line

LEMMA NewHeld ==
    ASSUME NEW o \in BOOLEAN, NEW m \in Nat, NEW D, NEW a, NEW x \in Samples(m + 1),
           x.n = m + 1, Line(o, m, D, a, <<>>, <<>>, <<>>)
    PROVE  Line(o, m + 1, D, a, <<x>>, <<>>, <<>>)
  <1>1. Line(o, m + 1, D, a, <<>>, <<>>, Append(<<>>, x))
    BY NewLast
  <1>2. Append(<<>>, x) = <<x>>
    OBVIOUS
  <1>3. QED
    BY <1>1, <1>2, EmptyIs DEF Line

(* What can be converted, and what cannot.                                   *)
LEMMA GoodOnes ==
    ASSUME NEW m \in Nat, NEW s \in Seq(Samples(m))
    PROVE  /\ Good(s) \in Seq(Samples(m)) /\ Part(Good(s), s)
           /\ \A x \in Range(Good(s)) : ~x.bad /\ x \in Range(s)
           /\ Bad(s) \subseteq Range(s) /\ Bad(s) \cap Range(Good(s)) = {}
           /\ Bad(s) \subseteq Samples(m) /\ \A x \in Bad(s) : x.bad
  <1> DEFINE I == {k \in DOMAIN s : ~s[k].bad}
  <1>1. I \in SUBSET (DOMAIN s)
    OBVIOUS
  <1>2. /\ Good(s) \in Seq(Samples(m)) /\ Part(Good(s), s)
        /\ \A k \in DOMAIN Good(s) : \E i \in I : Good(s)[k] = s[i]
    <2>1. Good(s) = Chosen(s, I)
      BY Zenon DEF Good
    <2> HIDE DEF I
    <2>2. QED
      BY <1>1, <2>1, ChosenIs
  <1>3. \A x \in Range(Good(s)) : ~x.bad /\ x \in Range(s)
    BY <1>2 DEF Range
  <1>4. Range(s) \subseteq Samples(m)
    BY DEF Range
  <1>5. QED
    BY <1>2, <1>3, <1>4 DEF Bad

-----------------------------------------------------------------------------
(* The state of a connector                                                *)

PCs == {"idle", "busy", "scan", "look", "loop", "ended"}
Names == Devices \cup {Nobody}
Entry(m) == [s : Samples(m), as : Names]
Reasons ==
    {"converter", "batch", "uncached", "undealt", "unmapped", "full", "merged", "connection", "buffer"}
Loss(m) == [s : Samples(m), why : Reasons]

(* An RPC as it may be: replied to as often as its handling explains.        *)
Replied(r) ==
    /\ DOMAIN r = {"st", "replies", "how"} /\ r.replies \in {0, 1, 2}
    /\ r.st \in {"done", "thread ended"} =>
          /\ r.replies = 0 => r.how = "silent" \/ r.st = "thread ended"
          /\ r.replies = 2 => r.how \in {"error", "timeout", "refused", "twice", "reserved"}

Outer ==
    /\ kind \in Kinds /\ stopped \in BOOLEAN /\ link \in [Devices -> BOOLEAN]
    /\ session \subseteq Devices /\ events \in 0..MaxEvents /\ Replied(rpc)
Inner ==
    /\ pc \in [Workers -> PCs] /\ DOMAIN hand = Workers /\ DOMAIN queue = Queues
    /\ known \subseteq Names /\ made \in 0..MaxSamples
    /\ sent \in Seq(Entry(made)) /\ lost \subseteq Loss(made)
World == Outer /\ Inner

Given == [k \in DOMAIN sent |-> sent[k].s]
Dropped == {l.s : l \in lost}

\* What passes a worker w that holds one batch at a time.
LineInv(w) ==
    /\ Line(TRUE, made, Dropped, Given, hand[w], queue.save, queue.convert)
    /\ pc[w] # "busy" => hand[w] = <<>>

\* What was read after close() stays in the queues.
Timely(s) == \A k \in DOMAIN s : ~s[k].late
TimelyInv(w) ==
    /\ Timely(Given) /\ Timely(hand[w])
    /\ ~stopped => Timely(queue.save) /\ Timely(queue.convert)

OwnNames == \A k \in DOMAIN sent : sent[k].as = sent[k].s.dev
Unconverted == \A l \in lost : l.why = "converter" /\ l.s.bad

LEMMA Passed ==
    ASSUME NEW m \in Nat, sent \in Seq(Entry(m)), lost \subseteq Loss(m)
    PROVE  /\ Given \in Seq(Samples(m)) /\ DOMAIN Given = DOMAIN sent /\ Len(Given) = Len(sent)
           /\ \A k \in DOMAIN sent : Given[k] = sent[k].s
           /\ Dropped \subseteq Samples(m)
  <1>1. \A k \in 1..Len(sent) : sent[k] \in Entry(m) /\ sent[k].s \in Samples(m)
    <2>1. \A k \in 1..Len(sent) : sent[k] \in Entry(m)
      OBVIOUS
    <2>2. QED
      BY <2>1 DEF Entry
  <1>2. DOMAIN sent = 1..Len(sent) /\ Len(sent) \in Nat
    OBVIOUS
  <1>3. Given \in Seq(Samples(m)) /\ DOMAIN Given = DOMAIN sent
    BY <1>1, <1>2, IsASeq DEF Given
  <1>4. Dropped \subseteq Samples(m)
    BY DEF Dropped, Loss
  <1>5. QED
    BY <1>3, <1>4 DEF Given

LEMMA Concatenated ==
    ASSUME NEW S, NEW p \in Seq(S), NEW q \in Seq(S)
    PROVE  /\ p \o q \in Seq(S) /\ DOMAIN (p \o q) = 1..Len(p) + Len(q)
           /\ \A k \in 1..Len(p) : (p \o q)[k] = p[k] /\ k \in DOMAIN (p \o q)
           /\ \A k \in 1..Len(q) : (p \o q)[Len(p) + k] = q[k] /\ Len(p) + k \in DOMAIN (p \o q)
           /\ \A k \in DOMAIN (p \o q) : k \in 1..Len(p) \/ \E j \in 1..Len(q) : k = Len(p) + j
  <1>1. /\ p \o q \in Seq(S) /\ Len(p \o q) = Len(p) + Len(q)
        /\ \A k \in 1..Len(p) + Len(q) : (p \o q)[k] = IF k <= Len(p) THEN p[k] ELSE q[k - Len(p)]
    OBVIOUS
  <1>2. Len(p) \in Nat /\ Len(q) \in Nat
    OBVIOUS
  <1>3. DOMAIN (p \o q) = 1..Len(p) + Len(q)
    BY <1>1, <1>2
  <1>4. \A k \in 1..Len(p) : k \in 1..Len(p) + Len(q) /\ k <= Len(p)
    BY <1>2
  <1>5. \A k \in 1..Len(q) : Len(p) + k \in 1..Len(p) + Len(q) /\ ~(Len(p) + k <= Len(p)) /\ (Len(p) + k) - Len(p) = k
    BY <1>2
  <1>6. \A k \in 1..Len(p) + Len(q) : k \in 1..Len(p) \/ (k - Len(p) \in 1..Len(q) /\ k = Len(p) + (k - Len(p)))
    BY <1>2
  <1> DEFINE u == p \o q
  <1>7. /\ u \in Seq(S) /\ DOMAIN u = 1..Len(p) + Len(q)
        /\ \A k \in 1..Len(p) + Len(q) : u[k] = IF k <= Len(p) THEN p[k] ELSE q[k - Len(p)]
    BY <1>1, <1>3
  <1> HIDE DEF u
  <1>8. /\ \A k \in 1..Len(p) : u[k] = p[k] /\ k \in DOMAIN u
        /\ \A k \in 1..Len(q) : u[Len(p) + k] = q[k] /\ Len(p) + k \in DOMAIN u
        /\ \A k \in DOMAIN u : k \in 1..Len(p) \/ \E j \in 1..Len(q) : k = Len(p) + j
    BY <1>4, <1>5, <1>6, <1>7
  <1>9. QED
    BY <1>7, <1>8 DEF u

(* What is sent of a sequence of entries.                                   *)
Parts(p) == [k \in DOMAIN p |-> p[k].s]

LEMMA PartsConcatenated ==
    ASSUME NEW m, NEW p \in Seq(Entry(m)), NEW q \in Seq(Entry(m))
    PROVE  /\ Parts(p) \in Seq(Samples(m)) /\ Parts(q) \in Seq(Samples(m))
           /\ Len(Parts(p)) = Len(p) /\ Parts(p \o q) = Parts(p) \o Parts(q)
  <1>1. ASSUME NEW r \in Seq(Entry(m))
        PROVE  /\ Parts(r) \in Seq(Samples(m)) /\ Len(Parts(r)) = Len(r) /\ DOMAIN Parts(r) = 1..Len(r)
               /\ \A k \in 1..Len(r) : Parts(r)[k] = r[k].s
    <2>1. DOMAIN r = 1..Len(r) /\ Len(r) \in Nat /\ \A k \in 1..Len(r) : r[k] \in Entry(m)
      OBVIOUS
    <2>2. \A k \in 1..Len(r) : r[k].s \in Samples(m)
      BY <2>1 DEF Entry
    <2>3. Parts(r) = [k \in 1..Len(r) |-> r[k].s]
      BY <2>1 DEF Parts
    <2>4. QED
      BY <2>1, <2>2, <2>3, IsASeq
  <1> DEFINE u == p \o q
             v == Parts(p) \o Parts(q)
  <1>2. /\ u \in Seq(Entry(m)) /\ DOMAIN u = 1..Len(p) + Len(q)
        /\ \A k \in 1..Len(p) : u[k] = p[k] /\ k \in DOMAIN u
        /\ \A k \in 1..Len(q) : u[Len(p) + k] = q[k] /\ Len(p) + k \in DOMAIN u
        /\ \A k \in DOMAIN u : k \in 1..Len(p) \/ \E j \in 1..Len(q) : k = Len(p) + j
    BY Concatenated
  <1>3. /\ v \in Seq(Samples(m)) /\ DOMAIN v = 1..Len(p) + Len(q)
        /\ \A k \in 1..Len(p) : v[k] = Parts(p)[k]
        /\ \A k \in 1..Len(q) : v[Len(p) + k] = Parts(q)[k]
    <2>1. /\ Parts(p) \in Seq(Samples(m)) /\ Len(Parts(p)) = Len(p)
          /\ Parts(q) \in Seq(Samples(m)) /\ Len(Parts(q)) = Len(q)
      BY <1>1
    <2>2. PICK x \in Seq(Samples(m)) : x = Parts(p)
      BY <2>1
    <2>3. PICK y \in Seq(Samples(m)) : y = Parts(q)
      BY <2>1
    <2>4. v = x \o y
      BY <2>2, <2>3
    <2> HIDE DEF v
    <2>5. /\ v \in Seq(Samples(m)) /\ DOMAIN v = 1..Len(x) + Len(y)
          /\ \A k \in 1..Len(x) : v[k] = x[k]
          /\ \A k \in 1..Len(y) : v[Len(x) + k] = y[k]
      BY <2>4, Concatenated
    <2>6. QED
      BY <2>1, <2>2, <2>3, <2>5
  <1>4. Parts(u) \in Seq(Samples(m)) /\ DOMAIN Parts(u) = DOMAIN u /\ \A k \in DOMAIN u : Parts(u)[k] = u[k].s
    BY <1>1, <1>2 DEF Parts
  <1> HIDE DEF u, v
  <1>5. \A k \in DOMAIN u : Parts(u)[k] = v[k]
    <2>1. \A k \in 1..Len(p) : Parts(u)[k] = v[k]
      <3>1. \A k \in 1..Len(p) : Parts(u)[k] = p[k].s
        BY <1>2, <1>4
      <3>2. \A k \in 1..Len(p) : Parts(p)[k] = p[k].s
        BY <1>1
      <3>3. QED
        BY <1>3, <3>1, <3>2
    <2>2. \A k \in 1..Len(q) : Parts(u)[Len(p) + k] = v[Len(p) + k]
      <3>1. \A k \in 1..Len(q) : Parts(u)[Len(p) + k] = q[k].s
        BY <1>2, <1>4
      <3>2. \A k \in 1..Len(q) : Parts(q)[k] = q[k].s
        BY <1>1
      <3>3. QED
        BY <1>3, <3>1, <3>2
    <2>3. QED
      BY <1>2, <2>1, <2>2
  <1>6. Parts(u) = v
    <2> DEFINE w == Parts(u)
    <2>1. w \in Seq(Samples(m)) /\ DOMAIN w = 1..Len(p) + Len(q) /\ \A k \in DOMAIN w : w[k] = v[k]
      BY <1>2, <1>4, <1>5
    <2> HIDE DEF w
    <2>2. w = [k \in DOMAIN w |-> w[k]] /\ v = [k \in DOMAIN v |-> v[k]]
      BY <1>3, <2>1
    <2>3. w = v
      BY <1>3, <2>1, <2>2
    <2>4. QED
      BY <2>3 DEF w
  <1>7. QED
    BY <1>1, <1>6 DEF u, v

(* Entries are given to the gateway.                                        *)
LEMMA EntriesGiven ==
    ASSUME NEW m \in Nat, sent \in Seq(Entry(m)), lost \subseteq Loss(m), known \subseteq Names,
           NEW es \in Seq(Entry(m)), Deliver(es)
    PROVE  /\ sent' \in Seq(Entry(m)) /\ Given' = Given \o Parts(es) /\ known' \subseteq Names
           /\ OwnNames /\ (\A k \in DOMAIN es : es[k].as = es[k].s.dev) => OwnNames'
  <1>1. /\ sent' = sent \o es /\ sent' \in Seq(Entry(m))
        /\ \A k \in 1..Len(sent) : sent'[k] = sent[k]
        /\ \A k \in 1..Len(es) : sent'[Len(sent) + k] = es[k]
        /\ \A k \in DOMAIN sent' : k \in 1..Len(sent) \/ \E j \in 1..Len(es) : k = Len(sent) + j
    BY Concatenated DEF Deliver
  <1>2. Given = Parts(sent) /\ Given' = Parts(sent')
    BY DEF Given, Parts
  <1>3. Given' = Given \o Parts(es)
    BY <1>1, <1>2, PartsConcatenated
  <1>4. DOMAIN sent = 1..Len(sent) /\ DOMAIN es = 1..Len(es)
    OBVIOUS
  <1>6. known' \subseteq Names
    <2>1. \A k \in DOMAIN es : es[k] \in Entry(m)
      BY <1>4
    <2>2. \A k \in DOMAIN es : es[k].as \in Names
      BY <2>1 DEF Entry
    <2>3. known' = known \cup {e.as : e \in Range(es)}
      BY DEF Deliver
    <2>4. QED
      BY <2>2, <2>3 DEF Range
  <1>7. OwnNames /\ (\A k \in DOMAIN es : es[k].as = es[k].s.dev) => OwnNames'
    BY <1>1, <1>4 DEF OwnNames
  <1>8. QED
    BY <1>1, <1>3, <1>6, <1>7

LEMMA OwnGiven ==
    ASSUME NEW m \in Nat, sent \in Seq(Entry(m)), lost \subseteq Loss(m), known \subseteq Names,
           NEW t \in Seq(Samples(m)), Deliver(Own(t))
    PROVE  /\ sent' \in Seq(Entry(m)) /\ Given' = Given \o t /\ known' \subseteq Names
           /\ OwnNames => OwnNames'
  <1> DEFINE es == Own(t)
  <1>1. es = [k \in 1..Len(t) |-> [s |-> t[k], as |-> t[k].dev]]
    BY DEF Own
  <1>2. Len(t) \in Nat /\ DOMAIN t = 1..Len(t) /\ \A k \in 1..Len(t) : t[k] \in Samples(m)
    OBVIOUS
  <1> HIDE DEF es
  <1>3. \A k \in 1..Len(t) : es[k] = [s |-> t[k], as |-> t[k].dev] /\ t[k].dev \in Names
    <2>1. \A x \in Samples(m) : x.dev \in Names
      BY DEF Samples, Names
    <2>2. \A k \in 1..Len(t) : t[k].dev \in Names
      BY <1>2, <2>1
    <2>3. \A k \in 1..Len(t) : es[k] = [s |-> t[k], as |-> t[k].dev]
      BY <1>1
    <2>4. QED
      BY <2>2, <2>3, Zenon
  <1>4. \A k \in 1..Len(t) : es[k].s = t[k] /\ es[k].as = es[k].s.dev /\ es[k] \in Entry(m)
    <2>1. \A x \in Samples(m) : x.dev \in Names => [s |-> x, as |-> x.dev] \in Entry(m)
      BY DEF Entry
    <2>2. \A k \in 1..Len(t) : es[k].s = t[k] /\ es[k].as = t[k].dev
      <3>1. SUFFICES ASSUME NEW k \in 1..Len(t) PROVE es[k].s = t[k] /\ es[k].as = t[k].dev
        OBVIOUS
      <3>2. es[k] = [s |-> t[k], as |-> t[k].dev]
        BY <1>3
      <3>3. QED
        BY <3>2
    <2>3. QED
      BY <1>2, <1>3, <2>1, <2>2
  <1>5. es \in Seq(Entry(m)) /\ DOMAIN es = 1..Len(t)
    BY <1>1, <1>2, <1>4, IsASeq
  <1>6. Parts(es) = t
    <2>1. Parts(es) = [k \in 1..Len(t) |-> es[k].s]
      BY <1>5 DEF Parts
    <2>2. Parts(es) = [k \in 1..Len(t) |-> t[k]]
      BY <1>4, <2>1
    <2>3. QED
      BY <1>2, <2>2
  <1>7. QED
    BY <1>4, <1>5, <1>6, EntriesGiven DEF es

(* Readings are thrown away.                                                *)
LEMMA MoreLost ==
    ASSUME NEW m \in Nat, lost \subseteq Loss(m), NEW E \in SUBSET Samples(m), NEW why \in Reasons, Lose(E, why)
    PROVE  /\ lost' \subseteq Loss(m) /\ Dropped' = Dropped \cup E
           /\ Unconverted /\ why = "converter" /\ (\A x \in E : x.bad) => Unconverted'
           /\ \A l \in lost' : l \in lost \/ (l.why = why /\ l.s \in E)
  <1>1. lost' = lost \cup {[s |-> x, why |-> why] : x \in E}
    BY DEF Lose
  <1>2. lost' \subseteq Loss(m)
    BY <1>1 DEF Loss
  <1>3. \A l \in lost' : l \in lost \/ (l.why = why /\ l.s \in E)
    BY <1>1
  <1>4. \A x \in E : \E l \in lost' : l.s = x
    <2>1. TAKE x \in E
    <2>2. [s |-> x, why |-> why] \in lost' /\ [s |-> x, why |-> why].s = x
      BY <1>1
    <2>3. QED
      BY <2>2
  <1>5. Dropped' = Dropped \cup E
    <2>1. \A x \in Dropped' : x \in Dropped \cup E
      BY <1>3 DEF Dropped
    <2>2. \A x \in Dropped \cup E : x \in Dropped'
      BY <1>1, <1>4 DEF Dropped
    <2>3. QED
      BY <2>1, <2>2
  <1>6. QED
    BY <1>2, <1>3, <1>5 DEF Unconverted

(* Those of s that cannot be converted are.                                 *)
LEMMA BadLost ==
    ASSUME NEW m \in Nat, lost \subseteq Loss(m), NEW s \in Seq(Samples(m)), Lose(Bad(s), "converter")
    PROVE  /\ lost' \subseteq Loss(m) /\ Dropped' = Dropped \cup Bad(s)
           /\ Unconverted => Unconverted'
           /\ \A l \in lost' : l \in lost \/ (l.why = "converter" /\ l.s.bad)
  <1>1. Bad(s) \in SUBSET Samples(m) /\ \A x \in Bad(s) : x.bad
    BY GoodOnes
  <1>2. PICK E \in SUBSET Samples(m) : E = Bad(s)
    BY <1>1
  <1>3. PICK why \in Reasons : why = "converter"
    BY DEF Reasons
  <1>4. Lose(E, why)
    BY <1>2, <1>3
  <1>5. /\ lost' \subseteq Loss(m) /\ Dropped' = Dropped \cup E
        /\ Unconverted /\ why = "converter" /\ (\A x \in E : x.bad) => Unconverted'
        /\ \A l \in lost' : l \in lost \/ (l.why = why /\ l.s \in E)
    BY <1>4, MoreLost
  <1>6. QED
    BY <1>1, <1>2, <1>3, <1>5

-----------------------------------------------------------------------------
(* The steps that connectors share                                         *)

\* ConvertsHead, whatever it does to the state of the connector.
ConvertsFirst ==
    /\ ~stopped /\ queue.convert # <<>>
    /\ queue' = [queue EXCEPT !.convert = Tail(@), !.save = @ \o Good(<<Head(queue.convert)>>)]
    /\ Lose(Bad(<<Head(queue.convert)>>), "converter")
    /\ UNCHANGED <<life, work, made, sent, session, known, env, rpc>>

LEMMA HeadTailIs ==
    ASSUME NEW S, NEW q \in Seq(S), q # <<>>
    PROVE  /\ SubSeq(q, 1, 1) = <<Head(q)>> /\ SubSeq(q, 2, Len(q)) = Tail(q) /\ 1 \in 1..Len(q)
           /\ Head(q) = q[1] /\ q[1] \in S /\ Tail(q) \in Seq(S) /\ DOMAIN q = 1..Len(q)
           /\ \A k \in DOMAIN Tail(q) : k + 1 \in DOMAIN q /\ Tail(q)[k] = q[k + 1]
  <1>1. /\ Head(q) = q[1] /\ Tail(q) \in Seq(S) /\ Len(Tail(q)) = Len(q) - 1
        /\ \A k \in 1..Len(Tail(q)) : Tail(q)[k] = q[k + 1]
    BY HeadTailProperties
  <1>2. DOMAIN q = 1..Len(q) /\ Len(q) \in Nat /\ Len(q) # 0
    OBVIOUS
  <1>3. 1 \in 1..Len(q) /\ q[1] \in S
    BY <1>2
  <1>4. Tail(q) = SubSeq(q, 2, Len(q))
    BY TailIsSubSeq
  <1>5. SubSeq(q, 1, 1) = <<q[1]>>
    <2> DEFINE p == SubSeq(q, 1, 1)
               r == <<q[1]>>
    <2>1. p \in Seq(S) /\ Len(p) = 1 /\ p[1] = q[1]
      BY <1>3
    <2>2. r \in Seq(S) /\ Len(r) = 1 /\ r[1] = q[1]
      BY <1>3
    <2> HIDE DEF p, r
    <2>3. p = r
      BY <2>1, <2>2, SeqEqual
    <2>4. QED
      BY <2>3 DEF p, r
  <1>6. DOMAIN Tail(q) = 1..Len(q) - 1
    BY <1>1, <1>2
  <1>7. \A k \in 1..Len(q) - 1 : k + 1 \in DOMAIN q
    BY <1>2
  <1>8. QED
    BY <1>1, <1>2, <1>3, <1>4, <1>5, <1>6, <1>7

LEMMA TimelyParts ==
    /\ \A s : Timely(s) <=> \A x \in Range(s) : ~x.late
    /\ \A m \in Nat : \A s, t \in Seq(Samples(m)) : Timely(s) /\ Timely(t) => Timely(s \o t)
    /\ \A m \in Nat : \A s \in Seq(Samples(m)) : \A x : Timely(s) /\ ~x.late => Timely(Append(s, x))
    /\ \A m \in Nat : \A s \in Seq(Samples(m)) : Timely(s) => Timely(Good(s))
    /\ Timely(<<>>)
  <1>1. \A s : Timely(s) <=> \A x \in Range(s) : ~x.late
    BY DEF Timely, Range
  <1>2. ASSUME NEW m \in Nat, NEW s \in Seq(Samples(m)), NEW t \in Seq(Samples(m)), Timely(s), Timely(t)
        PROVE  Timely(s \o t)
    <2>1. \A k \in DOMAIN (s \o t) : (k \in DOMAIN s /\ (s \o t)[k] = s[k])
                                      \/ \E j \in DOMAIN t : (s \o t)[k] = t[j]
      OBVIOUS
    <2>2. QED
      BY <1>2, <2>1 DEF Timely
  <1>3. ASSUME NEW m \in Nat, NEW s \in Seq(Samples(m)), NEW x, Timely(s), ~x.late
        PROVE  Timely(Append(s, x))
    <2>1. \A k \in DOMAIN Append(s, x) : (k \in DOMAIN s /\ Append(s, x)[k] = s[k]) \/ Append(s, x)[k] = x
      OBVIOUS
    <2>2. QED
      BY <1>3, <2>1 DEF Timely
  <1>4. \A m \in Nat : \A s \in Seq(Samples(m)) : Timely(s) => Timely(Good(s))
    BY <1>1, GoodOnes
  <1>5. Timely(<<>>)
    BY DEF Timely
  <1>6. QED
    BY <1>1, <1>2, <1>3, <1>4, <1>5

LEMMA Typed ==
    ASSUME NEW w \in {"main", "save"}, World, LineInv(w)
    PROVE  /\ w \in Workers /\ made \in Nat /\ hand[w] \in Seq(Samples(made))
           /\ queue.save \in Seq(Samples(made)) /\ queue.convert \in Seq(Samples(made))
           /\ Line(TRUE, made, Dropped, Given, hand[w], queue.save, queue.convert)
           /\ sent \in Seq(Entry(made)) /\ lost \subseteq Loss(made) /\ known \subseteq Names
  <1>1. made \in Nat /\ sent \in Seq(Entry(made)) /\ lost \subseteq Loss(made) /\ known \subseteq Names
    BY DEF World, Outer, Inner
  <1>2. w \in Workers
    BY DEF Workers
  <1>3. Line(TRUE, made, Dropped, Given, hand[w], queue.save, queue.convert)
    BY DEF LineInv
  <1>4. /\ hand[w] \in Seq(Samples(made)) /\ queue.save \in Seq(Samples(made))
        /\ queue.convert \in Seq(Samples(made))
    BY <1>3 DEF Line
  <1>5. QED
    BY <1>1, <1>2, <1>3, <1>4

\* In any order, or in the order of the readings (o), with more readings elsewhere (X).
LineOf(o, X, w) ==
    /\ Line(o, made, Dropped \cup X, Given, hand[w], queue.save, queue.convert)
    /\ pc[w] # "busy" => hand[w] = <<>>

LEMMA LineOfAll ==
    ASSUME NEW w
    PROVE  LineOf(TRUE, {}, w) <=> LineInv(w)
  <1>1. Dropped \cup {} = Dropped
    OBVIOUS
  <1>2. QED
    BY <1>1 DEF LineOf, LineInv

LEMMA LineOfAllAfter ==
    ASSUME NEW w
    PROVE  LineOf(TRUE, {}, w)' <=> LineInv(w)'
  <1>1. Dropped' \cup {} = Dropped'
    OBVIOUS
  <1>2. QED
    BY <1>1 DEF LineOf, LineInv

LEMMA HeadTakenOf ==
    ASSUME NEW w \in {"main", "save"}, NEW at \in PCs \ {"busy"}, World,
           NEW o \in BOOLEAN, NEW X, LineOf(o, X, w), TakesHead(w, at)
    PROVE  /\ World' /\ LineOf(o, X, w)' /\ UNCHANGED <<kind, stopped, sent, lost, made, own>>
           /\ TimelyInv(w) /\ ~stopped => TimelyInv(w)'
           /\ queue'.convert = queue.convert /\ queue'.poll = queue.poll
  <1>1. /\ At(w, at) /\ queue.save # <<>> /\ hand[w] = <<>> /\ w \in Workers
        /\ pc' = [pc EXCEPT ![w] = "busy"] /\ hand' = [hand EXCEPT ![w] = <<Head(queue.save)>>]
        /\ queue' = [queue EXCEPT !.save = Tail(@)]
        /\ UNCHANGED <<kind, stopped, made, sent, lost, session, known, own, link, events, rpc>>
    BY DEF TakesHead, LineOf, At, To, Hold, Workers, life, conn, env
  <1>2. World'
    BY <1>1 DEF World, Outer, Inner, PCs, Workers, Queues
  <1>3. /\ hand'[w] = <<Head(queue.save)>> /\ queue'.save = Tail(queue.save)
        /\ queue'.convert = queue.convert /\ pc'[w] = "busy" /\ queue'.poll = queue.poll
    BY <1>1 DEF World, Inner, Workers, Queues
  <1>4. queue.save \in Seq(Samples(made)) /\ made \in Nat
    BY DEF LineOf, Line, World, Inner
  <1>5. /\ SubSeq(queue.save, 1, 1) = <<Head(queue.save)>> /\ 1 \in 1..Len(queue.save)
        /\ SubSeq(queue.save, 1 + 1, Len(queue.save)) = Tail(queue.save)
        /\ Head(queue.save) = queue.save[1] /\ DOMAIN queue.save = 1..Len(queue.save)
        /\ \A k \in DOMAIN Tail(queue.save) : k + 1 \in DOMAIN queue.save /\ Tail(queue.save)[k] = queue.save[k + 1]
    BY <1>1, <1>4, HeadTailIs
  <1>6. Line(o, made, Dropped \cup X, Given, <<>>, queue.save, queue.convert)
    BY <1>1 DEF LineOf
  <1>7. Line(o, made, Dropped \cup X, Given, <<Head(queue.save)>>, Tail(queue.save), queue.convert)
    <2>1. Line(o, made, Dropped \cup X, Given, SubSeq(queue.save, 1, 1),
               SubSeq(queue.save, 1 + 1, Len(queue.save)), queue.convert)
      BY <1>4, <1>5, <1>6, FirstTaken
    <2>2. QED
      BY <1>5, <2>1
  <1>8. Given' = Given /\ Dropped' = Dropped
    BY <1>1 DEF Given, Dropped
  <1>9. LineOf(o, X, w)'
    BY <1>1, <1>3, <1>7, <1>8 DEF LineOf
  <1>10. TimelyInv(w) /\ ~stopped => TimelyInv(w)'
    BY <1>1, <1>3, <1>5, <1>8 DEF TimelyInv, Timely
  <1>11. QED
    BY <1>1, <1>2, <1>3, <1>9, <1>10

LEMMA TakenSavedOf ==
    ASSUME NEW w \in {"main", "save"}, NEW at \in PCs \ {"busy"}, World,
           NEW o \in BOOLEAN, NEW X, LineOf(o, X, w), SavesTaken(w, at)
    PROVE  /\ World' /\ LineOf(o, X, w)' /\ UNCHANGED <<kind, stopped, queue, made, own>>
           /\ TimelyInv(w) => TimelyInv(w)'
           /\ OwnNames => OwnNames'
           /\ Unconverted => Unconverted'
           /\ \A l \in lost' : l \in lost \/ (l.why = "converter" /\ l.s.bad)
  <1> DEFINE b == hand[w]
  <1>1. /\ pc' = [pc EXCEPT ![w] = at] /\ hand' = [hand EXCEPT ![w] = <<>>] /\ w \in Workers
        /\ Deliver(Own(Good(b))) /\ Lose(Bad(b), "converter")
        /\ UNCHANGED <<kind, stopped, queue, made, session, own, link, events, rpc>>
    BY DEF SavesTaken, To, Hold, Workers, life, env
  <1>2. made \in Nat /\ b \in Seq(Samples(made)) /\ Line(o, made, Dropped \cup X, Given, b, queue.save, queue.convert)
    BY DEF LineOf, Line, World, Inner
  <1>3. sent \in Seq(Entry(made)) /\ lost \subseteq Loss(made) /\ known \subseteq Names
    BY DEF World, Outer, Inner
  <1>4. hand'[w] = <<>> /\ pc' \in [Workers -> PCs] /\ DOMAIN hand' = Workers
    BY <1>1 DEF World, Outer, Inner
  <1> HIDE DEF b
  <1>5. /\ Good(b) \in Seq(Samples(made)) /\ Part(Good(b), b) /\ Bad(b) \subseteq Range(b)
        /\ Bad(b) \cap Range(Good(b)) = {} /\ Bad(b) \in SUBSET Samples(made)
        /\ \A x \in Bad(b) : x.bad
    BY <1>2, GoodOnes
  <1>6. /\ sent' \in Seq(Entry(made)) /\ Given' = Given \o Good(b) /\ known' \subseteq Names
        /\ OwnNames => OwnNames'
    BY <1>1, <1>2, <1>3, <1>5, OwnGiven
  <1>7. /\ lost' \subseteq Loss(made) /\ Dropped' = Dropped \cup Bad(b)
        /\ Unconverted => Unconverted'
        /\ \A l \in lost' : l \in lost \/ (l.why = "converter" /\ l.s.bad)
    BY <1>1, <1>2, <1>3, BadLost
  <1>8. World'
    BY <1>1, <1>4, <1>6, <1>7 DEF World, Outer, Inner
  <1>9. Line(o, made, (Dropped \cup X) \cup Bad(b), Given \o Good(b), <<>>, queue.save, queue.convert)
    BY <1>2, <1>5, PartGiven
  <1>10. LineOf(o, X, w)'
    <2>1. (Dropped \cup X) \cup Bad(b) = (Dropped \cup Bad(b)) \cup X
      OBVIOUS
    <2>2. QED
      BY <1>1, <1>4, <1>6, <1>7, <1>9, <2>1 DEF LineOf
  <1>11. ASSUME TimelyInv(w) PROVE TimelyInv(w)'
    <2>1. Timely(Given) /\ Timely(b) /\ Given \in Seq(Samples(made))
      BY <1>2, <1>11 DEF TimelyInv, b, Line
    <2>2. Timely(Given')
      BY <1>2, <1>5, <1>6, <2>1, TimelyParts
    <2>3. QED
      BY <1>1, <1>4, <1>11, <2>2, TimelyParts DEF TimelyInv
  <1>12. QED
    BY <1>1, <1>6, <1>7, <1>8, <1>10, <1>11

LEMMA HeadTaken ==
    ASSUME NEW w \in {"main", "save"}, NEW at \in PCs \ {"busy"}, World, LineInv(w), TakesHead(w, at)
    PROVE  /\ World' /\ LineInv(w)' /\ UNCHANGED <<kind, stopped, sent, lost, made, own>>
           /\ TimelyInv(w) /\ ~stopped => TimelyInv(w)'
           /\ queue'.convert = queue.convert /\ queue'.poll = queue.poll
  BY LineOfAll, LineOfAllAfter, HeadTakenOf

LEMMA TakenSaved ==
    ASSUME NEW w \in {"main", "save"}, NEW at \in PCs \ {"busy"}, World, LineInv(w), SavesTaken(w, at)
    PROVE  /\ World' /\ LineInv(w)' /\ UNCHANGED <<kind, stopped, queue, made, own>>
           /\ TimelyInv(w) => TimelyInv(w)'
           /\ OwnNames => OwnNames'
           /\ Unconverted => Unconverted'
           /\ \A l \in lost' : l \in lost \/ (l.why = "converter" /\ l.s.bad)
  BY LineOfAll, LineOfAllAfter, TakenSavedOf

LEMMA HeadConverted ==
    ASSUME NEW w \in {"main", "save"}, World, LineInv(w), ConvertsFirst
    PROVE  /\ World' /\ LineInv(w)' /\ UNCHANGED <<kind, stopped, pc, hand, made, sent>>
           /\ queue'.poll = queue.poll
           /\ TimelyInv(w) => TimelyInv(w)'
           /\ Unconverted => Unconverted'
           /\ \A l \in lost' : l \in lost \/ (l.why = "converter" /\ l.s.bad)
  <1> DEFINE d == queue.convert
             b == <<Head(d)>>
  <1>1. /\ ~stopped /\ d # <<>> /\ w \in Workers
        /\ queue' = [queue EXCEPT !.convert = Tail(d), !.save = queue.save \o Good(b)]
        /\ Lose(Bad(b), "converter")
        /\ UNCHANGED <<kind, stopped, pc, hand, made, sent, known, session, link, events, rpc>>
    BY DEF ConvertsFirst, World, Inner, Queues, life, work, env, Workers
  <1>2. /\ made \in Nat /\ d \in Seq(Samples(made)) /\ queue.save \in Seq(Samples(made))
        /\ Line(TRUE, made, Dropped, Given, hand[w], queue.save, d)
    BY Typed
  <1>3. queue'.convert = Tail(d) /\ queue'.save = queue.save \o Good(b) /\ DOMAIN queue' = Queues
        /\ queue'.poll = queue.poll
    BY <1>1 DEF World, Inner, Queues
  <1>4. lost \subseteq Loss(made)
    BY DEF World, Outer, Inner
  <1> HIDE DEF d
  <1>5. /\ SubSeq(d, 1, 1) = b /\ 1 \in 1..Len(d) /\ SubSeq(d, 1 + 1, Len(d)) = Tail(d)
        /\ Head(d) = d[1] /\ DOMAIN d = 1..Len(d) /\ d[1] \in Samples(made)
        /\ \A k \in DOMAIN Tail(d) : k + 1 \in DOMAIN d /\ Tail(d)[k] = d[k + 1]
    BY <1>1, <1>2, HeadTailIs
  <1>6. b \in Seq(Samples(made)) /\ Range(b) = {d[1]}
    BY <1>5 DEF Range
  <1> HIDE DEF b
  <1>7. /\ Good(b) \in Seq(Samples(made)) /\ Part(Good(b), b) /\ Bad(b) \subseteq Range(b)
        /\ Bad(b) \cap Range(Good(b)) = {} /\ Bad(b) \in SUBSET Samples(made)
        /\ \A x \in Bad(b) : x.bad
    BY <1>2, <1>6, GoodOnes
  <1>8. Line(TRUE, made, Dropped \cup Bad(b), Given, hand[w], queue.save \o Good(b), Tail(d))
    <2>1. Part(Good(b), SubSeq(d, 1, 1)) /\ Bad(b) \subseteq Range(SubSeq(d, 1, 1))
      BY <1>5, <1>7
    <2>2. Line(TRUE, made, Dropped \cup Bad(b), Given, hand[w], queue.save \o Good(b),
               SubSeq(d, 1 + 1, Len(d)))
      BY <1>2, <1>5, <1>7, <2>1, PartConverted
    <2>3. QED
      BY <1>5, <2>2
  <1>9. /\ lost' \subseteq Loss(made) /\ Dropped' = Dropped \cup Bad(b)
        /\ Unconverted => Unconverted'
        /\ \A l \in lost' : l \in lost \/ (l.why = "converter" /\ l.s.bad)
    BY <1>1, <1>2, <1>4, <1>6, BadLost
  <1>10. World'
    BY <1>1, <1>3, <1>9 DEF World, Outer, Inner
  <1>11. Given' = Given
    BY <1>1 DEF Given
  <1>12. LineInv(w)'
    BY <1>1, <1>3, <1>8, <1>9, <1>11 DEF LineInv
  <1>13. ASSUME TimelyInv(w) PROVE TimelyInv(w)'
    <2>1. Timely(d) /\ Timely(queue.save)
      BY <1>1, <1>13 DEF TimelyInv, d
    <2>2. Timely(b)
      BY <1>5, <1>6, <2>1, TimelyParts DEF Timely
    <2>3. Timely(Tail(d))
      BY <1>5, <2>1 DEF Timely
    <2>4. Timely(queue.save \o Good(b))
      BY <1>2, <1>6, <1>7, <2>1, <2>2, TimelyParts
    <2>5. QED
      BY <1>1, <1>3, <1>11, <1>13, <2>3, <2>4 DEF TimelyInv
  <1>14. QED
    BY <1>1, <1>3, <1>9, <1>10, <1>12, <1>13

(* A state in which nothing was read yet.                                   *)
LEMMA AtFirst ==
    ASSUME NEW k \in Kinds, NEW ws \in SUBSET Workers, FieldInit(k, ws), NEW w \in {"main", "save"}
    PROVE  /\ World /\ LineInv(w) /\ TimelyInv(w) /\ OwnNames /\ Unconverted /\ kind = k
           /\ queue = [q \in Queues |-> <<>>] /\ hand = [v \in Workers |-> <<>>]
           /\ sent = <<>> /\ lost = {}
  <1>1. /\ kind = k /\ stopped = FALSE /\ pc = [v \in Workers |-> IF v \in ws THEN "idle" ELSE "ended"]
        /\ hand = [v \in Workers |-> <<>>] /\ queue = [q \in Queues |-> <<>>]
        /\ link = [d \in Devices |-> TRUE] /\ session = {} /\ sent = <<>> /\ lost = {} /\ events = 0
        /\ made \in {0, MaxSamples} /\ known \in {{}, Devices} /\ rpc \in {NoRpc("off"), NoRpc("none")}
    BY DEF FieldInit
  <1>2. made \in 0..MaxSamples /\ made \in Nat /\ events \in 0..MaxEvents
    <2>1. MaxSamples \in Nat /\ MaxEvents \in Nat
      BY DEF FieldConnectorAssumption
    <2>2. QED
      BY <1>1, <2>1
  <1>3. Replied(rpc)
    <2>1. DOMAIN rpc = {"st", "replies", "how"} /\ rpc.st \in {"off", "none"} /\ rpc.replies = 0
      BY <1>1 DEF NoRpc
    <2>2. QED
      BY <2>1 DEF Replied
  <1>4. Outer
    BY <1>1, <1>2, <1>3 DEF Outer
  <1>5. pc \in [Workers -> PCs]
    BY <1>1 DEF PCs
  <1>6. sent \in Seq(Entry(made)) /\ lost \subseteq Loss(made)
    BY <1>1
  <1>7. Inner
    BY <1>1, <1>2, <1>5, <1>6 DEF Inner, Names
  <1>8. Given = <<>> /\ Dropped = {}
    BY <1>1 DEF Given, Dropped
  <1>9. hand[w] = <<>> /\ queue.save = <<>> /\ queue.convert = <<>>
    BY <1>1 DEF Workers, Queues
  <1>10. LineInv(w)
    BY <1>2, <1>8, <1>9, EmptyIs DEF LineInv, Line
  <1>11. TimelyInv(w)
    BY <1>8, <1>9 DEF TimelyInv, Timely
  <1>12. OwnNames /\ Unconverted
    BY <1>1 DEF OwnNames, Unconverted
  <1>13. QED
    BY <1>1, <1>4, <1>7, <1>10, <1>11, <1>12 DEF World

(* A step that leaves every reading where it is, as far as it passes w.      *)
Resting(w) ==
    /\ UNCHANGED <<kind, made, sent, lost>> /\ hand'[w] = hand[w] /\ DOMAIN hand' = Workers
    /\ queue'.save = queue.save /\ queue'.convert = queue.convert /\ DOMAIN queue' = Queues
    /\ pc' \in [Workers -> PCs] /\ (pc[w] = "busy" => pc'[w] = "busy")
    /\ known' \subseteq Names /\ Outer' /\ (stopped => stopped')

LEMMA Rests ==
    ASSUME World, NEW w \in {"main", "save"}, Resting(w)
    PROVE  /\ World'
           /\ LineInv(w) => LineInv(w)'
           /\ TimelyInv(w) => TimelyInv(w)'
           /\ OwnNames' = OwnNames /\ Unconverted' = Unconverted
  <1>1. World'
    BY DEF World, Inner, Resting
  <1>2. Given' = Given /\ Dropped' = Dropped
    BY DEF Given, Dropped, Resting
  <1>3. w \in Workers
    BY DEF Workers
  <1>4. LineInv(w) => LineInv(w)'
    BY <1>2, <1>3 DEF LineInv, Resting, World, Inner
  <1>5. TimelyInv(w) => TimelyInv(w)'
    BY <1>2 DEF TimelyInv, Resting, World, Outer
  <1>6. OwnNames' = OwnNames /\ Unconverted' = Unconverted
    BY DEF OwnNames, Unconverted, Resting
  <1>7. QED
    BY <1>1, <1>4, <1>5, <1>6

LEMMA EndsRests ==
    ASSUME World, NEW v \in Workers, NEW at, "busy" \notin at, Ends(v, at)
    PROVE  (\A w \in Workers : Resting(w)) /\ UNCHANGED <<kind, hand, queue, made, sent, lost, stopped, session, known, own, rpc>>
  <1>1. /\ pc[v] \in at /\ pc' = [pc EXCEPT ![v] = "ended"]
        /\ UNCHANGED <<kind, stopped, hand, queue, made, sent, lost, session, known, own, link, events, rpc>>
    BY DEF Ends, To, life, data, conn, env
  <1>2. pc' \in [Workers -> PCs] /\ \A w \in Workers : pc[w] = "busy" => pc'[w] = "busy"
    BY <1>1 DEF World, Inner, PCs
  <1>3. QED
    BY <1>1, <1>2 DEF Resting, World, Inner, Outer

(* What the field, the platform and the gateway do by themselves.            *)
EnvStep == (\E ds : LinkChanges(ds)) \/ RpcCalled \/ UpdateCalled

LEMMA CalledIs ==
    ASSUME NEW d \in Names, NEW how
    PROVE  Replied([st |-> d, replies |-> 0, how |-> how])
  <1>1. d \notin {"done", "thread ended"}
    <2>1. CASE d \in Devices
      BY <2>1 DEF FieldConnectorAssumption, NoDevice
    <2>2. CASE d = Nobody
      BY <2>2 DEF Nobody
    <2>3. QED
      BY <2>1, <2>2 DEF Names
  <1> DEFINE r == [st |-> d, replies |-> 0, how |-> how]
  <1>2. DOMAIN r = {"st", "replies", "how"} /\ r.st = d /\ r.replies = 0
    OBVIOUS
  <1> HIDE DEF r
  <1>3. Replied(r)
    BY <1>1, <1>2 DEF Replied
  <1>4. QED
    BY <1>3 DEF r

LEMMA EnvRests ==
    ASSUME World, EnvStep
    PROVE  (\A w \in Workers : Resting(w)) /\ UNCHANGED <<kind, hand, queue, made, sent, lost, stopped, pc, known, own>> /\ link' \in [Devices -> BOOLEAN]
  <1>1. CASE \E ds : LinkChanges(ds)
    <2>1. PICK ds : LinkChanges(ds)
      BY <1>1
    <2>2. /\ events < MaxEvents /\ events' = events + 1
          /\ link' = [d \in Devices |-> IF d \in ds THEN ~link[d] ELSE link[d]]
          /\ session' = session \/ session' = {d \in session : link'[d]}
          /\ UNCHANGED <<kind, stopped, pc, hand, queue, made, sent, lost, known, own, rpc>>
      BY <2>1 DEF LinkChanges, Happens, life, work, data
    <2>3. link' \in [Devices -> BOOLEAN] /\ session' \subseteq Devices
      BY <2>2 DEF World, Outer
    <2>4. events' \in 0..MaxEvents
      BY <2>2 DEF World, Outer, FieldConnectorAssumption
    <2>5. Outer'
      BY <2>2, <2>3, <2>4 DEF World, Outer
    <2>6. QED
      BY <2>2, <2>3, <2>5 DEF Resting, World, Inner
  <1>2. CASE RpcCalled \/ UpdateCalled
    <2>1. /\ events < MaxEvents /\ events' = events + 1
          /\ \E d \in known : \E how : rpc' = [st |-> d, replies |-> 0, how |-> how]
          /\ UNCHANGED <<kind, stopped, pc, hand, queue, made, sent, lost, session, known, own, link>>
      <3>1. CASE RpcCalled
        BY <3>1 DEF RpcCalled, Happens, life, work, data, conn
      <3>2. CASE UpdateCalled
        BY <3>2 DEF UpdateCalled, Happens, life, work, data, conn
      <3>3. QED
        BY <1>2, <3>1, <3>2
    <2>2. events' \in 0..MaxEvents
      BY <2>1 DEF World, Outer, FieldConnectorAssumption
    <2>3. PICK d, how : d \in Names /\ rpc' = [st |-> d, replies |-> 0, how |-> how]
      BY <2>1 DEF World, Inner
    <2>4. Replied(rpc')
      BY <2>3, CalledIs
    <2>5. Outer'
      BY <2>1, <2>2, <2>4 DEF World, Outer
    <2>6. QED
      BY <2>1, <2>5 DEF Resting, World, Inner, Outer
  <1>3. QED
    BY <1>1, <1>2 DEF EnvStep

(* The handlers return.                                                     *)
LEMMA RpcEndsIs ==
    ASSUME World, NEW outcomes, \A o \in outcomes : Replied(o), RpcEnds(outcomes),
           session' \subseteq Devices, known' \subseteq Names
    PROVE  (\A w \in Workers : Resting(w)) /\ UNCHANGED <<kind, hand, queue, made, sent, lost, stopped, pc, link>>
  <1>1. /\ Replied(rpc')
        /\ UNCHANGED <<kind, stopped, pc, hand, queue, made, sent, lost, link, events>>
    BY DEF RpcEnds, life, work, data, env
  <1>2. Outer'
    BY <1>1 DEF World, Outer
  <1>3. QED
    BY <1>1, <1>2 DEF Resting, World, Inner

LEMMA UpdateEndsIs ==
    ASSUME World, NEW outcomes, UpdateEnds(outcomes), session' \subseteq Devices, known' \subseteq Names
    PROVE  (\A w \in Workers : Resting(w)) /\ UNCHANGED <<kind, hand, queue, made, sent, lost, stopped, pc, link>>
  <1>1. /\ \E o \in outcomes : rpc' = [st |-> "updated", replies |-> 0, how |-> o]
        /\ UNCHANGED <<kind, stopped, pc, hand, queue, made, sent, lost, link, events>>
    BY DEF UpdateEnds, life, work, data, env
  <1>2. Replied(rpc')
    BY <1>1 DEF Replied
  <1>3. Outer'
    BY <1>1, <1>2 DEF World, Outer
  <1>4. QED
    BY <1>1, <1>3 DEF Resting, World, Inner

LEMMA HandlerRests ==
    ASSUME World, NEW answers, \A o \in answers : Replied(o), NEW outcomes,
           RpcReturns(answers) \/ UpdateReturns(outcomes)
    PROVE  (\A w \in Workers : Resting(w)) /\ UNCHANGED <<kind, hand, queue, made, sent, lost, stopped, pc, session, known, own, link>>
  <1>1. UNCHANGED <<session, known, own>>
    BY DEF RpcReturns, UpdateReturns, conn
  <1>2. session' \subseteq Devices /\ known' \subseteq Names
    BY <1>1 DEF World, Outer, Inner
  <1>3. QED
    BY <1>1, <1>2, RpcEndsIs, UpdateEndsIs DEF RpcReturns, UpdateReturns

(* A new reading.                                                           *)
LEMMA ReadingIs ==
    ASSUME World, NEW d \in Devices, NEW bad \in BOOLEAN
    PROVE  /\ Reading(d, 1, bad) \in Samples(made + 1) /\ Reading(d, 1, bad).n = made + 1
           /\ Reading(d, 1, bad).dev = d /\ Reading(d, 1, bad).late = stopped
           /\ made \in Nat
  <1>1. made \in Nat /\ stopped \in BOOLEAN
    BY DEF World, Inner, Outer
  <1>2. made + 1 \in 1..made + 1
    BY <1>1
  <1>3. QED
    BY <1>1, <1>2 DEF Reading, Samples

LEMMA MadeGrows ==
    ASSUME World, Reads(1)
    PROVE  /\ made' = made + 1 /\ made' \in 0..MaxSamples
           /\ sent \in Seq(Entry(made')) /\ lost \subseteq Loss(made')
           /\ Samples(made) \subseteq Samples(made')
  <1>1. made' = made + 1 /\ made \in 0..MaxSamples /\ made + 1 <= MaxSamples
    BY DEF World, Inner, Reads
  <1>2. MaxSamples \in Nat
    BY DEF FieldConnectorAssumption
  <1>3. Samples(made) \subseteq Samples(made')
    BY <1>1, <1>2, SamplesGrow
  <1>4. Entry(made) \subseteq Entry(made') /\ Loss(made) \subseteq Loss(made')
    BY <1>3 DEF Entry, Loss
  <1>5. Seq(Entry(made)) \subseteq Seq(Entry(made'))
    BY <1>4, SeqMonotonic
  <1>6. QED
    BY <1>1, <1>2, <1>3, <1>4, <1>5 DEF World, Inner

(* It is put into a queue.                                                  *)
LEMMA NewQueued ==
    ASSUME World, NEW w \in {"main", "save"}, NEW q \in {"convert", "save"}, NEW d \in Devices,
           NEW bad \in BOOLEAN, Reads(1), UNCHANGED <<kind, sent, lost>>, Outer',
           hand'[w] = hand[w], DOMAIN hand' = Workers, DOMAIN queue' = Queues,
           queue'[q] = Append(queue[q], Reading(d, 1, bad)),
           \A r \in {"convert", "save"} \ {q} : queue'[r] = queue[r],
           q = "save" => queue.convert = <<>>,
           pc' \in [Workers -> PCs], pc[w] = "busy" => pc'[w] = "busy",
           known' \subseteq Names, stopped => stopped'
    PROVE  /\ World' /\ (LineInv(w) => LineInv(w)')
           /\ LineInv(w) /\ TimelyInv(w) => TimelyInv(w)'
           /\ OwnNames' = OwnNames /\ Unconverted' = Unconverted
  <1>1. /\ made' = made + 1 /\ made' \in 0..MaxSamples
        /\ sent \in Seq(Entry(made')) /\ lost \subseteq Loss(made')
    BY MadeGrows
  <1>2. World'
    BY <1>1 DEF World, Inner
  <1>3. PICK x \in Samples(made + 1) : x = Reading(d, 1, bad) /\ x.n = made + 1 /\ x.late = stopped
    BY ReadingIs
  <1>4. Given' = Given /\ Dropped' = Dropped /\ w \in Workers /\ made \in Nat
    BY ReadingIs DEF Given, Dropped, Workers
  <1>5. queue'[q] = Append(queue[q], x)
    BY <1>3
  <1>6. ASSUME LineInv(w) PROVE LineInv(w)'
    <2>1. Line(TRUE, made, Dropped, Given, hand[w], queue.save, queue.convert)
      BY <1>6 DEF LineInv
    <2>2. CASE q = "convert"
      <3>1. queue'.convert = Append(queue.convert, x) /\ queue'.save = queue.save
        BY <1>5, <2>2
      <3>2. Line(TRUE, made + 1, Dropped, Given, hand[w], queue.save, Append(queue.convert, x))
        BY <1>3, <1>4, <2>1, NewLast
      <3>3. QED
        BY <1>1, <1>4, <1>6, <3>1, <3>2 DEF LineInv, World, Inner
    <2>3. CASE q = "save"
      <3>1. queue'.save = Append(queue.save, x) /\ queue'.convert = <<>> /\ queue.convert = <<>>
        BY <1>5, <2>3
      <3>2. Line(TRUE, made + 1, Dropped, Given, hand[w], Append(queue.save, x), <<>>)
        BY <1>3, <1>4, <2>1, <3>1, NewNearer
      <3>3. QED
        BY <1>1, <1>4, <1>6, <3>1, <3>2 DEF LineInv, World, Inner
    <2>4. QED
      BY <2>2, <2>3
  <1>7. ASSUME LineInv(w), TimelyInv(w) PROVE TimelyInv(w)'
    <2>1. queue.save \in Seq(Samples(made)) /\ queue.convert \in Seq(Samples(made))
      BY <1>7, Typed
    <2>2. ~stopped' => ~stopped /\ ~x.late
      BY <1>3 DEF World, Outer
    <2>3. ~stopped' => Timely(Append(queue[q], x))
      BY <1>4, <1>7, <2>1, <2>2, TimelyParts DEF TimelyInv
    <2>4. QED
      BY <1>4, <1>5, <1>7, <2>2, <2>3 DEF TimelyInv
  <1>8. OwnNames' = OwnNames /\ Unconverted' = Unconverted
    BY DEF OwnNames, Unconverted
  <1>9. QED
    BY <1>2, <1>6, <1>7, <1>8

LEMMA NewToConvert ==
    ASSUME World, NEW w \in {"main", "save"}, NEW d \in Devices,
           NEW bad \in BOOLEAN, Reads(1), UNCHANGED <<kind, sent, lost>>, Outer',
           hand'[w] = hand[w], DOMAIN hand' = Workers, DOMAIN queue' = Queues,
           queue'.convert = Append(queue.convert, Reading(d, 1, bad)), queue'.save = queue.save,
           pc' \in [Workers -> PCs], pc[w] = "busy" => pc'[w] = "busy",
           known' \subseteq Names, stopped => stopped'
    PROVE  /\ World' /\ (LineInv(w) => LineInv(w)')
           /\ LineInv(w) /\ TimelyInv(w) => TimelyInv(w)'
           /\ OwnNames' = OwnNames /\ Unconverted' = Unconverted
  <1>1. PICK q \in {"convert", "save"} : q = "convert"
    OBVIOUS
  <1>2. /\ queue'[q] = Append(queue[q], Reading(d, 1, bad))
        /\ \A r \in {"convert", "save"} \ {q} : queue'[r] = queue[r]
        /\ q = "save" => queue.convert = <<>>
    BY <1>1
  <1>3. QED
    BY <1>2, NewQueued

LEMMA Produced ==
    ASSUME World, NEW w \in {"main", "save"}, NEW q \in {"convert", "save"}, NEW d \in Devices,
           Produce(d, q), UNCHANGED kind, Outer', hand'[w] = hand[w], DOMAIN hand' = Workers,
           q = "save" => queue.convert = <<>>,
           pc' \in [Workers -> PCs], pc[w] = "busy" => pc'[w] = "busy",
           known' \subseteq Names, stopped => stopped'
    PROVE  /\ World' /\ (LineInv(w) => LineInv(w)')
           /\ LineInv(w) /\ TimelyInv(w) => TimelyInv(w)'
           /\ OwnNames' = OwnNames /\ Unconverted' = Unconverted
           /\ \A r \in Queues \ {q} : queue'[r] = queue[r]
           /\ UNCHANGED <<sent, lost>>
  <1>1. CASE made = MaxSamples /\ UNCHANGED data
    <2>1. UNCHANGED <<queue, made, sent, lost>>
      BY <1>1 DEF data
    <2>2. Resting(w)
      BY <2>1 DEF Resting, World, Inner
    <2>3. QED
      BY <2>1, <2>2, Rests
  <1>2. CASE Reads(1) /\ (\E bad \in BOOLEAN : Put(q, Reading(d, 1, bad))) /\ UNCHANGED <<sent, lost>>
    <2>1. PICK bad \in BOOLEAN : Put(q, Reading(d, 1, bad))
      BY <1>2
    <2>2. /\ queue'[q] = Append(queue[q], Reading(d, 1, bad)) /\ DOMAIN queue' = Queues
          /\ \A r \in Queues \ {q} : queue'[r] = queue[r]
      BY <2>1 DEF Put, World, Inner, Queues
    <2>3. \A r \in {"convert", "save"} \ {q} : queue'[r] = queue[r]
      BY <2>2 DEF Queues
    <2>4. QED
      BY <1>2, <2>2, <2>3, NewQueued
  <1>3. QED
    BY <1>1, <1>2 DEF Produce

(* It is converted and given to the gateway in one go.                      *)
LEMMA SentAtOnce ==
    ASSUME World, NEW w \in {"main", "save"}, NEW d \in Devices, LineInv(w),
           hand[w] = <<>>, queue.save = <<>>, queue.convert = <<>>,
           NEW bad \in BOOLEAN, Reads(1), UNCHANGED <<kind, queue>>, Outer',
           Deliver(Own(Good(<<Reading(d, 1, bad)>>))), Lose(Bad(<<Reading(d, 1, bad)>>), "converter"),
           hand'[w] = hand[w], DOMAIN hand' = Workers, pc' \in [Workers -> PCs]
    PROVE  /\ World' /\ LineInv(w)'
           /\ (OwnNames => OwnNames') /\ (Unconverted => Unconverted')
  <1>1. /\ made' = made + 1 /\ made' \in 0..MaxSamples
        /\ sent \in Seq(Entry(made')) /\ lost \subseteq Loss(made')
    BY MadeGrows
  <1>2. PICK x \in Samples(made + 1) : x = Reading(d, 1, bad) /\ x.n = made + 1
    BY ReadingIs
  <1>3. w \in Workers /\ made \in Nat /\ made' \in Nat /\ known \subseteq Names
    BY <1>1, ReadingIs DEF Workers, World, Inner
  <1>4. Line(TRUE, made, Dropped, Given, <<>>, <<>>, <<>>)
    BY DEF LineInv
  <1>5. PICK s \in Seq(Samples(made')) : s = <<x>>
    BY <1>1, <1>2, <1>3, NewIs
  <1>6. Line(TRUE, made', Dropped, Given, s, <<>>, <<>>)
    BY <1>1, <1>2, <1>3, <1>4, <1>5, NewHeld
  <1>7. /\ Good(s) \in Seq(Samples(made')) /\ Part(Good(s), s)
        /\ Bad(s) \subseteq Range(s) /\ Bad(s) \cap Range(Good(s)) = {}
    BY <1>3, GoodOnes
  <1>8. Deliver(Own(Good(s))) /\ Lose(Bad(s), "converter")
    BY <1>2, <1>5
  <1>9. /\ sent' \in Seq(Entry(made')) /\ Given' = Given \o Good(s) /\ known' \subseteq Names
        /\ OwnNames => OwnNames'
    BY <1>1, <1>3, <1>7, <1>8, OwnGiven
  <1>10. /\ lost' \subseteq Loss(made') /\ Dropped' = Dropped \cup Bad(s)
         /\ Unconverted => Unconverted'
    BY <1>1, <1>3, <1>8, BadLost
  <1>11. World'
    BY <1>1, <1>9, <1>10 DEF World, Inner
  <1>12. Line(TRUE, made', Dropped \cup Bad(s), Given \o Good(s), <<>>, <<>>, <<>>)
    BY <1>3, <1>6, <1>7, PartGiven
  <1>13. LineInv(w)'
    BY <1>9, <1>10, <1>12 DEF LineInv
  <1>14. QED
    BY <1>9, <1>10, <1>11, <1>13

(* The connectors whose readings keep their order, which are lost because   *)
(* they cannot be converted, or for another reason of R.                    *)
Excused(R) == \A l \in lost : l.why \in R \/ (l.why = "converter" /\ l.s.bad)
LinedUp(w, R) == LineInv(w) /\ TimelyInv(w) /\ OwnNames /\ Excused(R)

LEMMA HeadSaved ==
    ASSUME NEW w \in {"main", "save"}, NEW R, NEW at \in PCs \ {"busy"}, World, LinedUp(w, R),
           SavesHead(w, at)
    PROVE  /\ World' /\ LinedUp(w, R)' /\ UNCHANGED <<kind, own>>
           /\ queue'.convert = queue.convert /\ queue'.poll = queue.poll
  <1>1. CASE ~stopped /\ TakesHead(w, at)
    <2>1. /\ World' /\ LineInv(w)' /\ UNCHANGED <<kind, sent, lost, own>> /\ TimelyInv(w)'
          /\ queue'.convert = queue.convert /\ queue'.poll = queue.poll
      BY <1>1, HeadTaken DEF LinedUp
    <2>2. QED
      BY <2>1 DEF LinedUp, OwnNames, Excused
  <1>2. CASE SavesTaken(w, at)
    <2>1. /\ World' /\ LineInv(w)' /\ UNCHANGED <<kind, queue, own>> /\ TimelyInv(w)' /\ OwnNames'
          /\ \A l \in lost' : l \in lost \/ (l.why = "converter" /\ l.s.bad)
      BY <1>2, TakenSaved DEF LinedUp
    <2>2. QED
      BY <2>1 DEF LinedUp, Excused
  <1>3. QED
    BY <1>1, <1>2 DEF SavesHead

LEMMA LineConverted ==
    ASSUME NEW w \in {"main", "save"}, NEW R, World, LinedUp(w, R), ConvertsFirst
    PROVE  World' /\ LinedUp(w, R)' /\ kind' = kind /\ queue'.poll = queue.poll
  <1>1. /\ World' /\ LineInv(w)' /\ UNCHANGED <<kind, sent>> /\ TimelyInv(w)' /\ queue'.poll = queue.poll
        /\ \A l \in lost' : l \in lost \/ (l.why = "converter" /\ l.s.bad)
    BY HeadConverted DEF LinedUp
  <1>2. QED
    BY <1>1 DEF LinedUp, OwnNames, Excused

LEMMA LineRests ==
    ASSUME NEW w \in {"main", "save"}, NEW R, World, LinedUp(w, R), Resting(w)
    PROVE  World' /\ LinedUp(w, R)' /\ kind' = kind
  <1>1. World' /\ LineInv(w)' /\ TimelyInv(w)' /\ OwnNames' /\ lost' = lost /\ kind' = kind
    BY Rests DEF LinedUp, Resting
  <1>2. QED
    BY <1>1 DEF LinedUp, Excused

LEMMA LineProduced ==
    ASSUME NEW w \in {"main", "save"}, NEW R, World, LinedUp(w, R),
           NEW q \in {"convert", "save"}, NEW d \in Devices,
           Produce(d, q), UNCHANGED <<life, work, env, rpc>>,
           session' \subseteq Devices, known' \subseteq Names,
           q = "save" => queue.convert = <<>>
    PROVE  /\ World' /\ LinedUp(w, R)' /\ kind' = kind
           /\ \A r \in Queues \ {q} : queue'[r] = queue[r]
  <1>1. /\ UNCHANGED <<kind, stopped, pc, hand, link, events, rpc>>
        /\ Outer' /\ pc' \in [Workers -> PCs] /\ DOMAIN hand' = Workers
    BY DEF life, work, env, World, Inner, Outer
  <1>2. /\ World' /\ (LineInv(w) => LineInv(w)') /\ (LineInv(w) /\ TimelyInv(w) => TimelyInv(w)')
        /\ OwnNames' = OwnNames
        /\ \A r \in Queues \ {q} : queue'[r] = queue[r]
        /\ UNCHANGED <<sent, lost>>
    BY <1>1, Produced
  <1>3. QED
    BY <1>1, <1>2 DEF LinedUp, Excused

(* What a handler may return.                                               *)
LEMMA Returned ==
    /\ \A how : /\ Replied(Returns(1, "none", how)) /\ Replied(Returns(1, "value", how))
                /\ Replied(Returns(0, "raises", how)) /\ Replied(Returns(0, "error", how))
    /\ \A how \in {"error", "timeout", "refused"} : Replied(Returns(1, "error", how))
    /\ \A how \in {"twice", "reserved"} : Replied(Returns(2, "none", how))
    /\ Replied(Returns(0, "none", "silent")) /\ Replied(Returns(0, "value", "silent"))
  <1>1. ASSUME NEW how
        PROVE  /\ Replied(Returns(1, "none", how)) /\ Replied(Returns(1, "value", how))
               /\ Replied(Returns(0, "raises", how)) /\ Replied(Returns(0, "error", how))
               /\ how \in {"error", "timeout", "refused"} => Replied(Returns(1, "error", how))
               /\ how \in {"twice", "reserved"} => Replied(Returns(2, "none", how))
               /\ how = "silent" => Replied(Returns(0, "none", how)) /\ Replied(Returns(0, "value", how))
    <2>1. Replied(Returns(1, "none", how))
      BY DEF Returns, Replied
    <2>2. Replied(Returns(1, "value", how))
      BY DEF Returns, Replied
    <2>3. Replied(Returns(0, "raises", how))
      BY DEF Returns, Replied
    <2>4. Replied(Returns(0, "error", how))
      BY DEF Returns, Replied
    <2>5. how \in {"error", "timeout", "refused"} => Replied(Returns(1, "error", how))
      BY DEF Returns, Replied
    <2>6. how \in {"twice", "reserved"} => Replied(Returns(2, "none", how))
      BY DEF Returns, Replied
    <2>7. how = "silent" => Replied(Returns(0, "none", how)) /\ Replied(Returns(0, "value", how))
      BY DEF Returns, Replied
    <2>8. QED
      BY <2>1, <2>2, <2>3, <2>4, <2>5, <2>6, <2>7
  <1>2. QED
    BY <1>1

(* S7 *)
S7Step ==
    S7Main \/ S7Convert \/ S7Save \/ (\E d \in Devices : S7Device(d)) \/ S7Gateway \/ S7Handler
S7Inv == LinedUp("save", {}) /\ queue.poll \in Seq(Devices)

LEMMA S7Answered ==
    ASSUME NEW d
    PROVE  \A o \in S7Rpc(d) : Replied(o)
  BY Returned DEF S7Rpc, S7Processed

LEMMA S7Keeps ==
    ASSUME World, S7Inv, S7Step
    PROVE  World' /\ S7Inv' /\ kind' = kind
  <1> DEFINE w == "save"
  <1>1. w \in {"main", "save"} /\ w \in Workers /\ "idle" \in PCs \ {"busy"}
    BY DEF Workers, PCs
  <1>2. LinedUp(w, {}) /\ queue.poll \in Seq(Devices)
    BY DEF S7Inv
  <1>3. CASE Resting(w) /\ queue'.poll \in Seq(Devices)
    BY <1>1, <1>2, <1>3, LineRests DEF S7Inv
  <1>4. CASE S7Starts \/ S7Close
    <2>1. CASE S7Starts
      <3>1. Resting(w) /\ queue' = queue
        BY <2>1 DEF S7Starts, Resting, To, At, life, data, env, World, Inner, Outer, PCs, Workers
      <3>2. QED
        BY <1>2, <1>3, <3>1
    <2>2. CASE S7Close
      <3>1. Resting(w) /\ queue' = queue
        BY <2>2 DEF S7Close, Resting, work, data, env, World, Inner, Outer
      <3>2. QED
        BY <1>2, <1>3, <3>1
    <2>3. QED
      BY <1>4, <2>1, <2>2
  <1>5. CASE \E v \in Workers : \E at : "busy" \notin at /\ Ends(v, at)
    BY <1>1, <1>2, <1>3, <1>5, EndsRests
  <1>6. CASE \E d \in Devices : S7Due(d)
    <2>1. PICK d \in Devices : S7Due(d)
      BY <1>6
    <2>2. Resting(w) /\ queue'.poll = Append(queue.poll, d)
      BY <2>1 DEF S7Due, Put, Resting, life, work, conn, env, World, Inner, Outer, Queues, Workers
    <2>3. QED
      BY <1>2, <1>3, <2>2
  <1>7. CASE S7Reads
    <2>1. Head(queue.poll) \in Devices /\ Tail(queue.poll) \in Seq(Devices)
      <3>1. PICK q \in Seq(Devices) : q = queue.poll
        BY <1>2
      <3>2. q # <<>>
        BY <1>7, <3>1 DEF S7Reads
      <3>3. Head(q) \in Devices /\ Tail(q) \in Seq(Devices)
        BY <3>2
      <3>4. QED
        BY <3>1, <3>3
    <2>6. PICK d \in Devices : d = Head(queue.poll)
      BY <2>1
    <2>2. /\ UNCHANGED <<kind, stopped, pc, hand, sent, lost, session, known, own, link, events, rpc>>
          /\ Outer' /\ pc' \in [Workers -> PCs] /\ DOMAIN hand' = Workers /\ known' \subseteq Names
      BY <1>7 DEF S7Reads, life, work, conn, env, World, Inner, Outer
    <2>3. CASE /\ Reads(1)
               /\ \E bad \in BOOLEAN :
                     queue' = [[queue EXCEPT !.poll = Tail(@)] EXCEPT !.convert = Append(@, Reading(d, 1, bad))]
      <3>1. PICK bad \in BOOLEAN :
               queue' = [[queue EXCEPT !.poll = Tail(@)] EXCEPT !.convert = Append(@, Reading(d, 1, bad))]
        BY <2>3
      <3>2. /\ queue'.convert = Append(queue.convert, Reading(d, 1, bad)) /\ queue'.save = queue.save
            /\ queue'.poll = Tail(queue.poll) /\ DOMAIN queue' = Queues
            /\ \A r \in {"convert", "save"} \ {"convert"} : queue'[r] = queue[r]
        BY <3>1 DEF World, Inner, Queues
      <3>3. /\ hand'[w] = hand[w] /\ (pc[w] = "busy" => pc'[w] = "busy") /\ (stopped => stopped')
            /\ UNCHANGED <<kind, sent, lost>> /\ Reads(1)
        BY <2>2, <2>3
      <3>5. /\ World' /\ (LineInv(w) => LineInv(w)') /\ (LineInv(w) /\ TimelyInv(w) => TimelyInv(w)')
            /\ OwnNames' = OwnNames /\ Unconverted' = Unconverted
        BY <1>1, <2>2, <3>2, <3>3, NewToConvert
      <3>4. QED
        BY <1>2, <2>1, <2>2, <3>2, <3>5 DEF S7Inv, LinedUp, Excused
    <2>4. CASE queue' = [queue EXCEPT !.poll = Tail(@)] /\ UNCHANGED made
      <3>1. Resting(w) /\ queue'.poll = Tail(queue.poll)
        BY <1>1, <2>2, <2>4 DEF Resting, World, Inner, Queues
      <3>2. QED
        BY <1>3, <2>1, <3>1
    <2>5. QED
      BY <1>7, <2>3, <2>4, <2>6, Zenon DEF S7Reads
  <1>8. CASE S7Converts
    BY <1>1, <1>2, <1>8, LineConverted DEF S7Converts, S7Inv, ConvertsHead, ConvertsFirst, conn
  <1>9. CASE S7Saves
    BY <1>1, <1>2, <1>9, HeadSaved DEF S7Saves, S7Inv
  <1>10. CASE RpcReturns(S7Rpc(rpc.st)) \/ UpdateReturns(S7Update(rpc.st))
    <2>1. \A o \in S7Rpc(rpc.st) : Replied(o)
      BY S7Answered
    <2>2. Resting(w) /\ queue' = queue
      BY <1>1, <1>10, <2>1, HandlerRests
    <2>3. QED
      BY <1>2, <1>3, <2>2
  <1>11. QED
    BY <1>4, <1>5, <1>6, <1>7, <1>8, <1>9, <1>10, <1>1
       DEF S7Step, S7Main, S7Convert, S7Save, S7Device, S7Gateway, S7Handler, Workers

(* XMPP *)
XmppStep ==
    \/ XmppMain \/ XmppConvert \/ XmppSave \/ (\E d \in Devices : XmppField(d))
    \/ XmppGateway \/ XmppHandler
XmppInv == LinedUp("save", {})

LEMMA XmppKeeps ==
    ASSUME World, XmppInv, XmppStep
    PROVE  World' /\ XmppInv' /\ kind' = kind
  <1> DEFINE w == "save"
  <1>1. w \in {"main", "save"} /\ w \in Workers /\ "idle" \in PCs \ {"busy"}
    BY DEF Workers, PCs
  <1>2. LinedUp(w, {})
    BY DEF XmppInv
  <1>3. CASE Resting(w)
    BY <1>1, <1>2, <1>3, LineRests DEF XmppInv
  <1>4. CASE XmppStarts
    <2>1. Resting(w)
      BY <1>4 DEF XmppStarts, Resting, To, At, life, data, conn, env, World, Inner, Outer, PCs, Workers
    <2>2. QED
      BY <1>3, <2>1
  <1>5. CASE XmppClose
    <2>1. Resting(w)
      BY <1>5 DEF XmppClose, Resting, work, data, conn, env, World, Inner, Outer
    <2>2. QED
      BY <1>3, <2>1
  <1>6. CASE \E v \in Workers : \E at : "busy" \notin at /\ Ends(v, at)
    BY <1>1, <1>3, <1>6, EndsRests
  <1>7. CASE \E d \in Devices : XmppMessage(d)
    <2>1. PICK d \in Devices : XmppMessage(d)
      BY <1>7
    <2>2. /\ Produce(d, "convert") /\ UNCHANGED <<life, work, env, rpc>>
          /\ session' \subseteq Devices /\ known' \subseteq Names
      BY <2>1 DEF XmppMessage, conn, World, Inner, Outer
    <2>3. QED
      BY <1>1, <1>2, <2>2, LineProduced DEF XmppInv
  <1>8. CASE XmppProcesses
    <2>1. ConvertsFirst
      BY <1>8 DEF XmppProcesses, ConvertsFirst
    <2>2. QED
      BY <1>1, <1>2, <2>1, LineConverted DEF XmppInv
  <1>9. CASE XmppSends
    BY <1>1, <1>2, <1>9, HeadSaved DEF XmppSends, XmppInv
  <1>10. CASE RpcReturns(XmppRpc(rpc.st)) \/ UpdateReturns(XmppUpdate(rpc.st))
    <2>1. \A o \in XmppRpc(rpc.st) : Replied(o)
      BY Returned DEF XmppRpc, XmppReservedRpc
    <2>2. QED
      BY <1>1, <1>3, <1>10, <2>1, HandlerRests
  <1>11. QED
    BY <1>1, <1>4, <1>5, <1>6, <1>7, <1>8, <1>9, <1>10
       DEF XmppStep, XmppMain, XmppConvert, XmppSave, XmppField, XmppGateway, XmppHandler, Workers

(* BLE: what was read goes to the saving thread, unconverted.               *)
BleStep ==
    \/ BleMain \/ BleSave \/ (\E d \in Devices : BleDevice(d) \/ BleField(d))
    \/ BleGateway \/ BleHandler
BleInv == LinedUp("save", {}) /\ queue.convert = <<>>

LEMMA BleKeeps ==
    ASSUME World, BleInv, BleStep
    PROVE  World' /\ BleInv' /\ kind' = kind
  <1> DEFINE w == "save"
  <1>1. w \in {"main", "save"} /\ w \in Workers /\ "idle" \in PCs \ {"busy"}
    BY DEF Workers, PCs
  <1>2. LinedUp(w, {}) /\ queue.convert = <<>>
    BY DEF BleInv
  <1>3. CASE Resting(w)
    BY <1>1, <1>2, <1>3, LineRests DEF BleInv, Resting
  <1>4. CASE BleScanned
    <2>1. Resting(w)
      BY <1>4 DEF BleScanned, Resting, To, At, life, data, conn, env, World, Inner, Outer, PCs, Workers
    <2>2. QED
      BY <1>3, <2>1
  <1>5. CASE BleClose
    <2>1. Resting(w)
      BY <1>5 DEF BleClose, Resting, work, data, env, World, Inner, Outer
    <2>2. QED
      BY <1>3, <2>1
  <1>6. CASE \E v \in Workers : \E at : "busy" \notin at /\ Ends(v, at)
    BY <1>1, <1>3, <1>6, EndsRests
  <1>7. CASE \E d \in Devices : Produce(d, "save") /\ UNCHANGED <<life, work, session, known, env, rpc>>
    <2>1. PICK d \in Devices : Produce(d, "save") /\ UNCHANGED <<life, work, session, known, env, rpc>>
      BY <1>7
    <2>2. session' \subseteq Devices /\ known' \subseteq Names
      BY <2>1 DEF World, Inner, Outer
    <2>3. QED
      BY <1>1, <1>2, <2>1, <2>2, LineProduced DEF BleInv, Queues
  <1>8. CASE \E d \in Devices : BleConnects(d)
    <2>1. Resting(w)
      BY <1>8 DEF BleConnects, Resting, life, work, data, env, World, Inner, Outer
    <2>2. QED
      BY <1>3, <2>1
  <1>9. CASE \E d \in Devices : BlePolls(d)
    <2>1. PICK d \in Devices : BlePolls(d)
      BY <1>9
    <2>2. CASE Produce(d, "save") /\ UNCHANGED <<session, own>>
      BY <1>7, <2>1, <2>2 DEF BlePolls
    <2>3. CASE session' \subseteq session /\ UNCHANGED data
      <3>1. Resting(w)
        BY <2>1, <2>3 DEF BlePolls, Resting, life, work, data, env, World, Inner, Outer
      <3>2. QED
        BY <1>3, <3>1
    <2>4. QED
      BY <2>1, <2>2, <2>3 DEF BlePolls
  <1>10. CASE \E d \in Devices : BleNotified(d)
    BY <1>7, <1>10 DEF BleNotified, conn
  <1>11. CASE BleProcesses
    BY <1>1, <1>2, <1>11, HeadSaved DEF BleProcesses, BleInv
  <1>12. CASE RpcReturns(BleRpc(rpc.st)) \/ UpdateReturns(BleUpdate(rpc.st))
    <2>1. \A o \in BleRpc(rpc.st) : Replied(o)
      BY Returned DEF BleRpc
    <2>2. QED
      BY <1>1, <1>3, <1>12, <2>1, HandlerRests
  <1>13. QED
    BY <1>1, <1>4, <1>5, <1>6, <1>8, <1>9, <1>10, <1>11, <1>12
       DEF BleStep, BleMain, BleSave, BleDevice, BleField, BleGateway, BleHandler, Workers

(* KNX *)
KnxStep ==
    KnxMain \/ KnxConvert \/ KnxSave \/ (\E d \in Devices : KnxDevice(d)) \/ KnxGateway \/ KnxHandler
KnxInv == LinedUp("save", {}) /\ queue.poll \in Seq(Devices)

LEMMA KnxKeeps ==
    ASSUME World, KnxInv, KnxStep
    PROVE  World' /\ KnxInv' /\ kind' = kind
  <1> DEFINE w == "save"
  <1>1. w \in {"main", "save"} /\ w \in Workers /\ "idle" \in PCs \ {"busy"}
    BY DEF Workers, PCs
  <1>2. LinedUp(w, {}) /\ queue.poll \in Seq(Devices)
    BY DEF KnxInv
  <1>3. CASE Resting(w) /\ queue'.poll \in Seq(Devices)
    BY <1>1, <1>2, <1>3, LineRests DEF KnxInv
  <1>4. CASE KnxConnects
    <2>1. Resting(w) /\ queue' = queue
      BY <1>4 DEF KnxConnects, Resting, To, At, life, data, env, World, Inner, Outer, PCs, Workers
    <2>2. QED
      BY <1>2, <1>3, <2>1
  <1>5. CASE KnxClose
    <2>1. Resting(w) /\ queue' = queue
      BY <1>5 DEF KnxClose, Resting, work, data, conn, env, World, Inner, Outer
    <2>2. QED
      BY <1>2, <1>3, <2>1
  <1>6. CASE KnxEnds
    <2>1. Resting(w) /\ queue' = queue
      BY <1>6 DEF KnxEnds, Resting, To, At, life, data, env, World, Inner, Outer, PCs, Workers
    <2>2. QED
      BY <1>2, <1>3, <2>1
  <1>7. CASE \E v \in Workers : \E at : "busy" \notin at /\ Ends(v, at)
    BY <1>1, <1>2, <1>3, <1>7, EndsRests
  <1>8. CASE \E d \in Devices : KnxDue(d)
    <2>1. PICK d \in Devices : KnxDue(d)
      BY <1>8
    <2>2. Resting(w) /\ queue'.poll = Append(queue.poll, d)
      BY <2>1 DEF KnxDue, Put, Resting, life, work, conn, env, World, Inner, Outer, Queues, Workers
    <2>3. QED
      BY <1>2, <1>3, <2>2
  <1>9. CASE KnxReads
    <2>1. Head(queue.poll) \in Devices /\ Tail(queue.poll) \in Seq(Devices)
      <3>1. PICK q \in Seq(Devices) : q = queue.poll
        BY <1>2
      <3>2. q # <<>>
        BY <1>9, <3>1 DEF KnxReads
      <3>3. Head(q) \in Devices /\ Tail(q) \in Seq(Devices)
        BY <3>2
      <3>4. QED
        BY <3>1, <3>3
    <2>2. PICK d \in Devices : d = Head(queue.poll)
      BY <2>1
    <2>3. /\ UNCHANGED <<kind, stopped, pc, hand, sent, lost, session, known, own, link, events, rpc>>
          /\ Outer' /\ pc' \in [Workers -> PCs] /\ DOMAIN hand' = Workers /\ known' \subseteq Names
      BY <1>9 DEF KnxReads, life, work, conn, env, World, Inner, Outer
    <2>4. CASE /\ Reads(1)
               /\ \E bad \in BOOLEAN :
                     queue' = [[queue EXCEPT !.poll = Tail(@)] EXCEPT !.convert = Append(@, Reading(d, 1, bad))]
      <3>1. PICK bad \in BOOLEAN :
               queue' = [[queue EXCEPT !.poll = Tail(@)] EXCEPT !.convert = Append(@, Reading(d, 1, bad))]
        BY <2>4
      <3>2. /\ queue'.convert = Append(queue.convert, Reading(d, 1, bad)) /\ queue'.save = queue.save
            /\ queue'.poll = Tail(queue.poll) /\ DOMAIN queue' = Queues
        BY <3>1 DEF World, Inner, Queues
      <3>3. /\ hand'[w] = hand[w] /\ (pc[w] = "busy" => pc'[w] = "busy") /\ (stopped => stopped')
            /\ UNCHANGED <<kind, sent, lost>> /\ Reads(1)
        BY <2>3, <2>4
      <3>4. /\ World' /\ (LineInv(w) => LineInv(w)') /\ (LineInv(w) /\ TimelyInv(w) => TimelyInv(w)')
            /\ OwnNames' = OwnNames
        BY <1>1, <2>3, <3>2, <3>3, NewToConvert
      <3>5. QED
        BY <1>2, <2>1, <2>3, <3>2, <3>4 DEF KnxInv, LinedUp, Excused
    <2>5. CASE queue' = [queue EXCEPT !.poll = Tail(@)] /\ UNCHANGED made
      <3>1. Resting(w) /\ queue'.poll = Tail(queue.poll)
        BY <1>1, <2>3, <2>5 DEF Resting, World, Inner, Queues
      <3>2. QED
        BY <1>3, <2>1, <3>1
    <2>6. QED
      BY <1>9, <2>2, <2>4, <2>5, Zenon DEF KnxReads
  <1>10. CASE KnxConverts
    BY <1>1, <1>2, <1>10, LineConverted DEF KnxConverts, KnxInv, ConvertsHead, ConvertsFirst, conn
  <1>11. CASE KnxSends
    BY <1>1, <1>2, <1>11, HeadSaved DEF KnxSends, KnxInv
  <1>12. CASE RpcReturns(KnxRpc(rpc.st)) \/ UpdateReturns(KnxUpdate(rpc.st))
    <2>1. \A o \in KnxRpc(rpc.st) : Replied(o)
      BY Returned DEF KnxRpc, KnxProcessed
    <2>2. Resting(w) /\ queue' = queue
      BY <1>1, <1>12, <2>1, HandlerRests
    <2>3. QED
      BY <1>2, <1>3, <2>2
  <1>13. QED
    BY <1>4, <1>5, <1>6, <1>7, <1>8, <1>9, <1>10, <1>11, <1>12, <1>1
       DEF KnxStep, KnxMain, KnxConvert, KnxSave, KnxDevice, KnxGateway, KnxHandler, Workers

(* CAN: the reader's buffer is given up when the bus fails.                 *)
LEMMA AllDropped ==
    ASSUME NEW o \in BOOLEAN, NEW m \in Nat, NEW D, NEW a, NEW b, NEW c, Line(o, m, D, a, b, c, <<>>)
    PROVE  Line(o, m, D \cup Range(c), a, b, <<>>, <<>>)
  <1>1. /\ c \in Seq(Samples(m)) /\ D \subseteq Samples(m) /\ Behind(o, a, c) /\ Behind(o, b, c)
    BY DEF Line
  <1>2. Range(c) \subseteq Samples(m)
    BY <1>1 DEF Range
  <1>3. Gone(Range(c), a) /\ Gone(Range(c), b)
    BY <1>1, OutOf
  <1>4. Gone(D \cup Range(c), a) /\ Gone(D \cup Range(c), b)
    BY <1>3, Thrown DEF Line
  <1>5. QED
    BY <1>1, <1>2, <1>4, EmptyIs DEF Line

CanStep ==
    CanMain \/ CanAside \/ (\E d \in Devices : CanField(d)) \/ CanGateway \/ CanHandler
CanInv == LinedUp("main", {"buffer"}) /\ queue.convert = <<>>

LEMMA CanFailed ==
    ASSUME World, CanInv, CanFails
    PROVE  World' /\ CanInv' /\ kind' = kind
  <1> DEFINE w == "main"
  <1>1. w \in {"main", "save"} /\ w \in Workers
    BY DEF Workers
  <1>2. LinedUp(w, {"buffer"}) /\ queue.convert = <<>>
    BY DEF CanInv
  <1>3. /\ At("main", "loop") /\ session' = {} /\ queue' = [queue EXCEPT !.save = <<>>]
        /\ Lose(Range(queue.save), "buffer")
        /\ pc' \in {[pc EXCEPT !["main"] = "ended"], [pc EXCEPT !["main"] = "idle"]}
        /\ UNCHANGED <<kind, stopped, hand, made, sent, known, link, events, rpc>>
    BY DEF CanFails, To, life, env
  <1>4. /\ LineInv(w) /\ TimelyInv(w) /\ OwnNames /\ Excused({"buffer"})
        /\ made \in Nat /\ hand[w] \in Seq(Samples(made)) /\ queue.save \in Seq(Samples(made))
        /\ lost \subseteq Loss(made)
    BY <1>1, <1>2, Typed DEF LinedUp
  <1>5. Line(TRUE, made, Dropped, Given, hand[w], queue.save, <<>>)
    BY <1>2, <1>4 DEF LineInv
  <1>6. Line(TRUE, made, Dropped \cup Range(queue.save), Given, hand[w], <<>>, <<>>)
    BY <1>4, <1>5, AllDropped
  <1>7. /\ lost' \subseteq Loss(made) /\ Dropped' = Dropped \cup Range(queue.save)
        /\ \A l \in lost' : l \in lost \/ l.why = "buffer"
    <2> DEFINE q == queue.save
    <2>6. q \in Seq(Samples(made))
      BY <1>4
    <2> HIDE DEF q
    <2>7. Range(q) \in SUBSET Samples(made)
      BY <2>6 DEF Range
    <2>1. PICK E \in SUBSET Samples(made) : E = Range(queue.save)
      BY <2>7 DEF q
    <2>2. PICK why \in Reasons : why = "buffer"
      BY DEF Reasons
    <2>3. Lose(E, why)
      BY <1>3, <2>1, <2>2
    <2>4. /\ lost' \subseteq Loss(made) /\ Dropped' = Dropped \cup E
          /\ \A l \in lost' : l \in lost \/ (l.why = why /\ l.s \in E)
      BY <1>4, <2>3, MoreLost
    <2>5. QED
      BY <2>1, <2>2, <2>4
  <1>8. /\ queue'.save = <<>> /\ queue'.convert = <<>> /\ DOMAIN queue' = Queues
    BY <1>2, <1>3 DEF World, Inner, Queues
  <1>9. pc' \in [Workers -> PCs] /\ pc[w] # "busy" /\ pc'[w] # "busy"
    BY <1>3 DEF World, Inner, PCs, At, Workers
  <1>10. World'
    BY <1>3, <1>7, <1>8, <1>9 DEF World, Inner, Outer
  <1>11. Given' = Given
    BY <1>3 DEF Given
  <1>12. LineInv(w)'
    BY <1>3, <1>4, <1>6, <1>7, <1>8, <1>9, <1>11 DEF LineInv
  <1>13. TimelyInv(w)'
    BY <1>3, <1>4, <1>8, <1>11, TimelyParts DEF TimelyInv
  <1>14. OwnNames' /\ Excused({"buffer"})'
    BY <1>3, <1>4, <1>7 DEF OwnNames, Excused
  <1>15. QED
    BY <1>3, <1>8, <1>10, <1>12, <1>13, <1>14 DEF CanInv, LinedUp

LEMMA CanKeeps ==
    ASSUME World, CanInv, CanStep
    PROVE  World' /\ CanInv' /\ kind' = kind
  <1> DEFINE w == "main"
             R == {"buffer"}
  <1>1. w \in {"main", "save"} /\ w \in Workers /\ "loop" \in PCs \ {"busy"}
    BY DEF Workers, PCs
  <1>2. LinedUp(w, R) /\ queue.convert = <<>>
    BY DEF CanInv
  <1> HIDE DEF R
  <1>3. CASE Resting(w)
    BY <1>1, <1>2, <1>3, LineRests DEF CanInv, Resting, R
  <1>4. CASE CanConnects
    <2>1. /\ session' \in {session, Devices} /\ At("main", "idle")
          /\ pc' \in {[pc EXCEPT !["main"] = "ended"], [pc EXCEPT !["main"] = "idle"], [pc EXCEPT !["main"] = "loop"]}
          /\ UNCHANGED <<kind, stopped, hand, queue, made, sent, lost, known, link, events, rpc>>
      BY <1>4 DEF CanConnects, To, life, data, env
    <2>2. Resting(w)
      BY <2>1 DEF Resting, At, World, Inner, Outer, PCs, Workers
    <2>3. QED
      BY <1>3, <2>2
  <1>5. CASE CanReads
    BY <1>1, <1>2, <1>5, HeadSaved DEF CanReads, CanInv, R
  <1>6. CASE CanFails
    BY <1>6, CanFailed
  <1>7. CASE \E v \in Workers : \E at : "busy" \notin at /\ Ends(v, at)
    BY <1>1, <1>3, <1>7, EndsRests
  <1>8. CASE CanPolls
    <2>1. Resting(w)
      BY <1>8 DEF CanPolls, Resting, life, work, data, env, World, Inner, Outer
    <2>2. QED
      BY <1>3, <2>1
  <1>9. CASE \E d \in Devices : CanMessage(d)
    <2>1. PICK d \in Devices : CanMessage(d)
      BY <1>9
    <2>2. /\ Produce(d, "save") /\ UNCHANGED <<life, work, env, rpc>>
          /\ session' \subseteq Devices /\ known' \subseteq Names
      BY <2>1 DEF CanMessage, conn, World, Inner, Outer
    <2>3. QED
      BY <1>1, <1>2, <2>2, LineProduced DEF CanInv, R, Queues
  <1>10. CASE CanClose
    <2>1. Resting(w)
      BY <1>10 DEF CanClose, Resting, work, data, conn, env, World, Inner, Outer
    <2>2. QED
      BY <1>3, <2>1
  <1>11. CASE CanHandler
    <2>1. /\ \A o \in {Returns(0, "none", "silent")} \cup CanReservedRpc : Replied(o)
          /\ \A o \in {Returns(0, "raises", "no bus")} : Replied(o)
          /\ \A o \in CanSent : Replied(o)
      BY Returned DEF CanReservedRpc, CanSent
    <2>2. CASE \/ RpcReturns({Returns(0, "none", "silent")} \cup CanReservedRpc)
               \/ RpcReturns({Returns(0, "raises", "no bus")}) \/ UpdateReturns(Written(FALSE))
      BY <1>1, <1>3, <2>1, <2>2, HandlerRests
    <2>3. CASE CanSends /\ (RpcEnds(CanSent) \/ \E os : UpdateEnds(os))
      <3>1. session' \subseteq Devices /\ known' \subseteq Names
        BY <2>3 DEF CanSends, World, Inner, Outer
      <3>2. QED
        BY <1>1, <1>3, <2>1, <2>3, <3>1, RpcEndsIs, UpdateEndsIs
    <2>4. QED
      BY <1>11, <2>2, <2>3 DEF CanHandler, CanRpc, CanUpdate
  <1>12. QED
    BY <1>1, <1>4, <1>5, <1>6, <1>7, <1>8, <1>9, <1>10, <1>11
       DEF CanStep, CanMain, CanAside, CanField, CanGateway, Workers

(* SNMP: nothing is queued.                                                 *)
AtOnce == LineInv("save") /\ hand.save = <<>> /\ queue.save = <<>> /\ queue.convert = <<>> /\ OwnNames /\ Unconverted
SnmpStep == SnmpMain \/ SnmpGateway \/ SnmpHandler
SnmpInv == AtOnce /\ hand.main \in Seq(Devices)

LEMMA OrderListed == Order \in Seq(Devices)
  BY DEF FieldConnectorAssumption, Devices

LEMMA SnmpKeeps ==
    ASSUME World, SnmpInv, SnmpStep
    PROVE  World' /\ SnmpInv' /\ kind' = kind
  <1> DEFINE w == "save"
  <1>1. w \in {"main", "save"} /\ w \in Workers /\ "main" \in Workers
    BY DEF Workers
  <1>2. AtOnce /\ hand.main \in Seq(Devices)
    BY DEF SnmpInv
  <1>3. CASE Resting(w) /\ hand'.main \in Seq(Devices)
    <2>1. World' /\ LineInv(w)' /\ OwnNames' /\ Unconverted' /\ kind' = kind
      BY <1>1, <1>2, <1>3, Rests DEF AtOnce, Resting
    <2>2. QED
      BY <1>2, <1>3, <2>1 DEF Resting, AtOnce, SnmpInv
  <1>4. CASE SnmpBegins
    <2>1. Resting(w) /\ hand'.main = Order
      BY <1>4 DEF SnmpBegins, Resting, To, At, Hold, life, data, conn, env, World, Inner, Outer, PCs, Workers
    <2>2. QED
      BY <1>3, <2>1, OrderListed
  <1>5. CASE SnmpPassed
    <2>1. Resting(w) /\ hand' = hand
      BY <1>5 DEF SnmpPassed, Resting, To, At, life, data, conn, env, World, Inner, Outer, PCs, Workers
    <2>2. QED
      BY <1>2, <1>3, <2>1
  <1>6. CASE SnmpClose
    <2>1. Resting(w) /\ hand' = hand
      BY <1>6 DEF SnmpClose, Resting, work, data, conn, env, World, Inner, Outer
    <2>2. QED
      BY <1>2, <1>3, <2>1
  <1>7. CASE \E v \in Workers : \E at : "busy" \notin at /\ Ends(v, at)
    BY <1>1, <1>2, <1>3, <1>7, EndsRests
  <1>8. CASE SnmpPolls
    <2>1. Head(hand.main) \in Devices /\ Tail(hand.main) \in Seq(Devices)
      <3>1. PICK q \in Seq(Devices) : q = hand.main
        BY <1>2
      <3>2. q # <<>>
        BY <1>8, <3>1 DEF SnmpPolls
      <3>3. Head(q) \in Devices /\ Tail(q) \in Seq(Devices)
        BY <3>2
      <3>4. QED
        BY <3>1, <3>3
    <2>2. PICK d \in Devices : d = Head(hand.main)
      BY <2>1
    <2>3. /\ hand' = [hand EXCEPT !["main"] = Tail(hand.main)]
          /\ UNCHANGED <<kind, stopped, pc, session, own, link, events, rpc>>
      BY <1>8 DEF SnmpPolls, Hold, life, env
    <2>4. /\ hand'.main \in Seq(Devices) /\ hand'[w] = hand[w] /\ DOMAIN hand' = Workers
          /\ Outer' /\ pc' \in [Workers -> PCs]
      BY <2>1, <2>3 DEF World, Inner, Outer, Workers
    <2>5. CASE ReadAndSent(d)
      <3>1. CASE made = MaxSamples /\ UNCHANGED <<data, known>>
        <4>1. Resting(w)
          BY <2>3, <2>4, <3>1 DEF Resting, data, World, Inner
        <4>2. QED
          BY <1>3, <2>4, <4>1
      <3>2. CASE /\ Reads(1) /\ UNCHANGED queue
                 /\ \E bad \in BOOLEAN :
                      /\ Deliver(Own(Good(<<Reading(d, 1, bad)>>)))
                      /\ Lose(Bad(<<Reading(d, 1, bad)>>), "converter")
        <4>1. PICK bad \in BOOLEAN : /\ Deliver(Own(Good(<<Reading(d, 1, bad)>>)))
                                     /\ Lose(Bad(<<Reading(d, 1, bad)>>), "converter")
          BY <3>2
        <4>2. World' /\ LineInv(w)' /\ OwnNames' /\ Unconverted'
          BY <1>1, <1>2, <2>3, <2>4, <3>2, <4>1, SentAtOnce DEF AtOnce
        <4>3. QED
          BY <1>2, <2>3, <2>4, <3>2, <4>2 DEF SnmpInv, AtOnce
      <3>3. QED
        BY <2>5, <3>1, <3>2 DEF ReadAndSent
    <2>6. CASE UNCHANGED <<data, known>>
      <3>1. Resting(w)
        BY <2>3, <2>4, <2>6 DEF Resting, data, World, Inner
      <3>2. QED
        BY <1>3, <2>4, <3>1
    <2>7. QED
      BY <1>8, <2>2, <2>5, <2>6 DEF SnmpPolls
  <1>9. CASE RpcReturns(SnmpRpc(rpc.st)) \/ UpdateReturns(SnmpUpdate(rpc.st))
    <2>1. \A o \in SnmpRpc(rpc.st) : Replied(o)
      BY Returned DEF SnmpRpc, SnmpProcessed
    <2>2. Resting(w) /\ hand' = hand
      BY <1>1, <1>9, <2>1, HandlerRests
    <2>3. QED
      BY <1>2, <1>3, <2>2
  <1>10. QED
    BY <1>1, <1>4, <1>5, <1>6, <1>7, <1>8, <1>9
       DEF SnmpStep, SnmpMain, SnmpGateway, SnmpHandler

(* BACnet *)
BacStep ==
    \/ BacMain \/ BacAside \/ BacConvert \/ BacSave \/ BacOutside
    \/ (\E d \in Devices : BacDevice(d)) \/ BacGateway \/ BacHandler
BacOwn(o) ==
    /\ DOMAIN o = {"gathered", "confirms", "heard", "adding", "at", "added", "objects", "failed",
                   "barren", "reading"}
    /\ o.heard \in Seq(Devices) /\ (o.at = "name" => o.adding \in Devices)
BacInv == LinedUp("save", {}) /\ BacOwn(own)

LEMMA BacKeeps ==
    ASSUME World, BacInv, BacStep
    PROVE  World' /\ BacInv' /\ kind' = kind
  <1> DEFINE w == "save"
  <1>1. w \in {"main", "save"} /\ w \in Workers /\ "idle" \in PCs \ {"busy"}
    BY DEF Workers, PCs
  <1>2. LinedUp(w, {}) /\ BacOwn(own)
    BY DEF BacInv
  <1>3. CASE Resting(w) /\ BacOwn(own')
    BY <1>1, <1>2, <1>3, LineRests DEF BacInv
  <1>4. CASE BacDiscovers
    <2>1. Answering \in Seq(Devices)
      <3> DEFINE I == {k \in DOMAIN Order : Order[k] \notin
                         {d \in Devices : ~link[d]} \cup Range(own.heard) \cup own.added \cup {own.adding}}
      <3>1. Order \in Seq(Devices) /\ I \in SUBSET (DOMAIN Order)
        BY OrderListed
      <3>2. Answering = Chosen(Order, I)
        BY Zenon DEF Answering
      <3> HIDE DEF I
      <3>3. QED
        BY <3>1, <3>2, ChosenIs
    <2>2. own' = [own EXCEPT !.heard = @ \o Answering, !.gathered = TRUE]
      BY <1>4 DEF BacDiscovers
    <2>3. BacOwn(own')
      <3>1. own.heard \o Answering \in Seq(Devices)
        BY <1>2, <2>1 DEF BacOwn
      <3>2. QED
        BY <1>2, <2>2, <3>1 DEF BacOwn
    <2>4. Resting(w)
      BY <1>4 DEF BacDiscovers, Resting, To, At, life, data, env, World, Inner, Outer, PCs, Workers
    <2>5. QED
      BY <1>3, <2>3, <2>4
  <1>5. CASE BacHears
    <2>1. own' = [own EXCEPT !.heard = Tail(@), !.adding = Head(own.heard), !.at = "name"]
      BY <1>5 DEF BacHears
    <2>2. Head(own.heard) \in Devices /\ Tail(own.heard) \in Seq(Devices)
      <3>1. PICK q \in Seq(Devices) : q = own.heard
        BY <1>2 DEF BacOwn
      <3>2. q # <<>>
        BY <1>5, <3>1 DEF BacHears
      <3>3. Head(q) \in Devices /\ Tail(q) \in Seq(Devices)
        BY <3>2
      <3>4. QED
        BY <3>1, <3>3
    <2>3. BacOwn(own')
      BY <1>2, <2>1, <2>2 DEF BacOwn
    <2>4. Resting(w)
      BY <1>5 DEF BacHears, Resting, life, work, data, env, World, Inner, Outer
    <2>5. QED
      BY <1>3, <2>3, <2>4
  <1>6. CASE BacAdds
    <2>1. own.adding \in Devices /\ own' = [own EXCEPT !.at = "objects", !.added = @ \cup {own.adding}]
      BY <1>2, <1>6 DEF BacAdds, BacOwn
    <2>2. BacOwn(own')
      BY <1>2, <2>1 DEF BacOwn
    <2>3. Resting(w)
      BY <1>6, <2>1 DEF BacAdds, Resting, life, work, data, env, World, Inner, Outer, Names
    <2>4. QED
      BY <1>3, <2>2, <2>3
  <1>7. CASE BacFinds
    <2>1. PICK as \in {"objects", "failed", "barren"} :
             own' = [own EXCEPT ![as] = @ \cup {own.adding}, !.at = "none", !.adding = "none"]
      BY <1>7 DEF BacFinds, Discovered
    <2>2. BacOwn(own')
      BY <1>2, <2>1 DEF BacOwn
    <2>3. Resting(w)
      BY <1>7 DEF BacFinds, Resting, life, work, data, env, World, Inner, Outer
    <2>4. QED
      BY <1>3, <2>2, <2>3
  <1>8. CASE BacPolls
    <2>1. BacOwn(own')
      BY <1>2, <1>8 DEF BacPolls, BacOwn
    <2>2. Resting(w)
      BY <1>8 DEF BacPolls, Resting, To, At, life, data, env, World, Inner, Outer, PCs, Workers
    <2>3. QED
      BY <1>3, <2>1, <2>2
  <1>9. CASE \E d \in Devices : BacRescans(d)
    <2>1. BacOwn(own')
      BY <1>2, <1>9 DEF BacRescans, BacOwn
    <2>2. Resting(w)
      BY <1>9 DEF BacRescans, Resting, life, work, data, env, World, Inner, Outer
    <2>3. QED
      BY <1>3, <2>1, <2>2
  <1>10. CASE \E d \in Devices : BacReads(d)
    <2>1. PICK d \in Devices : BacReads(d)
      BY <1>10
    <2>2. BacOwn(own')
      BY <1>2, <2>1 DEF BacReads, BacOwn
    <2>3. UNCHANGED <<life, work, session, known, env, rpc>>
      BY <2>1 DEF BacReads
    <2>4. CASE Produce(d, "convert")
      <3>1. session' \subseteq Devices /\ known' \subseteq Names
        BY <2>3 DEF World, Inner, Outer
      <3>2. World' /\ LinedUp(w, {})' /\ kind' = kind
        BY <1>1, <1>2, <2>3, <2>4, <3>1, LineProduced
      <3>3. QED
        BY <2>2, <3>2 DEF BacInv
    <2>5. CASE UNCHANGED data
      <3>1. Resting(w)
        BY <2>3, <2>5 DEF Resting, life, work, data, env, World, Inner, Outer
      <3>2. QED
        BY <1>3, <2>2, <3>1
    <2>6. QED
      BY <2>1, <2>4, <2>5 DEF BacReads
  <1>11. CASE BacConverts
    <2>1. own' = own
      BY <1>11 DEF BacConverts, ConvertsHead, conn
    <2>2. QED
      BY <1>1, <1>2, <1>11, <2>1, LineConverted DEF BacConverts, BacInv, ConvertsHead, ConvertsFirst, conn
  <1>12. CASE BacSaves
    BY <1>1, <1>2, <1>12, HeadSaved DEF BacSaves, BacInv
  <1>13. CASE BacStray
    <2>1. BacOwn(own')
      BY <1>2, <1>13 DEF BacStray, BacOwn
    <2>2. events' \in 0..MaxEvents
      BY <1>13 DEF BacStray, Happens, World, Outer, FieldConnectorAssumption
    <2>3. Resting(w)
      BY <1>13, <2>2 DEF BacStray, Resting, life, work, data, World, Inner, Outer
    <2>4. QED
      BY <1>3, <2>1, <2>3
  <1>14. CASE BacClose
    <2>1. Resting(w) /\ own' = own
      BY <1>14 DEF BacClose, Resting, work, data, conn, env, World, Inner, Outer
    <2>2. QED
      BY <1>2, <1>3, <2>1
  <1>15. CASE \E v \in Workers : \E at : "busy" \notin at /\ Ends(v, at)
    BY <1>1, <1>2, <1>3, <1>15, EndsRests
  <1>16. CASE RpcReturns(BacRpc(rpc.st)) \/ UpdateReturns(BacUpdate(rpc.st))
    <2>1. \A o \in BacRpc(rpc.st) : Replied(o)
      <3>1. \A d : \A late \in {"none", "error"} : \A o \in BacProcessed(d, late) : Replied(o)
        BY Returned DEF BacProcessed
      <3>2. \A d : \A o \in BacDeviceRpc(d) \cup BacReservedRpc(d) : Replied(o)
        BY <3>1, Returned DEF BacDeviceRpc, BacReservedRpc
      <3>3. QED
        BY <3>2, Returned DEF BacRpc
    <2>2. Resting(w) /\ own' = own
      BY <1>1, <1>16, <2>1, HandlerRests
    <2>3. QED
      BY <1>2, <1>3, <2>2
  <1>17. QED
    BY <1>1, <1>4, <1>5, <1>6, <1>7, <1>8, <1>9, <1>10, <1>11, <1>12, <1>13, <1>14, <1>15, <1>16
       DEF BacStep, BacMain, BacAside, BacConvert, BacSave, BacDevice, BacOutside, BacGateway,
           BacHandler, Workers

(* OCPP: a sample may be sent in nobody's name.                             *)
OcppStep ==
    \/ OcppMain \/ OcppConvert \/ OcppSave \/ (\E d \in Devices : OcppDevice(d) \/ OcppField(d))
    \/ OcppGateway \/ OcppHandler
OcppInv ==
    /\ LineInv("save") /\ TimelyInv("save") /\ Excused({}) /\ hand.save = <<>>
    /\ \A k \in DOMAIN sent : sent[k].as \in {sent[k].s.dev, Nobody}
    /\ DOMAIN own = {"booted", "stale", "nameless", "ends"} /\ own.stale \subseteq Devices

LEMMA AllTaken ==
    ASSUME NEW m \in Nat, NEW s \in Seq(Samples(m))
    PROVE  Part(s, s) /\ {} \subseteq Range(s) /\ {} \cap Range(s) = {}
  <1> DEFINE e == [k \in DOMAIN s |-> k]
  <1>1. /\ e \in [DOMAIN s -> DOMAIN s] /\ (\A j, k \in DOMAIN s : j < k => e[j] < e[k])
        /\ \A k \in DOMAIN s : s[k] = s[e[k]]
    OBVIOUS
  <1> HIDE DEF e
  <1>2. Part(s, s)
    BY <1>1 DEF Part
  <1>3. QED
    BY <1>2

LEMMA OcppSent ==
    ASSUME World, OcppInv, OcppSends
    PROVE  World' /\ OcppInv' /\ kind' = kind
  <1> DEFINE w == "save"
             q == queue.save
             x == Head(q)
  <1>1. w \in {"main", "save"} /\ w \in Workers
    BY DEF Workers
  <1>2. /\ q # <<>> /\ queue' = [queue EXCEPT !.save = Tail(q)] /\ Deliver(<<Named(x)>>)
        /\ UNCHANGED <<kind, stopped, pc, hand, made, lost, session, own, link, events, rpc>>
    BY DEF OcppSends, life, work, env
  <1>3. /\ made \in Nat /\ q \in Seq(Samples(made)) /\ queue.convert \in Seq(Samples(made))
        /\ Line(TRUE, made, Dropped, Given, <<>>, q, queue.convert)
        /\ sent \in Seq(Entry(made)) /\ lost \subseteq Loss(made) /\ known \subseteq Names
    BY <1>1, Typed DEF OcppInv
  <1>4. queue'.save = Tail(q) /\ queue'.convert = queue.convert /\ DOMAIN queue' = Queues
    BY <1>2 DEF World, Inner, Queues
  <1> HIDE DEF q
  <1>5. /\ SubSeq(q, 1, 1) = <<x>> /\ 1 \in 1..Len(q) /\ SubSeq(q, 1 + 1, Len(q)) = Tail(q)
        /\ x = q[1] /\ DOMAIN q = 1..Len(q) /\ x \in Samples(made)
        /\ \A k \in DOMAIN Tail(q) : k + 1 \in DOMAIN q /\ Tail(q)[k] = q[k + 1]
    BY <1>2, <1>3, HeadTailIs
  <1>6. Line(TRUE, made, Dropped, Given, <<x>>, Tail(q), queue.convert)
    <2>1. Line(TRUE, made, Dropped, Given, SubSeq(q, 1, 1), SubSeq(q, 1 + 1, Len(q)), queue.convert)
      BY <1>3, <1>5, FirstTaken
    <2>2. QED
      BY <1>5, <2>1
  <1> HIDE DEF x
  <1>7. PICK e \in Entry(made) : e = Named(x) /\ e.s = x /\ e.as \in {x.dev, Nobody}
    <2>1. /\ Named(x).s = x /\ Named(x).as \in {x.dev, Nobody}
          /\ Named(x) = [s |-> Named(x).s, as |-> Named(x).as]
      BY DEF Named
    <2>2. x.dev \in Names /\ Nobody \in Names
      BY <1>5 DEF Samples, Names
    <2>3. Named(x) \in Entry(made)
      BY <1>5, <2>1, <2>2 DEF Entry
    <2>4. QED
      BY <2>1, <2>3
  <1>8. PICK es \in Seq(Entry(made)) : es = <<e>> /\ DOMAIN es = {1} /\ es[1] = e
    <2>1. <<e>> \in Seq(Entry(made)) /\ DOMAIN <<e>> = {1} /\ <<e>>[1] = e
      OBVIOUS
    <2>2. QED
      BY <2>1
  <1>9. Deliver(es)
    BY <1>2, <1>7, <1>8
  <1>10. sent' \in Seq(Entry(made)) /\ Given' = Given \o Parts(es) /\ known' \subseteq Names
    BY <1>3, <1>9, EntriesGiven
  <1>11. PICK s \in Seq(Samples(made)) : s = <<x>> /\ Parts(es) = s
    <2>1. Parts(es) \in Seq(Samples(made)) /\ Parts(es) = [k \in {1} |-> x]
      <3>1. Parts(es) = [k \in DOMAIN es |-> es[k].s]
        BY DEF Parts
      <3>2. Parts(es) \in Seq(Samples(made))
        BY PartsConcatenated
      <3>3. QED
        BY <1>7, <1>8, <3>1, <3>2
    <2>2. Parts(es) = <<x>>
      <3> DEFINE p == Parts(es)
                 r == <<x>>
      <3>1. p \in Seq(Samples(made)) /\ Len(p) = 1 /\ p[1] = x
        <4> HIDE DEF p
        <4>1. p \in Seq(Samples(made)) /\ DOMAIN p = {1} /\ p[1] = x
          BY <2>1 DEF p
        <4>2. Len(p) = 1
          BY <1>8, PartsConcatenated DEF p
        <4>3. QED
          BY <4>1, <4>2
      <3>2. r \in Seq(Samples(made)) /\ Len(r) = 1 /\ r[1] = x
        BY <1>5
      <3> HIDE DEF p, r
      <3>3. p = r
        BY <3>1, <3>2, SeqEqual
      <3>4. QED
        BY <3>3 DEF p, r
    <2>3. QED
      BY <2>1, <2>2
  <1>12. Line(TRUE, made, Dropped, Given \o s, <<>>, Tail(q), queue.convert)
    <2>1. Part(s, s) /\ {} \subseteq Range(s) /\ {} \cap Range(s) = {}
      BY <1>3, AllTaken
    <2>2. Line(TRUE, made, Dropped, Given, s, Tail(q), queue.convert)
      BY <1>6, <1>11
    <2>3. Line(TRUE, made, Dropped \cup {}, Given \o s, <<>>, Tail(q), queue.convert)
      BY <1>3, <2>1, <2>2, PartGiven
    <2>4. Dropped \cup {} = Dropped
      OBVIOUS
    <2>5. QED
      BY <2>3, <2>4
  <1>13. World'
    BY <1>2, <1>3, <1>4, <1>10 DEF World, Inner, Outer
  <1>14. Dropped' = Dropped /\ Given' = Given \o s /\ hand'[w] = <<>>
    BY <1>2, <1>10, <1>11 DEF Dropped, OcppInv
  <1>15. LineInv(w)'
    BY <1>2, <1>4, <1>12, <1>14 DEF LineInv
  <1>16. TimelyInv(w)'
    <2>1. Timely(Given) /\ Given \in Seq(Samples(made)) /\ Timely(q)
      BY <1>2, <1>3 DEF OcppInv, TimelyInv, Line, q, OcppSends
    <2>2. Timely(s)
      BY <1>5, <1>11, <2>1 DEF Timely
    <2>3. Timely(Given')
      BY <1>3, <1>14, <2>1, <2>2, TimelyParts
    <2>4. Timely(Tail(q))
      BY <1>5, <2>1 DEF Timely
    <2>5. QED
      BY <1>2, <1>4, <1>14, <2>3, <2>4, TimelyParts DEF OcppInv, TimelyInv
  <1>17. \A k \in DOMAIN sent' : sent'[k].as \in {sent'[k].s.dev, Nobody}
    <2>1. /\ sent' = sent \o es
          /\ \A k \in 1..Len(sent) : sent'[k] = sent[k]
          /\ \A k \in 1..Len(es) : sent'[Len(sent) + k] = es[k]
          /\ \A k \in DOMAIN sent' : k \in 1..Len(sent) \/ \E j \in 1..Len(es) : k = Len(sent) + j
      BY <1>3, <1>9, Concatenated DEF Deliver
    <2>2. DOMAIN sent = 1..Len(sent) /\ DOMAIN es = 1..Len(es)
      BY <1>3
    <2>3. QED
      BY <1>7, <1>8, <2>1, <2>2 DEF OcppInv
  <1>18. Excused({})'
    BY <1>2 DEF OcppInv, Excused
  <1>19. QED
    BY <1>2, <1>13, <1>14, <1>15, <1>16, <1>17, <1>18 DEF OcppInv

LEMMA OcppKeeps ==
    ASSUME World, OcppInv, OcppStep
    PROVE  World' /\ OcppInv' /\ kind' = kind
  <1> DEFINE w == "save"
             Stale(o) == DOMAIN o = {"booted", "stale", "nameless", "ends"} /\ o.stale \subseteq Devices
  <1>1. w \in {"main", "save"} /\ w \in Workers
    BY DEF Workers
  <1>2. /\ LineInv(w) /\ TimelyInv(w) /\ Excused({}) /\ hand[w] = <<>> /\ Stale(own)
        /\ \A k \in DOMAIN sent : sent[k].as \in {sent[k].s.dev, Nobody}
    BY DEF OcppInv
  <1>3. CASE Resting(w) /\ Stale(own')
    <2>1. World' /\ LineInv(w)' /\ TimelyInv(w)' /\ kind' = kind
      BY <1>1, <1>2, <1>3, Rests DEF Resting
    <2>2. UNCHANGED <<sent, lost>> /\ hand'[w] = <<>>
      BY <1>2, <1>3 DEF Resting
    <2>3. QED
      BY <1>2, <1>3, <2>1, <2>2 DEF OcppInv, Excused
  <1>4. CASE OcppStarts
    <2>1. Resting(w) /\ own' = own
      BY <1>4 DEF OcppStarts, Resting, To, At, life, data, conn, env, World, Inner, Outer, PCs, Workers
    <2>2. QED
      BY <1>2, <1>3, <2>1
  <1>5. CASE \E v \in Workers : \E at : "busy" \notin at /\ Ends(v, at)
    BY <1>1, <1>2, <1>3, <1>5, EndsRests
  <1>6. CASE \E d \in Devices : OcppConnects(d)
    <2>1. Stale(own')
      BY <1>2, <1>6 DEF OcppConnects
    <2>2. Resting(w)
      BY <1>6 DEF OcppConnects, Resting, life, work, data, env, World, Inner, Outer
    <2>3. QED
      BY <1>3, <2>1, <2>2
  <1>7. CASE \E d \in Devices : OcppBoots(d)
    <2>1. Stale(own')
      BY <1>2, <1>7 DEF OcppBoots
    <2>2. Resting(w)
      BY <1>7 DEF OcppBoots, Resting, life, work, data, env, World, Inner, Outer
    <2>3. QED
      BY <1>3, <2>1, <2>2
  <1>8. CASE \E d \in Devices : OcppReads(d)
    <2>1. PICK d \in Devices : OcppReads(d)
      BY <1>8
    <2>2. PICK bad \in BOOLEAN :
            /\ queue' = [queue EXCEPT !.convert = Append(@, Reading(d, 1, bad))]
            /\ own' = [own EXCEPT !.nameless = IF d \in own.booted THEN @ ELSE @ \cup {Reading(d, 1, bad)}]
      BY <2>1 DEF OcppReads, Put
    <2>3. Stale(own')
      BY <1>2, <2>2
    <2>4. /\ Reads(1) /\ UNCHANGED <<kind, stopped, pc, hand, sent, lost, session, known, link, events, rpc>>
          /\ Outer' /\ pc' \in [Workers -> PCs] /\ DOMAIN hand' = Workers /\ known' \subseteq Names
      BY <2>1 DEF OcppReads, life, work, env, World, Inner, Outer
    <2>5. /\ queue'.convert = Append(queue.convert, Reading(d, 1, bad)) /\ queue'.save = queue.save
          /\ DOMAIN queue' = Queues
      BY <2>2 DEF World, Inner, Queues
    <2>6. World' /\ LineInv(w)' /\ TimelyInv(w)'
      BY <1>1, <1>2, <2>4, <2>5, NewToConvert
    <2>7. QED
      BY <1>2, <2>3, <2>4, <2>6 DEF OcppInv, Excused
  <1>9. CASE \E d \in Devices : OcppLeaves(d)
    <2>1. Stale(own')
      BY <1>2, <1>9 DEF OcppLeaves
    <2>2. Resting(w)
      BY <1>9 DEF OcppLeaves, Resting, life, work, data, env, World, Inner, Outer
    <2>3. QED
      BY <1>3, <2>1, <2>2
  <1>10. CASE OcppProcesses
    <2>1. /\ World' /\ LineInv(w)' /\ UNCHANGED <<kind, hand, sent>> /\ TimelyInv(w)'
          /\ \A l \in lost' : l \in lost \/ (l.why = "converter" /\ l.s.bad)
      BY <1>1, <1>2, <1>10, HeadConverted DEF OcppProcesses, ConvertsHead, ConvertsFirst, conn
    <2>2. own' = own
      BY <1>10 DEF OcppProcesses, ConvertsHead, conn
    <2>3. QED
      BY <1>2, <2>1, <2>2 DEF OcppInv, Excused
  <1>11. CASE OcppSends
    BY <1>11, OcppSent
  <1>12. CASE OcppClose
    <2>1. Stale(own')
      BY <1>2, <1>12 DEF OcppClose, World, Outer
    <2>2. Resting(w)
      BY <1>12 DEF OcppClose, Resting, work, data, env, World, Inner, Outer
    <2>3. QED
      BY <1>3, <2>1, <2>2
  <1>13. CASE OcppCalls(rpc.st)
    <2>1. rpc.st \in Devices
      BY <1>2, <1>13 DEF OcppCalls, OcppFound, World, Outer
    <2>2. /\ rpc' = [rpc EXCEPT !.how = IF @ = "none" THEN "rpc call" ELSE "update call"]
          /\ UNCHANGED <<life, work, data, conn, env>>
      BY <1>13 DEF OcppCalls
    <2>3. Replied(rpc')
      <3>1. rpc.st \notin {"done", "thread ended"}
        BY <2>1 DEF FieldConnectorAssumption, NoDevice
      <3>2. DOMAIN rpc = {"st", "replies", "how"} /\ Replied(rpc)
        BY <1>2 DEF Replied, World, Outer
      <3>4. DOMAIN rpc' = DOMAIN rpc /\ rpc'.st = rpc.st /\ rpc'.replies = rpc.replies
        BY <2>2, <3>2
      <3>3. QED
        BY <3>1, <3>2, <3>4 DEF Replied
    <2>4. Resting(w) /\ own' = own
      BY <2>2, <2>3 DEF Resting, life, work, data, conn, env, World, Inner, Outer
    <2>5. QED
      BY <1>2, <1>3, <2>4
  <1>14. CASE OcppAnswered(rpc.st)
    <2>1. Replied(rpc')
      <3>1. CASE rpc' \in {Returns(1, "none", "value"), Returns(2, "none", "twice"), Returns(0, "raises", "error")}
        BY <3>1, Returned
      <3>2. CASE \E how : rpc' = [st |-> "updated", replies |-> 0, how |-> how]
        BY <3>2 DEF Replied
      <3>3. QED
        BY <1>14, <3>1, <3>2 DEF OcppAnswered
    <2>2. Resting(w) /\ own' = own
      BY <1>14, <2>1 DEF OcppAnswered, Resting, life, work, data, conn, env, World, Inner, Outer
    <2>3. QED
      BY <1>2, <1>3, <2>2
  <1>15. CASE RpcReturns(OcppRpc(rpc.st)) \/ UpdateReturns(OcppUpdate(rpc.st))
    <2>1. \A o \in OcppRpc(rpc.st) : Replied(o)
      BY Returned DEF OcppRpc
    <2>2. Resting(w) /\ own' = own
      BY <1>1, <1>15, <2>1, HandlerRests
    <2>3. QED
      BY <1>2, <1>3, <2>2
  <1>16. QED
    BY <1>1, <1>4, <1>5, <1>6, <1>7, <1>8, <1>9, <1>10, <1>11, <1>12, <1>13, <1>14, <1>15
       DEF OcppStep, OcppMain, OcppConvert, OcppSave, OcppDevice, OcppField, OcppGateway,
           OcppHandler, Workers

(* Modbus *)
ModbusStep ==
    \/ ModbusMain \/ ModbusConvert \/ ModbusSave \/ (\E d \in Devices : ModbusDevice(d))
    \/ (\E d \in Devices : ModbusTimer(d)) \/ ModbusGateway \/ ModbusHandler
\* A batch is thrown away with one that cannot be converted.
BatchBad == \A l \in lost : l.why = "batch" => \E m \in lost : m.s.bad
ModbusInv == LinedUp("save", {"batch"}) /\ BatchBad

LEMMA FirstOfIs ==
    ASSUME NEW m \in Nat, NEW s \in Seq(Samples(m)), NEW d \in BatchDevices(s)
    PROVE  FirstOf(s, d) \in 1..Len(s)
  <1> DEFINE S == {k \in 1..Len(s) : s[k].dev = d}
  <1>1. Len(s) \in Nat
    OBVIOUS
  <1>2. S \in SUBSET Nat /\ S # {}
    BY <1>1 DEF BatchDevices
  <1>3. PICK x \in S : \A y \in S : x <= y
    <2> HIDE DEF S
    <2>1. QED
      BY <1>2, LeastIs
  <1>4. x \in 1..Len(s) /\ s[x].dev = d /\ \A j \in 1..x - 1 : s[j].dev # d
    BY <1>1, <1>3
  <1>5. QED
    BY <1>4 DEF FirstOf

(* What is thrown away of a batch holds a reading that cannot be converted.  *)
LEMMA BatchThrown ==
    ASSUME NEW m \in Nat, NEW s \in Seq(Samples(m)), NEW t, NEW I \in SUBSET (DOMAIN s),
           \A k \in DOMAIN s : k \in I <=> s[k].dev \in Reached(s), t = Chosen(s, I)
    PROVE  /\ t \in Seq(Samples(m)) /\ Part(t, s)
           /\ \A x \in Range(s) \ Range(t) : \E y \in Range(s) \ Range(t) : y.bad
  <1>1. DOMAIN s = 1..Len(s)
    OBVIOUS
  <1>2. /\ t \in Seq(Samples(m)) /\ Part(t, s)
        /\ \A k \in DOMAIN t : \E i \in I : t[k] = s[i]
        /\ \A i \in I : \E k \in DOMAIN t : t[k] = s[i]
    BY <1>1, ChosenIs
  <1>3. \A y \in Range(t) : y.dev \in Reached(s)
    BY <1>1, <1>2 DEF Range
  <1>4. ASSUME NEW x \in Range(s) \ Range(t)
        PROVE  \E y \in Range(s) \ Range(t) : y.bad
    <2>1. PICK k \in DOMAIN s : x = s[k]
      BY DEF Range
    <2>2. x.dev \notin Reached(s)
      <3>1. SUFFICES ASSUME x.dev \in Reached(s) PROVE FALSE
        OBVIOUS
      <3>2. k \in I
        BY <1>1, <2>1, <3>1
      <3>3. x \in Range(t)
        BY <1>2, <2>1, <3>2 DEF Range
      <3>4. QED
        BY <3>3
    <2>3. x.dev \in BatchDevices(s)
      BY <1>1, <2>1 DEF BatchDevices
    <2>4. PICK r \in Raising(s) : TRUE
      BY <2>2, <2>3 DEF Reached
    <2>5. PICK y \in Bad(s) : y.dev = r
      BY DEF Raising
    <2>6. y \in Range(s) /\ y.bad
      BY DEF Bad
    <2>7. r \in BatchDevices(s)
      BY <1>1, <2>5, <2>6 DEF BatchDevices, Range
    <2>8. FirstOf(s, r) \in Nat
      <3>1. FirstOf(s, r) \in 1..Len(s)
        BY <2>7, FirstOfIs
      <3>2. QED
        BY <3>1
    <2>9. r \notin Reached(s)
      BY <2>8 DEF Reached
    <2>10. QED
      BY <1>3, <2>5, <2>6, <2>9
  <1>5. QED
    BY <1>2, <1>4

LEMMA PartlyRange ==
    ASSUME NEW S, NEW s \in Seq(S), NEW n \in 1..Len(s)
    PROVE  /\ Range(SubSeq(s, 1, n)) \subseteq Range(s)
           /\ Range(SubSeq(s, n + 1, Len(s))) \subseteq Range(s)
  <1>1. Len(s) \in Nat /\ DOMAIN s = 1..Len(s)
    OBVIOUS
  <1>2. /\ SubSeq(s, 1, n) = [k \in 1..n |-> s[k]]
        /\ SubSeq(s, n + 1, Len(s)) = [k \in 1..Len(s) - n |-> s[k + n]]
    BY <1>1
  <1>3. /\ \A k \in 1..n : k \in DOMAIN s
        /\ \A k \in 1..Len(s) - n : k + n \in DOMAIN s
    BY <1>1
  <1>4. \A f, x : x \in Range(f) <=> \E k \in DOMAIN f : f[k] = x
    BY DEF Range
  <1> DEFINE p == [k \in 1..n |-> s[k]]
             q == [k \in 1..Len(s) - n |-> s[k + n]]
  <1>5. /\ DOMAIN p = 1..n /\ \A k \in 1..n : p[k] = s[k]
        /\ DOMAIN q = 1..Len(s) - n /\ \A k \in 1..Len(s) - n : q[k] = s[k + n]
    OBVIOUS
  <1>6. SubSeq(s, 1, n) = p /\ SubSeq(s, n + 1, Len(s)) = q
    BY <1>2
  <1> HIDE DEF p, q
  <1>7. Range(p) \subseteq Range(s) /\ Range(q) \subseteq Range(s)
    <2>1. ASSUME NEW x \in Range(p) PROVE x \in Range(s)
      <3>1. PICK k \in 1..n : p[k] = x
        BY <1>4, <1>5
      <3>2. k \in DOMAIN s /\ s[k] = x
        BY <1>3, <1>5, <3>1
      <3>3. QED
        BY <1>4, <3>2
    <2>2. ASSUME NEW x \in Range(q) PROVE x \in Range(s)
      <3>1. PICK k \in 1..Len(s) - n : q[k] = x
        <4>1. PICK k \in DOMAIN q : q[k] = x
          BY <1>4, Zenon
        <4>2. QED
          BY <1>5, <4>1, Zenon
      <3>2. k + n \in DOMAIN s /\ s[k + n] = x
        BY <1>3, <1>5, <3>1
      <3>3. QED
        BY <1>4, <3>2
    <2>3. QED
      BY <2>1, <2>2
  <1>8. QED
    BY <1>6, <1>7

LEMMA ModbusConverted ==
    ASSUME World, ModbusInv, ModbusConverts
    PROVE  World' /\ ModbusInv' /\ kind' = kind
  <1> DEFINE w == "save"
             d == queue.convert
  <1>1. /\ w \in {"main", "save"} /\ w \in Workers /\ made \in Nat /\ d \in Seq(Samples(made))
        /\ queue.save \in Seq(Samples(made)) /\ lost \subseteq Loss(made)
        /\ Line(TRUE, made, Dropped, Given, hand[w], queue.save, d)
    BY Typed DEF ModbusInv, LinedUp
  <1>2. /\ ~stopped /\ d # <<>>
        /\ UNCHANGED <<kind, stopped, pc, hand, made, sent, session, known, own, link, events, rpc>>
    BY DEF ModbusConverts, life, work, conn, env
  <1>3. PICK n \in 1..Len(d) :
          LET b == SubSeq(d, 1, n)
              t == Chosen(b, {k \in DOMAIN b : b[k].dev \in Reached(b)})
          IN  /\ queue' = [queue EXCEPT !.convert = SubSeq(@, n + 1, Len(@)), !.save = @ \o t]
              /\ Lose(Range(b) \ Range(t), "batch")
    BY DEF ModbusConverts
  <1> DEFINE r == SubSeq(d, n + 1, Len(d))
  <1>4. PICK b \in Seq(Samples(made)) : b = SubSeq(d, 1, n)
    <2>1. Sorted(TRUE, d)
      BY <1>1 DEF Line
    <2>2. QED
      BY <1>1, <2>1, PrefixAndRest
  <1>5. PICK t \in Seq(Samples(made)) :
          /\ Part(t, b) /\ t = Chosen(b, {k \in DOMAIN b : b[k].dev \in Reached(b)})
          /\ \A x \in Range(b) \ Range(t) : \E y \in Range(b) \ Range(t) : y.bad
    <2>1. PICK I \in SUBSET (DOMAIN b) : I = {k \in DOMAIN b : b[k].dev \in Reached(b)}
      BY Zenon
    <2>2. PICK t : t = Chosen(b, I)
      BY Zenon
    <2>3. t = Chosen(b, {k \in DOMAIN b : b[k].dev \in Reached(b)})
      BY <2>1, <2>2, Zenon
    <2>6. \A k \in DOMAIN b : k \in I <=> b[k].dev \in Reached(b)
      BY <2>1
    <2>4. /\ t \in Seq(Samples(made)) /\ Part(t, b)
          /\ \A x \in Range(b) \ Range(t) : \E y \in Range(b) \ Range(t) : y.bad
      BY <1>1, <2>2, <2>6, BatchThrown
    <2>5. QED
      BY <2>3, <2>4
  <1>6. PICK E \in SUBSET Samples(made) : E = Range(b) \ Range(t)
    <2>1. Range(b) \subseteq Samples(made)
      BY DEF Range
    <2>2. QED
      BY <2>1
  <1>7. /\ queue'.convert = r /\ queue'.save = queue.save \o t /\ queue'.poll = queue.poll
        /\ DOMAIN queue' = Queues /\ Lose(E, "batch")
    BY <1>3, <1>4, <1>5, <1>6 DEF World, Inner, Queues
  <1>8. Line(TRUE, made, Dropped \cup E, Given, hand[w], queue.save \o t, r)
    <2>1. PICK q \in Seq(Samples(made)) : q = d
      BY <1>1
    <2>2. n \in 1..Len(q) /\ b = SubSeq(q, 1, n) /\ Line(TRUE, made, Dropped, Given, hand[w], queue.save, q)
      BY <1>1, <1>4, <2>1
    <2>3. E \subseteq Range(b) /\ E \cap Range(t) = {}
      BY <1>6
    <2>4. Part(t, SubSeq(q, 1, n)) /\ E \subseteq Range(SubSeq(q, 1, n))
      BY <1>5, <2>2, <2>3, Zenon
    <2>5. Line(TRUE, made, Dropped \cup E, Given, hand[w], queue.save \o t, SubSeq(q, n + 1, Len(q)))
      BY <1>1, <2>2, <2>3, <2>4, PartConverted
    <2>6. QED
      BY <2>1, <2>5, Zenon
  <1>9. PICK why \in Reasons : why = "batch"
    BY DEF Reasons
  <1>10. /\ lost' \subseteq Loss(made) /\ Dropped' = Dropped \cup E
         /\ \A l \in lost' : l \in lost \/ (l.why = "batch" /\ l.s \in E)
    BY <1>1, <1>7, <1>9, MoreLost
  <1>11. World'
    BY <1>2, <1>7, <1>10 DEF World, Inner, Outer
  <1>12. Given' = Given
    BY <1>2 DEF Given
  <1>13. LineInv(w)'
    BY <1>2, <1>7, <1>8, <1>10, <1>12 DEF LineInv, ModbusInv, LinedUp
  <1>14. TimelyInv(w)'
    <2>1. Timely(d) /\ Timely(queue.save)
      BY <1>2 DEF ModbusInv, LinedUp, TimelyInv
    <2>2. \A x \in Range(d) : ~x.late
      BY <2>1, TimelyParts
    <2>3. Range(b) \subseteq Range(d) /\ Range(r) \subseteq Range(d)
      BY <1>1, <1>4, PartlyRange
    <2>4. Range(t) \subseteq Range(b)
      BY <1>5 DEF Part, Range
    <2>5. Timely(t) /\ Timely(r)
      BY <2>2, <2>3, <2>4, TimelyParts
    <2>6. Timely(queue.save \o t)
      BY <1>1, <2>1, <2>5, TimelyParts
    <2>7. QED
      BY <1>2, <1>7, <1>12, <2>5, <2>6 DEF ModbusInv, LinedUp, TimelyInv
  <1>15. BatchBad'
    <2>1. lost' = lost \cup {[s |-> x, why |-> "batch"] : x \in E}
      BY <1>7 DEF Lose
    <2>2. CASE E = {}
      BY <2>1, <2>2 DEF ModbusInv, BatchBad
    <2>3. CASE E # {}
      <3>1. PICK y \in E : y.bad
        BY <1>5, <1>6, <2>3
      <3>2. [s |-> y, why |-> "batch"] \in lost'
        BY <2>1
      <3>3. \E m \in lost' : m.s.bad
        BY <3>1, <3>2
      <3>4. QED
        BY <3>3 DEF BatchBad
    <2>4. QED
      BY <2>2, <2>3
  <1>16. OwnNames' /\ Excused({"batch"})'
    BY <1>2, <1>10 DEF ModbusInv, LinedUp, OwnNames, Excused
  <1>17. QED
    BY <1>2, <1>11, <1>13, <1>14, <1>15, <1>16 DEF ModbusInv, LinedUp

LEMMA SlaveKeeps ==
    ASSUME World, NEW d \in Devices, NEW at, SlaveConnects(d, at)
    PROVE  session' \subseteq Devices
  BY DEF SlaveConnects, World, Outer

LEMMA ModbusKeeps ==
    ASSUME World, ModbusInv, ModbusStep
    PROVE  World' /\ ModbusInv' /\ kind' = kind
  <1> DEFINE w == "save"
  <1>1. w \in {"main", "save"} /\ w \in Workers /\ "idle" \in PCs \ {"busy"} /\ LinedUp(w, {"batch"})
    BY DEF Workers, PCs, ModbusInv
  <1>2. CASE Resting(w)
    <2>1. World' /\ LinedUp(w, {"batch"})' /\ kind' = kind /\ lost' = lost
      BY <1>1, <1>2, LineRests DEF Resting
    <2>2. QED
      BY <2>1 DEF ModbusInv, BatchBad
  <1>3. CASE \E d \in Devices : ModbusConnects(d)
    <2>1. PICK d \in Devices : ModbusConnects(d)
      BY <1>3
    <2>2. /\ session' \subseteq Devices /\ known' \subseteq Names
          /\ UNCHANGED <<kind, stopped, pc, hand, queue, made, sent, lost, link, events, rpc>>
      BY <2>1, SlaveKeeps DEF ModbusConnects, life, work, data, env, World, Inner, Names
    <2>3. Resting(w)
      BY <2>2 DEF Resting, World, Inner, Outer
    <2>4. QED
      BY <1>2, <2>3
  <1>4. CASE \E d \in Devices : ModbusWaited(d)
    <2>1. Resting(w)
      BY <1>4 DEF ModbusWaited, Resting, life, work, data, env, World, Inner, Outer
    <2>2. QED
      BY <1>2, <2>1
  <1>5. CASE \E d \in Devices : ModbusReads(d)
    <2>1. PICK d \in Devices : ModbusReads(d)
      BY <1>5
    <2>2. /\ UNCHANGED <<kind, stopped, pc, hand, link, events, rpc>> /\ UNCHANGED <<life, work, env, rpc>>
          /\ known' \subseteq Names /\ session' \subseteq Devices
      BY <2>1 DEF ModbusReads, life, work, env, World, Inner, Outer
    <2>3. CASE Produce(d, "convert")
      <3>1. World' /\ LinedUp(w, {"batch"})' /\ kind' = kind
        BY <1>1, <2>2, <2>3, LineProduced
      <3>2. lost' = lost
        BY <2>3 DEF Produce, data
      <3>3. QED
        BY <3>1, <3>2 DEF ModbusInv, BatchBad
    <2>4. CASE UNCHANGED data
      <3>1. Resting(w)
        BY <2>2, <2>4 DEF Resting, data, World, Inner, Outer
      <3>2. QED
        BY <1>2, <3>1
    <2>5. QED
      BY <2>1, <2>3, <2>4 DEF ModbusReads
  <1>6. CASE ModbusConverts
    BY <1>6, ModbusConverted
  <1>7. CASE ModbusSaves
    <2>1. World' /\ LinedUp(w, {"batch"})' /\ kind' = kind
      BY <1>1, <1>7, HeadSaved DEF ModbusSaves
    <2>2. lost \subseteq lost'
      <3>1. CASE ~stopped /\ TakesHead(w, "idle")
        BY <3>1 DEF TakesHead
      <3>2. CASE SavesTaken(w, "idle")
        BY <3>2 DEF SavesTaken, Lose
      <3>3. QED
        BY <1>7, <3>1, <3>2 DEF ModbusSaves, SavesHead
    <2>3. \A l \in lost' : l \in lost \/ l.why = "converter"
      <3>1. CASE ~stopped /\ TakesHead(w, "idle")
        BY <3>1 DEF TakesHead
      <3>2. CASE SavesTaken(w, "idle")
        BY <3>2 DEF SavesTaken, Lose
      <3>3. QED
        BY <1>7, <3>1, <3>2 DEF ModbusSaves, SavesHead
    <2>4. BatchBad'
      BY <2>2, <2>3 DEF ModbusInv, BatchBad
    <2>5. QED
      BY <2>1, <2>4 DEF ModbusInv
  <1>8. CASE ModbusClose
    <2>1. Resting(w)
      BY <1>8 DEF ModbusClose, Resting, work, data, env, World, Inner, Outer
    <2>2. QED
      BY <1>2, <2>1
  <1>9. CASE ModbusRpc(rpc.st)
    <2>1. CASE RpcReturns(ModbusRefused \cup {Returns(1, "error", "timeout")})
      <3>1. \A o \in ModbusRefused \cup {Returns(1, "error", "timeout")} : Replied(o)
        BY Returned DEF ModbusRefused
      <3>2. Resting(w)
        BY <1>1, <2>1, <3>1, HandlerRests
      <3>3. QED
        BY <1>2, <3>2
    <2>2. CASE RpcReturns({Returns(1, "none", "stopped")})
      <3>1. \A o \in {Returns(1, "none", "stopped")} : Replied(o)
        BY Returned
      <3>2. Resting(w)
        BY <1>1, <2>2, <3>1, HandlerRests
      <3>3. QED
        BY <1>2, <3>2
    <2>3. CASE RpcEnds(ModbusProcessed(rpc.st)) /\ ModbusTask(rpc.st)
      <3>1. \A o \in ModbusProcessed(rpc.st) : Replied(o)
        BY Returned DEF ModbusProcessed
      <3>2. rpc.st \in Devices
        BY <2>3 DEF RpcEnds
      <3>3. session' \subseteq Devices /\ known' \subseteq Names
        BY <2>3, <3>2, SlaveKeeps DEF ModbusTask, World, Inner
      <3>4. Resting(w)
        BY <1>1, <2>3, <3>1, <3>3, RpcEndsIs
      <3>5. QED
        BY <1>2, <3>4
    <2>4. QED
      BY <1>9, <2>1, <2>2, <2>3 DEF ModbusRpc
  <1>10. CASE ModbusUpdate(rpc.st)
    <2>1. CASE UpdateReturns(Written(FALSE))
      <3>1. Resting(w)
        <4>1. session' \subseteq Devices /\ known' \subseteq Names
          BY <2>1 DEF UpdateReturns, conn, World, Inner, Outer
        <4>2. QED
          BY <1>1, <2>1, <4>1, UpdateEndsIs DEF UpdateReturns
      <3>2. QED
        BY <1>2, <3>1
    <2>2. CASE /\ UpdateEnds({IF SlaveAnswers(rpc.st) /\ link[rpc.st] THEN "written" ELSE "failed"})
               /\ ModbusTask(rpc.st)
      <3>1. rpc.st \in Devices
        BY <2>2 DEF UpdateEnds
      <3>2. session' \subseteq Devices /\ known' \subseteq Names
        BY <2>2, <3>1, SlaveKeeps DEF ModbusTask, World, Inner
      <3>3. Resting(w)
        BY <1>1, <2>2, <3>2, UpdateEndsIs
      <3>4. QED
        BY <1>2, <3>3
    <2>3. QED
      BY <1>10, <2>1, <2>2 DEF ModbusUpdate
  <1>11. CASE \E v \in Workers : \E at : "busy" \notin at /\ Ends(v, at)
    <2>1. Resting(w)
      BY <1>1, <1>11, EndsRests
    <2>2. QED
      BY <1>2, <2>1
  <1>12. QED
    BY <1>3, <1>4, <1>5, <1>6, <1>7, <1>8, <1>9, <1>10, <1>11
       DEF ModbusStep, ModbusMain, ModbusConvert, ModbusSave, ModbusDevice, ModbusTimer, ModbusGateway,
           ModbusHandler, Workers

(* REST: answers are as many as requests, until one has waited in vain.      *)
RestStep == RestMain \/ RestOutside \/ (\E d \in Devices : RestField(d)) \/ RestGateway \/ RestHandler
RestFields == {"expects", "waits", "asked", "answers", "answered", "overdue", "ends"}
\* The answer to be given: of request n, the last, none was overdue.
Answered(o) == \A a \in o.answered : a.ans \in {0, a.req} \/ \E r \in o.overdue : r < a.req
RestOwn(o, m) ==
    /\ DOMAIN o = RestFields /\ o.asked \subseteq 1..m /\ o.overdue \subseteq 1..m /\ Answered(o)
    /\ \/ o.waits = <<>> /\ (o.overdue = {} => o.asked = {} /\ o.answers = <<>>)
       \/ \E n \in 1..m :
            /\ o.waits = <<n>> /\ \A r \in o.overdue : r < n
            /\ o.overdue = {} =>
                  (o.asked = {n} /\ o.answers = <<>>) \/ (o.asked = {} /\ o.answers = <<n>>)
RestInv == AtOnce /\ RestOwn(own, made)

LEMMA RestBeginning ==
    ASSUME NEW o, NEW m \in Nat, DOMAIN o = RestFields,
           o.waits = <<>>, o.asked = {}, o.answers = <<>>, o.answered = {}, o.overdue = {}
    PROVE  RestOwn(o, m)
  BY DEF RestOwn, Answered

LEMMA RestAsks ==
    ASSUME NEW m \in Nat, NEW o, RestOwn(o, m), o.waits = <<>>
    PROVE  /\ RestOwn([o EXCEPT !.waits = Append(@, m + 1), !.asked = @ \cup {m + 1}], m + 1)
           /\ RestOwn(o, m + 1)
  <1> DEFINE p == [o EXCEPT !.waits = Append(@, m + 1), !.asked = @ \cup {m + 1}]
  <1>1. /\ DOMAIN o = RestFields /\ o.asked \subseteq 1..m /\ o.overdue \subseteq 1..m /\ Answered(o)
        /\ o.overdue = {} => o.asked = {} /\ o.answers = <<>>
    BY DEF RestOwn
  <1>2. /\ DOMAIN p = RestFields /\ p.waits = Append(o.waits, m + 1) /\ p.asked = o.asked \cup {m + 1}
        /\ p.answers = o.answers /\ p.answered = o.answered /\ p.overdue = o.overdue
    BY <1>1 DEF RestFields
  <1> HIDE DEF p
  <1>3. Append(o.waits, m + 1) = <<m + 1>>
    OBVIOUS
  <1>4. m + 1 \in 1..m + 1 /\ 1..m \subseteq 1..m + 1 /\ \A r \in 1..m : r < m + 1
    OBVIOUS
  <1>5. Answered(p)
    BY <1>1, <1>2 DEF Answered
  <1>6. RestOwn(p, m + 1)
    <2>1. p.waits = <<m + 1>> /\ \A r \in p.overdue : r < m + 1
      BY <1>1, <1>2, <1>3, <1>4
    <2>2. p.asked \subseteq 1..m + 1 /\ p.overdue \subseteq 1..m + 1
      BY <1>1, <1>2, <1>4
    <2>3. p.overdue = {} => p.asked = {m + 1} /\ p.answers = <<>>
      BY <1>1, <1>2
    <2>4. QED
      BY <1>2, <1>4, <1>5, <2>1, <2>2, <2>3 DEF RestOwn
  <1>7. RestOwn(o, m + 1)
    BY <1>1, <1>4 DEF RestOwn
  <1>8. QED
    BY <1>6, <1>7 DEF p

LEMMA RestOwnIs ==
    ASSUME NEW p, NEW m, DOMAIN p = RestFields, p.asked \subseteq 1..m, p.overdue \subseteq 1..m, Answered(p)
    PROVE  /\ p.waits = <<>> /\ (p.overdue = {} => p.asked = {} /\ p.answers = <<>>) => RestOwn(p, m)
           /\ \A n \in 1..m :
                 /\ p.waits = <<n>> /\ \A r \in p.overdue : r < n
                 /\ p.overdue = {} =>
                       (p.asked = {n} /\ p.answers = <<>>) \/ (p.asked = {} /\ p.answers = <<n>>)
                 => RestOwn(p, m)
  BY DEF RestOwn

LEMMA RestHears ==
    ASSUME NEW m \in Nat, NEW o, RestOwn(o, m), NEW n \in o.asked
    PROVE  RestOwn([o EXCEPT !.asked = @ \ {n}, !.answers = Append(@, n)], m)
  <1> DEFINE p == [o EXCEPT !.asked = @ \ {n}, !.answers = Append(@, n)]
  <1>1. DOMAIN o = RestFields /\ o.asked \subseteq 1..m /\ o.overdue \subseteq 1..m /\ Answered(o)
    BY DEF RestOwn
  <1>2. /\ DOMAIN p = RestFields /\ p.waits = o.waits /\ p.asked = o.asked \ {n}
        /\ p.answers = Append(o.answers, n) /\ p.answered = o.answered /\ p.overdue = o.overdue
    BY <1>1 DEF RestFields
  <1> HIDE DEF p
  <1>3. Answered(p)
    BY <1>1, <1>2 DEF Answered
  <1>8. p.asked \subseteq 1..m /\ p.overdue \subseteq 1..m
    BY <1>1, <1>2
  <1>4. ASSUME o.waits = <<>>, o.overdue = {} => o.asked = {} /\ o.answers = <<>>
        PROVE  RestOwn(p, m)
    <2>1. p.waits = <<>> /\ p.overdue # {}
      BY <1>2, <1>4
    <2>2. p.overdue = {} => p.asked = {} /\ p.answers = <<>>
      BY <2>1
    <2>3. DOMAIN p = RestFields
      BY <1>2
    <2>4. QED
      BY <1>3, <1>8, <2>1, <2>2, <2>3, RestOwnIs
  <1>5. ASSUME NEW k \in 1..m, o.waits = <<k>>, \A r \in o.overdue : r < k,
               o.overdue = {} => (o.asked = {k} /\ o.answers = <<>>) \/ (o.asked = {} /\ o.answers = <<k>>)
        PROVE  RestOwn(p, m)
    <2>1. p.overdue = {} => p.asked = {} /\ p.answers = <<k>>
      <3>1. SUFFICES ASSUME o.overdue = {} PROVE p.asked = {} /\ p.answers = <<k>>
        BY <1>2
      <3>2. o.asked = {k} /\ o.answers = <<>> /\ n = k
        BY <1>5, <3>1
      <3>3. Append(o.answers, n) = <<k>>
        BY <3>2
      <3>4. QED
        BY <1>2, <3>2, <3>3
    <2>2. p.waits = <<k>> /\ \A r \in p.overdue : r < k
      BY <1>2, <1>5
    <2>3. DOMAIN p = RestFields
      BY <1>2
    <2>4. p.overdue = {} => (p.asked = {k} /\ p.answers = <<>>) \/ (p.asked = {} /\ p.answers = <<k>>)
      BY <2>1
    <2>5. k \in 1..m
      BY <1>5
    <2>6. QED
      BY <1>3, <1>8, <2>2, <2>3, <2>4, <2>5, RestOwnIs
  <1>6. RestOwn(p, m)
    BY <1>4, <1>5 DEF RestOwn
  <1>7. QED
    BY <1>6 DEF p

\* The answer a is given to request n, which waits no more.
RestGiven(o, n, a) == [o EXCEPT !.waits = Tail(@), !.answered = @ \cup {[req |-> n, ans |-> a]}]

LEMMA RestIsGiven ==
    ASSUME NEW m \in Nat, NEW o, RestOwn(o, m), o.waits # <<>>, NEW n, n = Head(o.waits), NEW p,
           \/ o.answers # <<>> /\ p = [RestGiven(o, n, Head(o.answers)) EXCEPT !.answers = Tail(@)]
           \/ p = [RestGiven(o, n, 0) EXCEPT !.overdue = @ \cup {n}]
    PROVE  RestOwn(p, m)
  <1>1. DOMAIN o = RestFields /\ o.asked \subseteq 1..m /\ o.overdue \subseteq 1..m /\ Answered(o)
    BY DEF RestOwn
  <1>2. PICK k \in 1..m :
          /\ o.waits = <<k>> /\ \A r \in o.overdue : r < k
          /\ o.overdue = {} => (o.asked = {k} /\ o.answers = <<>>) \/ (o.asked = {} /\ o.answers = <<k>>)
    BY DEF RestOwn
  <1>3. n = k /\ Tail(o.waits) = <<>>
    BY <1>2
  <1>4. CASE o.answers # <<>> /\ p = [RestGiven(o, n, Head(o.answers)) EXCEPT !.answers = Tail(@)]
    <2>1. PICK a : a = Head(o.answers)
      OBVIOUS
    <2>2. p = [[o EXCEPT !.waits = Tail(@), !.answered = @ \cup {[req |-> n, ans |-> a]}] EXCEPT !.answers = Tail(@)]
      BY <1>4, <2>1 DEF RestGiven
    <2>3. /\ DOMAIN p = RestFields /\ p.waits = <<>> /\ p.asked = o.asked /\ p.answers = Tail(o.answers)
          /\ p.answered = o.answered \cup {[req |-> n, ans |-> a]} /\ p.overdue = o.overdue
      BY <1>1, <1>3, <2>2 DEF RestFields
    <2>4. o.overdue = {} => o.asked = {} /\ a = k /\ Tail(o.answers) = <<>>
      <3>1. SUFFICES ASSUME o.overdue = {} PROVE o.asked = {} /\ a = k /\ Tail(o.answers) = <<>>
        OBVIOUS
      <3>2. o.asked = {} /\ o.answers = <<k>>
        BY <1>2, <1>4, <3>1
      <3>3. QED
        BY <2>1, <3>2
    <2>5. Answered(p)
      <3>1. a = n \/ \E r \in o.overdue : r < n
        BY <1>2, <1>3, <2>4
      <3>2. QED
        BY <1>1, <2>3, <3>1 DEF Answered
    <2>6. QED
      BY <1>1, <2>3, <2>4, <2>5 DEF RestOwn
  <1>5. CASE p = [RestGiven(o, n, 0) EXCEPT !.overdue = @ \cup {n}]
    <2>1. p = [[o EXCEPT !.waits = Tail(@), !.answered = @ \cup {[req |-> n, ans |-> 0]}]
                 EXCEPT !.overdue = @ \cup {n}]
      BY <1>5 DEF RestGiven
    <2>2. /\ DOMAIN p = RestFields /\ p.waits = <<>> /\ p.asked = o.asked
          /\ p.answered = o.answered \cup {[req |-> n, ans |-> 0]} /\ p.overdue = o.overdue \cup {n}
      BY <1>1, <1>3, <2>1 DEF RestFields
    <2>3. Answered(p)
      BY <1>1, <2>2 DEF Answered
    <2>4. QED
      BY <1>1, <1>3, <2>2, <2>3 DEF RestOwn
  <1>6. QED
    BY <1>4, <1>5

LEMMA RestKeeps ==
    ASSUME World, RestInv, RestStep
    PROVE  World' /\ RestInv' /\ kind' = kind
  <1> DEFINE w == "main"
             v == "save"
  <1>1. v \in {"main", "save"} /\ v \in Workers /\ w \in Workers /\ made \in Nat
    BY DEF Workers, World, Inner
  <1>2. AtOnce /\ RestOwn(own, made)
    BY DEF RestInv
  <1>3. CASE Resting(v) /\ RestOwn(own', made)
    <2>1. World' /\ LineInv(v)' /\ OwnNames' /\ Unconverted' /\ kind' = kind /\ made' = made
      BY <1>1, <1>2, <1>3, Rests DEF AtOnce, Resting
    <2>2. QED
      BY <1>2, <1>3, <2>1 DEF Resting, AtOnce, RestInv
  <1>4. CASE RestBegins
    <2>1. Resting(v) /\ own' = own
      BY <1>4 DEF RestBegins, Resting, To, At, life, data, conn, env, World, Inner, Outer, PCs, Workers
    <2>2. QED
      BY <1>2, <1>3, <2>1
  <1>5. CASE RestStarts
    <2>1. Resting(v) /\ own' = own
      BY <1>5 DEF RestStarts, Resting, To, At, life, data, env, World, Inner, Outer, PCs, Workers
    <2>2. QED
      BY <1>2, <1>3, <2>1
  <1>6. CASE RestAnswers
    <2>1. Resting(v)
      BY <1>6 DEF RestAnswers, Resting, life, work, data, env, World, Inner, Outer
    <2>2. PICK n : n = Head(own.waits)
      OBVIOUS
    <2>3. /\ own.waits # <<>>
          /\ \/ own.answers # <<>> /\ own' = [RestGiven(own, n, Head(own.answers)) EXCEPT !.answers = Tail(@)]
             \/ own' = [RestGiven(own, n, 0) EXCEPT !.overdue = @ \cup {n}]
      BY <1>6, <2>2, Zenon DEF RestAnswers, RestGiven
    <2>4. RestOwn(own', made)
      BY <1>1, <1>2, <2>2, <2>3, RestIsGiven
    <2>5. QED
      BY <1>3, <2>1, <2>4
  <1>7. CASE RestUpdated
    <2>1. Resting(v)
      BY <1>7 DEF RestUpdated, Resting, life, work, data, env, World, Inner, Outer
    <2>2. PICK n \in own.asked : own' = [own EXCEPT !.asked = @ \ {n}, !.answers = Append(@, n)]
      BY <1>7 DEF RestUpdated
    <2>3. RestOwn(own', made)
      BY <1>1, <1>2, <2>2, RestHears
    <2>4. QED
      BY <1>3, <2>1, <2>3
  <1>8. CASE \E d \in Devices : RestHandles(d)
    <2>1. PICK d \in Devices, bad \in BOOLEAN : own.waits = <<>> /\ Converted(d, bad)
      BY <1>8 DEF RestHandles
    <2>2. /\ Reads(1) /\ Deliver(Own(Good(<<Reading(d, 1, bad)>>))) /\ Lose(Bad(<<Reading(d, 1, bad)>>), "converter")
          /\ own' = IF own.expects /\ ~bad
                    THEN [own EXCEPT !.waits = Append(@, made + 1), !.asked = @ \cup {made + 1}] ELSE own
          /\ UNCHANGED <<kind, stopped, pc, hand, queue, session, link, events, rpc>>
      BY <2>1 DEF Converted, life, work, env
    <2>3. Outer' /\ pc' \in [Workers -> PCs] /\ DOMAIN hand' = Workers
      BY <2>2 DEF World, Inner, Outer
    <2>4. World' /\ LineInv(v)' /\ OwnNames' /\ Unconverted'
      BY <1>1, <1>2, <2>2, <2>3, SentAtOnce DEF AtOnce
    <2>5. made' = made + 1
      BY <2>2, MadeGrows
    <2>6. RestOwn(own', made')
      BY <1>1, <1>2, <2>1, <2>2, <2>5, RestAsks
    <2>7. QED
      BY <1>2, <2>2, <2>4, <2>6 DEF RestInv, AtOnce
  <1>9. CASE RestClose
    <2>1. Resting(v)
      BY <1>9 DEF RestClose, Resting, work, data, env, World, Inner, Outer
    <2>2. own' = [own EXCEPT !.ends = ~At("main", "idle")]
      BY <1>9 DEF RestClose
    <2>3. RestOwn(own', made)
      <3>1. /\ DOMAIN own' = DOMAIN own
            /\ \A f \in RestFields \ {"ends"} : f \in DOMAIN own => own'[f] = own[f]
        BY <2>2
      <3>2. DOMAIN own = RestFields
        BY <1>2 DEF RestOwn
      <3>3. /\ DOMAIN own' = RestFields /\ own'.waits = own.waits /\ own'.asked = own.asked
            /\ own'.answers = own.answers /\ own'.answered = own.answered /\ own'.overdue = own.overdue
        BY <3>1, <3>2 DEF RestFields
      <3>4. QED
        BY <1>2, <3>3, Zenon DEF RestOwn, Answered
    <2>4. QED
      BY <1>3, <2>1, <2>3
  <1>10. CASE RpcReturns(RestRpc(rpc.st)) \/ UpdateReturns(RestUpdate(rpc.st))
    <2>1. \A o \in RestRpc(rpc.st) : Replied(o)
      BY Returned DEF RestRpc, RestSent
    <2>2. Resting(v) /\ own' = own
      BY <1>1, <1>10, <2>1, HandlerRests
    <2>3. QED
      BY <1>2, <1>3, <2>2
  <1>11. CASE \E x \in Workers : \E at : "busy" \notin at /\ Ends(x, at)
    <2>1. Resting(v) /\ own' = own
      BY <1>1, <1>11, EndsRests
    <2>2. QED
      BY <1>2, <1>3, <2>1
  <1>12. QED
    BY <1>1, <1>4, <1>5, <1>6, <1>7, <1>8, <1>9, <1>10, <1>11
       DEF RestStep, RestMain, RestOutside, RestField, RestGateway, RestHandler

(* Readings that pass in any order.                                         *)
LEMMA FewerGone ==
    ASSUME NEW o, NEW m, NEW D, NEW C, C \subseteq D, NEW a, NEW b, NEW c, NEW d, Line(o, m, D, a, b, c, d)
    PROVE  Line(o, m, C, a, b, c, d)
  BY DEF Line, Gone

(* A new reading, and what was made is elsewhere.                            *)
LEMMA NewAside ==
    ASSUME NEW o, NEW m \in Nat, NEW D, NEW a, NEW b, NEW c, NEW d, NEW x \in Samples(m + 1), x.n = m + 1,
           Line(o, m, D, a, b, c, d)
    PROVE  Line(o, m + 1, D \cup {x}, a, b, c, d)
  <1>1. Line(o, m + 1, D, a, b, c, d)
    BY LineGrows
  <1>2. \A s \in Seq(Samples(m)) : Gone({x}, s)
    <2>1. \A y \in Samples(m) : x.n # y.n
      BY DEF Samples
    <2>2. \A s \in Seq(Samples(m)) : \A i \in DOMAIN s : s[i] \in Samples(m)
      OBVIOUS
    <2>3. QED
      BY <2>1, <2>2 DEF Gone
  <1>3. Gone({x}, a) /\ Gone({x}, b) /\ Gone({x}, c) /\ Gone({x}, d)
    BY <1>2 DEF Line
  <1>4. QED
    BY <1>1, <1>3, Thrown DEF Line

(* What was elsewhere comes last, or is thrown away.                         *)
LEMMA PutBack ==
    ASSUME NEW m \in Nat, NEW D, NEW a, NEW b, NEW c, NEW y \in Samples(m), Line(FALSE, m, D, a, b, c, <<>>),
           Gone({y}, a), Gone({y}, b), Gone({y}, c), Gone(D, <<y>>),
           NEW t \in Seq(Samples(m)), Part(t, <<y>>), NEW E, E \subseteq {y}, E \cap Range(t) = {}
    PROVE  Line(FALSE, m, D \cup E, a, b, c \o t, <<>>)
  <1> DEFINE s == <<y>>
  <1>1. s \in Seq(Samples(m)) /\ DOMAIN s = {1} /\ s[1] = y
    OBVIOUS
  <1> HIDE DEF s
  <1>2. /\ a \in Seq(Samples(m)) /\ b \in Seq(Samples(m)) /\ c \in Seq(Samples(m)) /\ D \subseteq Samples(m)
        /\ Sorted(FALSE, c) /\ Behind(FALSE, a, c) /\ Behind(FALSE, b, c) /\ Gone(D, c)
    BY DEF Line
  <1>3. Sorted(FALSE, s)
    BY <1>1 DEF Sorted
  <1>4. Behind(FALSE, a, s) /\ Behind(FALSE, b, s) /\ Behind(FALSE, c, s) /\ Range(s) = {y}
    BY <1>1 DEF Behind, Earlier, Gone, Range
  <1>5. Gone(D, s) /\ Part(t, s) /\ E \subseteq Range(s)
    BY <1>4, Zenon DEF s
  <1>6. FALSE \in BOOLEAN
    OBVIOUS
  <1>7. /\ Sorted(FALSE, t) /\ Behind(FALSE, a, t) /\ Behind(FALSE, b, t) /\ Behind(FALSE, c, t)
        /\ Gone(D, t) /\ Gone(E, t)
    BY <1>1, <1>3, <1>4, <1>5, <1>6, PartOf
  <1>8. Gone(E, a) /\ Gone(E, b) /\ Gone(E, c)
    BY DEF Gone
  <1>9. Gone(D \cup E, a) /\ Gone(D \cup E, b) /\ Gone(D \cup E, c) /\ Gone(D \cup E, t)
    BY <1>7, <1>8, Thrown DEF Line
  <1>10. /\ c \o t \in Seq(Samples(m)) /\ Sorted(FALSE, c \o t) /\ Behind(FALSE, a, c \o t)
         /\ Behind(FALSE, b, c \o t) /\ Gone(D \cup E, c \o t)
    BY <1>2, <1>6, <1>7, <1>9, Joined
  <1>11. D \cup E \subseteq Samples(m)
    BY <1>2
  <1>12. QED
    BY <1>9, <1>10, <1>11, EmptyIs DEF Line

-----------------------------------------------------------------------------
(* Request: every thread holds at most one reading, each a different one.    *)
Thread(m) == [at : {"start", "wait"}, x : {<<>>}] \cup {[at |-> "convert", x |-> <<y>>] : y \in Samples(m)}
Threads(t, m) == DOMAIN t = Devices /\ \A d \in Devices : t[d] \in Seq(Thread(m))
Held(t, m) == {y \in Samples(m) : \E d \in Devices : \E i \in DOMAIN t[d] : t[d][i].x = <<y>>}
HeldOnce(t) ==
    \A d, e \in Devices : \A i \in DOMAIN t[d], j \in DOMAIN t[e] :
        t[d][i].x # <<>> /\ t[e][j].x # <<>> /\ (d # e \/ i # j) => t[d][i].x[1].n # t[e][j].x[1].n
RequestStep ==
    \/ RequestMain \/ (\E d \in Devices : RequestDevice(d)) \/ (\E d \in Devices : RequestTimer(d))
    \/ RequestGateway \/ RequestHandler
RequestInv ==
    /\ DOMAIN own = {"due", "threads"} /\ Threads(own.threads, made) /\ HeldOnce(own.threads)
    /\ LineOf(FALSE, Held(own.threads, made), "main") /\ queue.convert = <<>>
    /\ \A y \in Held(own.threads, made) : Gone(Dropped, <<y>>) /\ (~stopped => ~y.late)
    /\ TimelyInv("main") /\ OwnNames /\ Excused({})

(* The threads of d change, each of the new ones holds what an old one held. *)
Follows(q, p) ==
    \E f \in [DOMAIN q -> Nat] :
        /\ \A j, k \in DOMAIN q : j # k => f[j] # f[k]
        /\ \A j \in DOMAIN q : q[j].x # <<>> => f[j] \in DOMAIN p /\ p[f[j]].x = q[j].x

LEMMA ThreadsFollow ==
    ASSUME NEW m \in Nat, NEW t, Threads(t, m), HeldOnce(t), NEW d \in Devices, NEW q \in Seq(Thread(m)),
           Follows(q, t[d])
    PROVE  LET u == [t EXCEPT ![d] = q] IN
           Threads(u, m) /\ HeldOnce(u) /\ Held(u, m) \subseteq Held(t, m)
  <1> DEFINE u == [t EXCEPT ![d] = q]
  <1>1. DOMAIN u = Devices /\ u[d] = q /\ \A e \in Devices \ {d} : u[e] = t[e]
    BY DEF Threads
  <1> HIDE DEF u
  <1>2. Threads(u, m)
    BY <1>1 DEF Threads
  <1>3. PICK f \in [DOMAIN q -> Nat] :
          /\ \A j, k \in DOMAIN q : j # k => f[j] # f[k]
          /\ \A j \in DOMAIN q : q[j].x # <<>> => f[j] \in DOMAIN t[d] /\ t[d][f[j]].x = q[j].x
    BY DEF Follows
  <1>4. \A y : <<y>> # <<>>
    OBVIOUS
  <1>5. Held(u, m) \subseteq Held(t, m)
    <2>1. SUFFICES ASSUME NEW y \in Held(u, m) PROVE y \in Held(t, m)
      OBVIOUS
    <2>6. PICK e \in Devices : y \in Samples(m) /\ \E i \in DOMAIN u[e] : u[e][i].x = <<y>>
      BY DEF Held
    <2>2. PICK i \in DOMAIN u[e] : u[e][i].x = <<y>> /\ y \in Samples(m)
      BY <2>6
    <2>3. CASE e = d
      <3>1. f[i] \in DOMAIN t[d] /\ t[d][f[i]].x = <<y>>
        BY <1>1, <1>3, <1>4, <2>2, <2>3
      <3>2. QED
        BY <2>2, <3>1 DEF Held
    <2>4. CASE e # d
      BY <1>1, <2>2, <2>4 DEF Held
    <2>5. QED
      BY <2>3, <2>4
  <1>9. ASSUME NEW e \in Devices, NEW i \in DOMAIN u[e], u[e][i].x # <<>>
        PROVE  \E k \in DOMAIN t[e] : /\ t[e][k].x = u[e][i].x /\ (e = d => k = f[i] /\ i \in DOMAIN q)
                                      /\ (e # d => k = i)
    <2>1. CASE e = d
      <3>1. i \in DOMAIN q /\ q[i].x # <<>> /\ q[i].x = u[e][i].x
        BY <1>1, <1>9, <2>1
      <3>2. f[i] \in DOMAIN t[d] /\ t[d][f[i]].x = u[e][i].x
        BY <1>3, <3>1
      <3>3. QED
        BY <2>1, <3>1, <3>2
    <2>2. CASE e # d
      BY <1>1, <1>9, <2>2
    <2>3. QED
      BY <2>1, <2>2
  <1>6. ASSUME NEW e1 \in Devices, NEW e2 \in Devices, NEW i \in DOMAIN u[e1], NEW j \in DOMAIN u[e2],
               u[e1][i].x # <<>>, u[e2][j].x # <<>>, e1 # e2 \/ i # j
        PROVE  u[e1][i].x[1].n # u[e2][j].x[1].n
    <2>1. PICK k \in DOMAIN t[e1] : /\ t[e1][k].x = u[e1][i].x
                                    /\ (e1 = d => k = f[i] /\ i \in DOMAIN q) /\ (e1 # d => k = i)
      BY <1>6, <1>9
    <2>2. PICK l \in DOMAIN t[e2] : /\ t[e2][l].x = u[e2][j].x
                                    /\ (e2 = d => l = f[j] /\ j \in DOMAIN q) /\ (e2 # d => l = j)
      BY <1>6, <1>9
    <2>3. e1 # e2 \/ k # l
      BY <1>3, <1>6, <2>1, <2>2
    <2>4. t[e1][k].x # <<>> /\ t[e2][l].x # <<>>
      BY <1>6, <2>1, <2>2
    <2>5. t[e1][k].x[1].n # t[e2][l].x[1].n
      BY <2>3, <2>4 DEF HeldOnce
    <2>6. QED
      BY <2>1, <2>2, <2>5
  <1>7. HeldOnce(u)
    BY <1>6 DEF HeldOnce
  <1>8. QED
    BY <1>2, <1>5, <1>7 DEF u

LEMMA WithoutIs ==
    ASSUME NEW S, NEW s \in Seq(S), NEW i \in 1..Len(s)
    PROVE  /\ Without(s, i) \in Seq(S) /\ Len(Without(s, i)) = Len(s) - 1 /\ Len(s) \in Nat
           /\ \A k \in 1..Len(s) - 1 : Without(s, i)[k] = IF k < i THEN s[k] ELSE s[k + 1]
  <1>1. Len(s) \in Nat /\ i \in Nat /\ i >= 1 /\ i <= Len(s)
    OBVIOUS
  <1>2. PICK a \in Seq(S) : /\ a = SubSeq(s, 1, i - 1) /\ Len(a) = i - 1
                            /\ \A k \in 1..i - 1 : a[k] = s[k]
    <2>1. /\ SubSeq(s, 1, i - 1) \in Seq(S) /\ Len(SubSeq(s, 1, i - 1)) = i - 1
          /\ \A k \in 1..i - 1 : SubSeq(s, 1, i - 1)[k] = s[k]
      BY <1>1
    <2>2. QED
      BY <2>1
  <1>3. PICK b \in Seq(S) : /\ b = SubSeq(s, i + 1, Len(s)) /\ Len(b) = Len(s) - i
                            /\ \A k \in 1..Len(s) - i : b[k] = s[i + k]
    <2>1. /\ SubSeq(s, i + 1, Len(s)) \in Seq(S) /\ Len(SubSeq(s, i + 1, Len(s))) = Len(s) - i
          /\ \A k \in 1..Len(s) - i : SubSeq(s, i + 1, Len(s))[k] = s[i + k]
      BY <1>1
    <2>2. QED
      BY <2>1
  <1> DEFINE u == a \o b
  <1>4. /\ u \in Seq(S) /\ DOMAIN u = 1..Len(a) + Len(b)
        /\ \A k \in 1..Len(a) : u[k] = a[k]
        /\ \A k \in 1..Len(b) : u[Len(a) + k] = b[k]
    BY Concatenated
  <1>5. u = Without(s, i)
    BY <1>2, <1>3 DEF Without
  <1> HIDE DEF u
  <1>6. Len(u) = Len(s) - 1
    <2>1. Len(a \o b) = Len(a) + Len(b)
      OBVIOUS
    <2>2. Len(a) = i - 1 /\ Len(b) = Len(s) - i
      BY <1>2, <1>3
    <2>3. (i - 1) + (Len(s) - i) = Len(s) - 1
      BY <1>1
    <2>4. QED
      BY <2>1, <2>2, <2>3 DEF u
  <1>7. ASSUME NEW k \in 1..Len(s) - 1 PROVE u[k] = IF k < i THEN s[k] ELSE s[k + 1]
    <2>1. CASE k < i
      <3>1. k \in 1..i - 1 /\ k \in 1..Len(a)
        BY <1>1, <1>2, <2>1
      <3>2. QED
        BY <1>2, <1>4, <2>1, <3>1
    <2>2. CASE ~(k < i)
      <3>1. PICK j \in Nat : j = k - (i - 1)
        BY <1>1, <2>2
      <3>2. j \in 1..Len(s) - i /\ j \in 1..Len(b) /\ Len(a) + j = k /\ i + j = k + 1
        BY <1>1, <1>2, <1>3, <2>2, <3>1
      <3>3. u[Len(a) + j] = b[j] /\ b[j] = s[i + j]
        BY <1>3, <1>4, <3>2
      <3>4. QED
        BY <2>2, <3>2, <3>3
    <2>3. QED
      BY <2>1, <2>2
  <1>8. QED
    BY <1>1, <1>4, <1>5, <1>6, <1>7

LEMMA Threaded ==
    ASSUME NEW m \in Nat, NEW t, Threads(t, m), NEW d \in Devices
    PROVE  /\ Follows(Append(t[d], [at |-> "start", x |-> <<>>]), t[d])
           /\ Append(t[d], [at |-> "start", x |-> <<>>]) \in Seq(Thread(m))
           /\ \A i \in 1..Len(t[d]) :
                 /\ Follows(Without(t[d], i), t[d]) /\ Without(t[d], i) \in Seq(Thread(m))
                 /\ t[d][i].at = "start" => /\ Follows([t[d] EXCEPT ![i].at = "wait"], t[d])
                                            /\ [t[d] EXCEPT ![i].at = "wait"] \in Seq(Thread(m))
  <1>1. PICK s \in Seq(Thread(m)) : s = t[d]
    BY DEF Threads
  <1>2. Len(s) \in Nat /\ DOMAIN s = 1..Len(s)
    OBVIOUS
  <1>3. PICK r \in Thread(m) : r = [at |-> "start", x |-> <<>>] /\ r.x = <<>>
    <2>1. [at |-> "start", x |-> <<>>] \in [at : {"start", "wait"}, x : {<<>>}]
      OBVIOUS
    <2>2. [at |-> "start", x |-> <<>>] \in Thread(m) /\ [at |-> "start", x |-> <<>>].x = <<>>
      BY <2>1 DEF Thread
    <2>3. QED
      BY <2>2
  <1>4. Append(s, r) \in Seq(Thread(m)) /\ Follows(Append(s, r), s)
    <2> DEFINE q == Append(s, r)
               f == [j \in DOMAIN q |-> j]
    <2>1. q \in Seq(Thread(m)) /\ DOMAIN q = 1..Len(s) + 1 /\ \A j \in 1..Len(s) : q[j] = s[j]
      BY <1>2
    <2>2. q[Len(s) + 1] = r
      BY <1>2
    <2> HIDE DEF q
    <2>3. f \in [DOMAIN q -> Nat]
      BY <1>2, <2>1
    <2>4. \A j \in DOMAIN q : q[j].x # <<>> => j \in DOMAIN s /\ s[j].x = q[j].x
      BY <1>2, <1>3, <2>1, <2>2
    <2>5. Follows(q, s)
      BY <2>3, <2>4 DEF Follows
    <2>6. QED
      BY <2>1, <2>5 DEF q
  <1>5. ASSUME NEW i \in 1..Len(s)
        PROVE  Without(s, i) \in Seq(Thread(m)) /\ Follows(Without(s, i), s)
    <2> DEFINE q == Without(s, i)
               f == [j \in DOMAIN q |-> IF j < i THEN j ELSE j + 1]
    <2>1. /\ q \in Seq(Thread(m)) /\ Len(q) = Len(s) - 1
          /\ \A k \in 1..Len(s) - 1 : q[k] = IF k < i THEN s[k] ELSE s[k + 1]
      BY WithoutIs
    <2> HIDE DEF q
    <2>2. DOMAIN q = 1..Len(s) - 1
      BY <1>2, <2>1
    <2>3. f \in [DOMAIN q -> Nat]
      BY <1>2, <2>2
    <2>4. \A j, k \in DOMAIN q : j # k => f[j] # f[k]
      BY <1>2, <2>2
    <2>5. \A j \in DOMAIN q : f[j] \in DOMAIN s /\ s[f[j]] = q[j]
      BY <1>2, <2>1, <2>2
    <2> HIDE DEF f
    <2>6. Follows(q, s)
      BY <2>3, <2>4, <2>5 DEF Follows
    <2>7. QED
      BY <2>1, <2>6 DEF q
  <1>6. ASSUME NEW i \in 1..Len(s), s[i].at = "start"
        PROVE  [s EXCEPT ![i].at = "wait"] \in Seq(Thread(m)) /\ Follows([s EXCEPT ![i].at = "wait"], s)
    <2> DEFINE q == [s EXCEPT ![i].at = "wait"]
               f == [j \in DOMAIN q |-> j]
    <2>1. s[i] \in Thread(m)
      OBVIOUS
    <2>2. s[i] \in [at : {"start", "wait"}, x : {<<>>}]
      BY <1>6, <2>1 DEF Thread
    <2>3. [s[i] EXCEPT !.at = "wait"] \in Thread(m) /\ [s[i] EXCEPT !.at = "wait"].x = s[i].x
      BY <2>2 DEF Thread
    <2>4. q \in Seq(Thread(m)) /\ DOMAIN q = DOMAIN s /\ \A j \in DOMAIN q : q[j].x = s[j].x
      BY <2>3
    <2> HIDE DEF q
    <2>5. f \in [DOMAIN q -> Nat]
      BY <1>2, <2>4
    <2>6. Follows(q, s)
      BY <2>4, <2>5 DEF Follows
    <2>7. QED
      BY <2>4, <2>6 DEF q
  <1>7. QED
    BY <1>1, <1>3, <1>4, <1>5, <1>6

\* The i-th thread of d holds y now, everything else is as it was.
HoldsNow(t, u, d, i, y) ==
    /\ DOMAIN u = Devices /\ DOMAIN u[d] = DOMAIN t[d] /\ u[d][i].x = <<y>>
    /\ \A j \in DOMAIN u[d] \ {i} : u[d][j] = t[d][j]
    /\ \A e \in Devices \ {d} : u[e] = t[e]

LEMMA ThreadHolds ==
    ASSUME NEW m \in Nat, NEW t, Threads(t, m), HeldOnce(t), NEW d \in Devices, NEW i \in Nat,
           NEW y \in Samples(m + 1), y.n = m + 1, NEW u, HoldsNow(t, u, d, i, y),
           u[d] \in Seq(Thread(m + 1))
    PROVE  Threads(u, m + 1) /\ HeldOnce(u) /\ Held(u, m + 1) \subseteq Held(t, m) \cup {y}
  <1>3. Thread(m) \subseteq Thread(m + 1)
    <2>1. Samples(m) \subseteq Samples(m + 1)
      BY SamplesGrow
    <2>2. QED
      BY <2>1 DEF Thread
  <1>5. \A p \in Seq(Thread(m)) : p \in Seq(Thread(m + 1))
    BY <1>3, SeqMonotonic
  <1>8. Threads(u, m + 1)
    BY <1>5 DEF Threads, HoldsNow
  <1>9. \A e \in Devices : \A j \in DOMAIN t[e] :
          t[e][j].x = <<>> \/ \E z \in Samples(m) : t[e][j].x = <<z>> /\ z.n # m + 1
    <2>1. ASSUME NEW e \in Devices, NEW j \in DOMAIN t[e]
          PROVE  t[e][j].x = <<>> \/ \E z \in Samples(m) : t[e][j].x = <<z>> /\ z.n # m + 1
      <3>1. t[e][j] \in Thread(m)
        BY DEF Threads
      <3>2. \A z \in Samples(m) : z.n # m + 1
        BY DEF Samples
      <3>3. t[e][j].x = <<>> \/ \E z \in Samples(m) : t[e][j].x = <<z>>
        BY <3>1 DEF Thread
      <3>4. QED
        BY <3>2, <3>3
    <2>2. QED
      BY <2>1
  <1>10. \A e \in Devices : \A j \in DOMAIN u[e] :
            \/ e = d /\ j = i /\ u[e][j].x = <<y>>
            \/ (e # d \/ j # i) /\ j \in DOMAIN t[e] /\ u[e][j].x = t[e][j].x
    BY DEF HoldsNow
  <1>11. \A e \in Devices : \A j \in DOMAIN t[e] : t[e][j].x # <<>> => t[e][j].x[1].n # m + 1
    BY <1>9
  <1>12. <<y>>[1].n = m + 1
    OBVIOUS
  <1>13. ASSUME NEW e1 \in Devices, NEW e2 \in Devices, NEW j \in DOMAIN u[e1], NEW k \in DOMAIN u[e2],
                u[e1][j].x # <<>>, u[e2][k].x # <<>>, e1 # e2 \/ j # k
         PROVE  u[e1][j].x[1].n # u[e2][k].x[1].n
    <2>1. CASE e1 = d /\ j = i
      <3>1. k \in DOMAIN t[e2] /\ u[e2][k].x = t[e2][k].x
        BY <1>10, <1>13, <2>1
      <3>2. u[e1][j].x[1].n = m + 1
        BY <1>10, <1>12, <2>1
      <3>3. QED
        BY <1>11, <1>13, <3>1, <3>2
    <2>2. CASE e2 = d /\ k = i
      <3>1. j \in DOMAIN t[e1] /\ u[e1][j].x = t[e1][j].x
        BY <1>10, <1>13, <2>2
      <3>2. u[e2][k].x[1].n = m + 1
        BY <1>10, <1>12, <2>2
      <3>3. QED
        BY <1>11, <1>13, <3>1, <3>2
    <2>3. CASE ~(e1 = d /\ j = i) /\ ~(e2 = d /\ k = i)
      <3>1. /\ j \in DOMAIN t[e1] /\ u[e1][j].x = t[e1][j].x
            /\ k \in DOMAIN t[e2] /\ u[e2][k].x = t[e2][k].x
        BY <1>10, <2>3
      <3>2. QED
        BY <1>13, <3>1 DEF HeldOnce
    <2>4. QED
      BY <2>1, <2>2, <2>3
  <1>14. Held(u, m + 1) \subseteq Held(t, m) \cup {y}
    <2>1. SUFFICES ASSUME NEW z \in Held(u, m + 1), z # y PROVE z \in Held(t, m)
      OBVIOUS
    <2>2. PICK e \in Devices : \E j \in DOMAIN u[e] : u[e][j].x = <<z>>
      BY DEF Held
    <2>3. PICK j \in DOMAIN u[e] : u[e][j].x = <<z>>
      BY <2>2
    <2>4. <<z>> # <<y>> /\ <<z>> # <<>>
      BY <2>1
    <2>5. j \in DOMAIN t[e] /\ t[e][j].x = <<z>>
      BY <1>10, <2>3, <2>4
    <2>6. PICK w \in Samples(m) : t[e][j].x = <<w>>
      BY <1>9, <2>4, <2>5
    <2>7. w = z
      BY <2>5, <2>6
    <2>8. QED
      BY <2>5, <2>6, <2>7 DEF Held
  <1>15. HeldOnce(u)
    BY <1>13 DEF HeldOnce
  <1>16. QED
    BY <1>8, <1>14, <1>15

LEMMA GoneOne == \A D, y : Gone(D, <<y>>) <=> \A x \in D : x.n # y.n
  <1>1. \A y : DOMAIN <<y>> = {1} /\ <<y>>[1] = y
    OBVIOUS
  <1>2. QED
    BY <1>1 DEF Gone

(* What the threads hold is no more than it was.                            *)
LEMMA RequestSame ==
    ASSUME World, RequestInv, Resting("main"), DOMAIN own' = {"due", "threads"},
           Threads(own'.threads, made), HeldOnce(own'.threads),
           Held(own'.threads, made) \subseteq Held(own.threads, made)
    PROVE  World' /\ RequestInv' /\ kind' = kind
  <1> DEFINE w == "main"
  <1>0. PICK X, Y : X = Held(own.threads, made) /\ Y = Held(own'.threads, made)
    OBVIOUS
  <1>1. w \in {"main", "save"} /\ w \in Workers
    BY DEF Workers
  <1>2. /\ World' /\ TimelyInv(w)' /\ OwnNames' /\ kind' = kind /\ made' = made /\ lost' = lost /\ sent' = sent
        /\ queue'.save = queue.save /\ queue'.convert = queue.convert /\ hand'[w] = hand[w]
        /\ (pc[w] = "busy" => pc'[w] = "busy") /\ (stopped => stopped') /\ stopped \in BOOLEAN
    BY <1>1, Rests DEF Resting, RequestInv, World, Outer
  <1>3. Given' = Given /\ Dropped' = Dropped /\ Excused({})'
    BY <1>2 DEF Given, Dropped, Excused, RequestInv
  <1>4. Held(own.threads, made)' = Y /\ Threads(own.threads, made)'
    BY <1>0, <1>2
  <1>5. LineOf(FALSE, X, w) /\ Y \subseteq X /\ \A y \in X : Gone(Dropped, <<y>>) /\ (~stopped => ~y.late)
    BY <1>0 DEF RequestInv
  <1>6. Line(FALSE, made, Dropped \cup X, Given, hand[w], queue.save, queue.convert)
    BY <1>5 DEF LineOf
  <1>7. Line(FALSE, made, Dropped \cup Y, Given, hand[w], queue.save, queue.convert)
    <2>1. Dropped \cup Y \subseteq Dropped \cup X
      BY <1>5
    <2>2. QED
      BY <1>6, <2>1, FewerGone
  <1>8. LineOf(FALSE, Y, w)'
    <2>1. Dropped' \cup Y = Dropped \cup Y
      BY <1>3
    <2>2. pc'[w] # "busy" => hand'[w] = <<>>
      BY <1>2, <1>5 DEF LineOf
    <2>3. Line(FALSE, made', Dropped' \cup Y, Given', hand'[w], queue'.save, queue'.convert)
      BY <1>2, <1>3, <1>7, <2>1
    <2>4. QED
      BY <2>2, <2>3 DEF LineOf
  <1>9. LineOf(FALSE, Held(own.threads, made), w)'
    BY <1>4, <1>8 DEF LineOf
  <1>10. \A y \in Y : Gone(Dropped', <<y>>) /\ (~stopped' => ~y.late)
    BY <1>2, <1>3, <1>5
  <1>11. QED
    BY <1>2, <1>3, <1>4, <1>9, <1>10 DEF RequestInv

(* The loop gives what was converted to the gateway.                        *)
LEMMA RequestGiven ==
    ASSUME World, RequestInv, RequestProcesses
    PROVE  World' /\ RequestInv' /\ kind' = kind
  <1> DEFINE w == "main"
  <1>1. w \in {"main", "save"} /\ w \in Workers /\ "idle" \in PCs \ {"busy"} /\ FALSE \in BOOLEAN
    BY DEF Workers, PCs
  <1>2. PICK X : X = Held(own.threads, made)
    OBVIOUS
  <1>3. LineOf(FALSE, X, w) /\ \A y \in X : Gone(Dropped, <<y>>) /\ (~stopped => ~y.late)
    BY <1>2 DEF RequestInv
  <1>4. CASE ~stopped /\ TakesHead(w, "idle")
    <2>1. /\ World' /\ LineOf(FALSE, X, w)' /\ UNCHANGED <<kind, stopped, sent, lost, made, own>>
          /\ TimelyInv(w)' /\ queue'.convert = queue.convert
      BY <1>1, <1>3, <1>4, HeadTakenOf DEF RequestInv
    <2>2. Dropped' = Dropped /\ OwnNames' /\ Excused({})'
      BY <2>1 DEF Dropped, OwnNames, Excused, RequestInv
    <2>3. X = Held(own'.threads, made')
      BY <1>2, <2>1
    <2>4. QED
      BY <1>3, <2>1, <2>2, <2>3 DEF RequestInv
  <1>5. CASE SavesTaken(w, "idle")
    <2>1. /\ World' /\ LineOf(FALSE, X, w)' /\ UNCHANGED <<kind, stopped, queue, made, own>>
          /\ TimelyInv(w)' /\ OwnNames'
          /\ \A l \in lost' : l \in lost \/ (l.why = "converter" /\ l.s.bad)
      BY <1>1, <1>3, <1>5, TakenSavedOf DEF RequestInv
    <2>2. Excused({})'
      BY <2>1 DEF Excused, RequestInv
    <2>3. X = Held(own'.threads, made')
      BY <1>2, <2>1
    <2>4. PICK b \in Seq(Samples(made)) : b = hand[w] /\ Gone(Dropped \cup X, b)
      BY <1>3 DEF LineOf, Line
    <2>5. lost \subseteq Loss(made) /\ made \in Nat /\ Lose(Bad(b), "converter")
      BY <1>5, <2>4 DEF SavesTaken, World, Inner
    <2>6. Dropped' = Dropped \cup Bad(b) /\ Bad(b) \subseteq Range(b)
      BY <2>5, BadLost, GoodOnes
    <2>7. \A y \in X : Gone(Dropped', <<y>>)
      <3>1. SUFFICES ASSUME NEW y \in X, NEW z \in Dropped' PROVE z.n # y.n
        BY GoneOne
      <3>2. CASE z \in Dropped
        BY <1>3, <3>2, GoneOne
      <3>3. CASE z \in Bad(b)
        <4>1. PICK i \in DOMAIN b : z = b[i]
          BY <2>6, <3>3 DEF Range
        <4>2. QED
          BY <2>4, <4>1 DEF Gone
      <3>4. QED
        BY <2>6, <3>1, <3>2, <3>3
    <2>8. QED
      BY <1>3, <2>1, <2>2, <2>3, <2>7 DEF RequestInv
  <1>6. QED
    BY <1>4, <1>5 DEF RequestProcesses, SavesHead

(* A thread receives a reading.                                             *)
LEMMA RequestHears ==
    ASSUME World, RequestInv, NEW d \in Devices, NEW i \in 1..Len(own.threads[d]), NEW bad \in BOOLEAN,
           own.threads[d][i].at = "wait", Reads(1),
           own' = [own EXCEPT !.threads[d][i] = [at |-> "convert", x |-> <<Reading(d, 1, bad)>>]],
           UNCHANGED <<life, work, queue, sent, lost, session, known, env, rpc>>
    PROVE  World' /\ RequestInv' /\ kind' = kind
  <1> DEFINE w == "main"
  <1>1. PICK y \in Samples(made + 1) : y = Reading(d, 1, bad) /\ y.n = made + 1 /\ y.late = stopped
    BY ReadingIs
  <1>2. PICK t : t = own.threads
    OBVIOUS
  <1>3. /\ made \in Nat /\ Threads(t, made) /\ HeldOnce(t) /\ i \in 1..Len(t[d]) /\ t[d][i].x = <<>>
        /\ w \in Workers /\ FALSE \in BOOLEAN
    <2>1. made \in Nat /\ Threads(t, made) /\ HeldOnce(t) /\ i \in 1..Len(t[d])
      BY <1>2, ReadingIs DEF RequestInv
    <2>2. PICK s \in Seq(Thread(made)) : s = t[d]
      BY <2>1 DEF Threads
    <2>3. s[i] \in Thread(made) /\ s[i].at = "wait"
      BY <1>2, <2>1, <2>2
    <2>4. s[i].x = <<>>
      BY <2>3 DEF Thread
    <2>5. QED
      BY <2>1, <2>2, <2>4 DEF Workers
  <1>0. PICK r \in Thread(made + 1) : r = [at |-> "convert", x |-> <<y>>] /\ r.x = <<y>>
    <2>1. [at |-> "convert", x |-> <<y>>] \in Thread(made + 1)
      BY DEF Thread
    <2>2. QED
      BY <2>1
  <1>4. PICK s \in Seq(Thread(made + 1)) :
            /\ s = [t[d] EXCEPT ![i] = r]
            /\ DOMAIN s = DOMAIN t[d] /\ s[i] = r /\ \A j \in DOMAIN s \ {i} : s[j] = t[d][j]
    <2>1. PICK p \in Seq(Thread(made + 1)) : p = t[d]
      <3>0. made \in Nat /\ made + 1 \in Nat /\ made <= made + 1
        BY <1>3
      <3>1. Samples(made) \subseteq Samples(made + 1)
        BY <3>0, SamplesGrow
      <3>2. Thread(made) \subseteq Thread(made + 1)
        BY <3>1 DEF Thread
      <3>3. Seq(Thread(made)) \subseteq Seq(Thread(made + 1))
        BY <3>2, SeqMonotonic
      <3>4. QED
        BY <1>3, <3>3 DEF Threads
    <2>2. i \in DOMAIN p
      BY <1>3, <2>1
    <2>3. /\ [p EXCEPT ![i] = r] \in Seq(Thread(made + 1)) /\ DOMAIN [p EXCEPT ![i] = r] = DOMAIN p
          /\ [p EXCEPT ![i] = r][i] = r /\ \A j \in DOMAIN p \ {i} : [p EXCEPT ![i] = r][j] = p[j]
      BY <2>2
    <2>4. QED
      BY <2>1, <2>3
  <1>40. PICK u :
            /\ u = [t EXCEPT ![d] = s]
            /\ DOMAIN u = Devices /\ u[d] = s /\ \A e \in Devices \ {d} : u[e] = t[e]
    <2>1. PICK u : u = [t EXCEPT ![d] = s]
      OBVIOUS
    <2>2. DOMAIN u = Devices /\ u[d] = s /\ \A e \in Devices \ {d} : u[e] = t[e]
      BY <1>3, <2>1 DEF Threads
    <2>3. QED
      BY <2>1, <2>2
  <1>5. own'.threads = u /\ DOMAIN own' = {"due", "threads"}
    BY <1>0, <1>1, <1>2, <1>4, <1>40 DEF RequestInv
  <1>6. Threads(u, made + 1) /\ HeldOnce(u) /\ Held(u, made + 1) \subseteq Held(t, made) \cup {y}
    <2>1. s[i].x = <<y>>
      BY <1>0, <1>4, <1>40
    <2>2. /\ DOMAIN s = DOMAIN t[d] /\ \A j \in DOMAIN s \ {i} : s[j] = t[d][j]
          /\ DOMAIN u = Devices /\ u[d] = s /\ \A e \in Devices \ {d} : u[e] = t[e]
      BY <1>4, <1>40
    <2>3. i \in Nat
      OBVIOUS
    <2>4. HoldsNow(t, u, d, i, y) /\ u[d] \in Seq(Thread(made + 1))
      BY <2>1, <2>2 DEF HoldsNow
    <2>5. QED
      BY <1>1, <1>3, <2>3, <2>4, ThreadHolds
  <1>7. PICK X, Y : X = Held(t, made) /\ Y = Held(u, made + 1)
    OBVIOUS
  <1>8. LineOf(FALSE, X, w) /\ \A z \in X : Gone(Dropped, <<z>>) /\ (~stopped => ~z.late)
    BY <1>2, <1>7 DEF RequestInv
  <1>9. /\ made' = made + 1 /\ made' \in 0..MaxSamples
        /\ sent \in Seq(Entry(made')) /\ lost \subseteq Loss(made')
    BY MadeGrows
  <1>10. UNCHANGED <<kind, stopped, pc, hand, queue, sent, lost, session, known, link, events, rpc>>
    BY DEF life, work, env
  <1>11. World'
    BY <1>9, <1>10 DEF World, Outer, Inner
  <1>12. /\ Given' = Given /\ Dropped' = Dropped /\ OwnNames' /\ Excused({})' /\ TimelyInv(w)'
    BY <1>10 DEF Given, Dropped, OwnNames, Excused, TimelyInv, Timely, RequestInv
  <1>13. Line(FALSE, made + 1, (Dropped \cup X) \cup {y}, Given, hand[w], queue.save, queue.convert)
    <2>1. queue.convert = <<>> /\ Line(FALSE, made, Dropped \cup X, Given, hand[w], queue.save, queue.convert)
      BY <1>8 DEF LineOf, RequestInv
    <2>2. QED
      BY <1>1, <1>3, <2>1, NewAside
  <1>14. Line(FALSE, made + 1, Dropped \cup Y, Given, hand[w], queue.save, queue.convert)
    <2>1. Dropped \cup Y \subseteq (Dropped \cup X) \cup {y}
      BY <1>6, <1>7
    <2>2. QED
      BY <1>13, <2>1, FewerGone
  <1>15. LineOf(FALSE, Y, w)'
    <2>1. Dropped' \cup Y = Dropped \cup Y /\ (pc'[w] # "busy" => hand'[w] = <<>>)
      BY <1>8, <1>10, <1>12 DEF LineOf
    <2>2. Line(FALSE, made', Dropped' \cup Y, Given', hand'[w], queue'.save, queue'.convert)
      BY <1>9, <1>10, <1>12, <1>14, <2>1
    <2>3. QED
      BY <2>1, <2>2 DEF LineOf
  <1>16. \A z \in Y : Gone(Dropped', <<z>>) /\ (~stopped' => ~z.late)
    <2>1. SUFFICES ASSUME NEW z \in Y PROVE Gone(Dropped, <<z>>) /\ (~stopped => ~z.late)
      BY <1>10, <1>12
    <2>2. CASE z \in X
      BY <1>8, <2>2
    <2>3. CASE z = y
      <3>1. Dropped \subseteq Samples(made) /\ \A x \in Samples(made) : x.n # made + 1
        <4>1. Dropped \subseteq Samples(made)
          BY <1>8 DEF LineOf, Line
        <4>2. \A x \in Samples(made) : x.n # made + 1
          BY <1>3 DEF Samples
        <4>3. QED
          BY <4>1, <4>2
      <3>2. Gone(Dropped, <<z>>)
        BY <1>1, <2>3, <3>1, GoneOne
      <3>3. QED
        BY <1>1, <2>3, <3>2
    <2>4. QED
      BY <1>6, <1>7, <2>2, <2>3
  <1>17. Held(own.threads, made)' = Y /\ Threads(own.threads, made)' /\ HeldOnce(own.threads)'
    BY <1>5, <1>6, <1>7, <1>9
  <1>18. QED
    BY <1>5, <1>8, <1>10, <1>11, <1>12, <1>15, <1>16, <1>17 DEF RequestInv, LineOf

LEMMA HeldApart ==
    ASSUME NEW m, NEW t, HeldOnce(t), NEW y \in Held(t, m), NEW z \in Held(t, m), y # z
    PROVE  y.n # z.n
  <1>1. PICK d \in Devices : \E i \in DOMAIN t[d] : t[d][i].x = <<y>>
    BY DEF Held
  <1>2. PICK i \in DOMAIN t[d] : t[d][i].x = <<y>>
    BY <1>1
  <1>3. PICK e \in Devices : \E j \in DOMAIN t[e] : t[e][j].x = <<z>>
    BY DEF Held
  <1>4. PICK j \in DOMAIN t[e] : t[e][j].x = <<z>>
    BY <1>3
  <1>5. <<y>> # <<>> /\ <<z>> # <<>> /\ <<y>>[1] = y /\ <<z>>[1] = z
    OBVIOUS
  <1>6. d # e \/ i # j
    BY <1>2, <1>4, <1>5
  <1>7. t[d][i].x # <<>> /\ t[e][j].x # <<>>
    BY <1>2, <1>4, <1>5
  <1>8. t[d][i].x[1].n # t[e][j].x[1].n
    BY <1>6, <1>7 DEF HeldOnce
  <1>9. QED
    BY <1>2, <1>4, <1>5, <1>8

(* It converts what it received, and is done.                               *)
LEMMA RequestPutsBack ==
    ASSUME World, RequestInv, NEW d \in Devices, NEW i \in 1..Len(own.threads[d]), RequestConverts(d, i)
    PROVE  World' /\ RequestInv' /\ kind' = kind
  <1> DEFINE w == "main"
  <1>1. PICK t : t = own.threads
    OBVIOUS
  <1>2. /\ made \in Nat /\ Threads(t, made) /\ HeldOnce(t) /\ i \in 1..Len(t[d]) /\ t[d][i].at = "convert"
        /\ w \in {"main", "save"} /\ w \in Workers
    BY <1>1 DEF RequestInv, World, Inner, RequestConverts, Workers
  <1>3. PICK s \in Seq(Thread(made)) : s = t[d]
    BY <1>2 DEF Threads
  <1>4. PICK y \in Samples(made) : s[i] = [at |-> "convert", x |-> <<y>>]
    <2>1. s[i] \in Thread(made) /\ s[i].at = "convert"
      BY <1>2, <1>3
    <2>2. QED
      BY <2>1 DEF Thread
  <1>5. t[d][i].x = <<y>> /\ y \in Held(t, made)
    <2>1. t[d][i].x = <<y>> /\ i \in DOMAIN t[d]
      BY <1>2, <1>3, <1>4
    <2>2. QED
      BY <2>1 DEF Held
  <1>6. PICK b \in Seq(Samples(made)) : b = <<y>>
    <2>1. <<y>> \in Seq(Samples(made))
      OBVIOUS
    <2>2. QED
      BY <2>1
  <1>7. /\ queue' = [queue EXCEPT !.save = @ \o Good(b)] /\ Lose(Bad(b), "converter")
        /\ own' = [own EXCEPT !.threads[d] = Without(@, i)]
        /\ UNCHANGED <<kind, stopped, pc, hand, made, sent, session, known, link, events, rpc>>
    BY <1>1, <1>5, <1>6 DEF RequestConverts, life, work, env
  <1>8. PICK u : u = [t EXCEPT ![d] = Without(t[d], i)]
    OBVIOUS
  <1>9. own'.threads = u /\ DOMAIN own' = {"due", "threads"}
    BY <1>1, <1>7, <1>8 DEF RequestInv
  <1>10. PICK q \in Seq(Thread(made)) : q = Without(s, i) /\ Follows(q, t[d])
    BY <1>2, <1>3, Threaded
  <1>11. Threads(u, made) /\ HeldOnce(u) /\ Held(u, made) \subseteq Held(t, made)
    BY <1>2, <1>3, <1>8, <1>10, ThreadsFollow
  <1>12. y \notin Held(u, made)
    <2>1. SUFFICES ASSUME y \in Held(u, made) PROVE FALSE
      OBVIOUS
    <2>2. PICK e \in Devices : \E j \in DOMAIN u[e] : u[e][j].x = <<y>>
      BY <2>1 DEF Held
    <2>3. PICK j \in DOMAIN u[e] : u[e][j].x = <<y>>
      BY <2>2
    <2>4. PICK k \in DOMAIN t[e] : t[e][k].x = <<y>> /\ (e # d \/ k # i)
      <3>1. CASE e = d
        <4>1. u[e] = q
          BY <1>2, <1>3, <1>8, <1>10, <3>1 DEF Threads
        <4>2. /\ Len(q) = Len(s) - 1 /\ Len(s) \in Nat
              /\ \A k \in 1..Len(s) - 1 : q[k] = IF k < i THEN s[k] ELSE s[k + 1]
          BY <1>2, <1>3, <1>10, WithoutIs
        <4>3. j \in 1..Len(s) - 1 /\ i \in 1..Len(s)
          <5>1. j \in DOMAIN q /\ DOMAIN q = 1..Len(q)
            BY <1>10, <2>3, <4>1
          <5>2. i \in 1..Len(s)
            BY <1>2, <1>3
          <5>3. QED
            BY <4>2, <5>1, <5>2
        <4>4. CASE j < i
          <5>1. j \in DOMAIN s /\ j # i /\ q[j] = s[j]
            <6>1. q[j] = s[j] /\ j # i
              BY <4>2, <4>3, <4>4
            <6>2. j \in 1..Len(s)
              BY <4>2, <4>3
            <6>3. QED
              BY <1>2, <1>3, <6>1, <6>2
          <5>2. QED
            BY <1>3, <2>3, <3>1, <4>1, <5>1
        <4>5. CASE ~(j < i)
          <5>1. j + 1 \in DOMAIN s /\ j + 1 # i /\ q[j] = s[j + 1]
            <6>1. q[j] = s[j + 1]
              BY <4>2, <4>3, <4>5
            <6>2. j + 1 \in 1..Len(s) /\ j + 1 # i
              BY <4>2, <4>3, <4>5
            <6>3. QED
              BY <1>2, <1>3, <6>1, <6>2
          <5>2. QED
            BY <1>3, <2>3, <3>1, <4>1, <5>1
        <4>6. QED
          BY <4>4, <4>5
      <3>2. CASE e # d
        BY <1>2, <1>8, <2>3, <3>2 DEF Threads
      <3>3. QED
        BY <3>1, <3>2
    <2>5. t[e][k].x # <<>> /\ t[d][i].x # <<>> /\ i \in DOMAIN t[d]
      BY <1>2, <1>3, <1>5, <2>4
    <2>6. t[e][k].x[1].n # t[d][i].x[1].n
      <3>1. HeldOnce(t) /\ k \in DOMAIN t[e] /\ d \in Devices /\ e \in Devices
        BY <1>2, <2>4
      <3>2. QED
        BY <2>4, <2>5, <3>1 DEF HeldOnce
    <2>7. QED
      BY <1>5, <2>4, <2>6
  <1>13. PICK X, Y : X = Held(t, made) /\ Y = Held(u, made)
    OBVIOUS
  <1>14. /\ LineOf(FALSE, X, w) /\ \A z \in X : Gone(Dropped, <<z>>) /\ (~stopped => ~z.late)
         /\ y \in X /\ y \notin Y /\ Y \subseteq X
    BY <1>1, <1>5, <1>11, <1>12, <1>13 DEF RequestInv
  <1>15. \A z \in Y : z.n # y.n
    BY <1>2, <1>5, <1>13, <1>14, HeldApart
  <1>16. /\ Good(b) \in Seq(Samples(made)) /\ Part(Good(b), b) /\ Bad(b) \cap Range(Good(b)) = {}
         /\ Bad(b) \subseteq {y} /\ \A x \in Range(Good(b)) : x = y
    <2>1. Range(b) = {y}
      BY <1>6 DEF Range
    <2>2. QED
      BY <1>2, <2>1, GoodOnes
  <1>17. /\ lost' \subseteq Loss(made) /\ Dropped' = Dropped \cup Bad(b)
         /\ \A l \in lost' : l \in lost \/ (l.why = "converter" /\ l.s.bad)
    BY <1>2, <1>7, BadLost DEF World, Inner
  <1>18. Line(FALSE, made, (Dropped \cup Y) \cup Bad(b), Given, hand[w], queue.save \o Good(b), queue.convert)
    <2>1. Line(FALSE, made, Dropped \cup X, Given, hand[w], queue.save, <<>>) /\ queue.convert = <<>>
      BY <1>14 DEF LineOf, RequestInv
    <2>2. Line(FALSE, made, Dropped \cup Y, Given, hand[w], queue.save, <<>>)
      <3>1. Dropped \cup Y \subseteq Dropped \cup X
        BY <1>14
      <3>2. QED
        BY <2>1, <3>1, FewerGone
    <2>3. Gone({y}, Given) /\ Gone({y}, hand[w]) /\ Gone({y}, queue.save)
      BY <1>14, <2>1 DEF Line, Gone
    <2>4. Gone(Dropped \cup Y, <<y>>)
      BY <1>14, <1>15, GoneOne
    <2>5. Part(Good(b), <<y>>)
      BY <1>6, <1>16
    <2>6. PICK g, E, D, c : g \in Seq(Samples(made)) /\ g = Good(b) /\ E = Bad(b) /\ D = Dropped \cup Y /\ c = queue.save
      BY <1>16
    <2>7. Line(FALSE, made, D \cup E, Given, hand[w], c \o g, <<>>)
      BY <1>2, <1>16, <2>2, <2>3, <2>4, <2>5, <2>6, PutBack
    <2>8. QED
      BY <2>1, <2>6, <2>7
  <1>19. /\ queue'.save = queue.save \o Good(b) /\ queue'.convert = queue.convert /\ DOMAIN queue' = Queues
    BY <1>7 DEF World, Inner, Queues
  <1>20. World'
    BY <1>7, <1>17, <1>19 DEF World, Outer, Inner
  <1>21. /\ Given' = Given /\ OwnNames' /\ Excused({})'
    BY <1>7, <1>17 DEF Given, OwnNames, Excused, RequestInv
  <1>22. LineOf(FALSE, Y, w)'
    <2>1. (Dropped \cup Y) \cup Bad(b) = Dropped' \cup Y
      BY <1>17
    <2>2. pc'[w] # "busy" => hand'[w] = <<>>
      BY <1>7, <1>14 DEF LineOf
    <2>3. Line(FALSE, made', Dropped' \cup Y, Given', hand'[w], queue'.save, queue'.convert)
      BY <1>7, <1>18, <1>19, <1>21, <2>1
    <2>4. QED
      BY <2>2, <2>3 DEF LineOf
  <1>23. \A z \in Y : Gone(Dropped', <<z>>) /\ (~stopped' => ~z.late)
    <2>1. SUFFICES ASSUME NEW z \in Y PROVE Gone(Dropped', <<z>>) /\ (~stopped' => ~z.late)
      OBVIOUS
    <2>2. \A x \in Dropped' : x.n # z.n
      BY <1>14, <1>15, <1>16, <1>17, GoneOne
    <2>3. QED
      BY <1>7, <1>14, <2>2, GoneOne
  <1>24. TimelyInv(w)'
    <2>1. Timely(Given) /\ Timely(hand[w]) /\ (~stopped => Timely(queue.save) /\ Timely(queue.convert))
      BY DEF RequestInv, TimelyInv
    <2>2. ~stopped => Timely(Good(b))
      BY <1>14, <1>16, TimelyParts
    <2>3. queue.save \in Seq(Samples(made))
      BY <1>14 DEF LineOf, Line
    <2>4. ~stopped => Timely(queue.save \o Good(b))
      BY <1>2, <1>16, <2>1, <2>2, <2>3, TimelyParts
    <2>5. QED
      BY <1>7, <1>19, <1>21, <2>1, <2>4 DEF TimelyInv
  <1>25. Held(own.threads, made)' = Y /\ Threads(own.threads, made)' /\ HeldOnce(own.threads)'
    BY <1>7, <1>9, <1>11, <1>13
  <1>26. queue'.convert = <<>>
    BY <1>19 DEF RequestInv
  <1>27. QED
    BY <1>7, <1>9, <1>20, <1>21, <1>22, <1>23, <1>24, <1>25, <1>26 DEF RequestInv, LineOf

LEMMA RequestReplies ==
    ASSUME NEW d
    PROVE  \A o \in RequestRpc(d) : Replied(o)
  BY Returned DEF RequestRpc, RequestExecuted

LEMMA RequestKeeps ==
    ASSUME World, RequestInv, RequestStep
    PROVE  World' /\ RequestInv' /\ kind' = kind
  <1> DEFINE w == "main"
  <1>1. /\ w \in {"main", "save"} /\ w \in Workers /\ made \in Nat /\ DOMAIN own = {"due", "threads"}
        /\ Threads(own.threads, made) /\ HeldOnce(own.threads)
    BY DEF Workers, World, Inner, RequestInv
  <1>2. CASE Resting(w) /\ DOMAIN own' = {"due", "threads"} /\ own'.threads = own.threads
    BY <1>1, <1>2, RequestSame
  <1>3. CASE RequestProcesses
    BY <1>3, RequestGiven
  <1>4. ASSUME NEW d \in Devices, NEW q \in Seq(Thread(made)), Follows(q, own.threads[d]), Resting(w),
               DOMAIN own' = {"due", "threads"}, own'.threads = [own.threads EXCEPT ![d] = q]
        PROVE  World' /\ RequestInv' /\ kind' = kind
    <2>1. PICK t, u : t = own.threads /\ u = [t EXCEPT ![d] = q]
      OBVIOUS
    <2>2. Threads(u, made) /\ HeldOnce(u) /\ Held(u, made) \subseteq Held(t, made)
      BY <1>1, <1>4, <2>1, ThreadsFollow
    <2>3. QED
      BY <1>4, <2>1, <2>2, RequestSame
  <1>5. CASE \E d \in Devices : RequestStarts(d)
    <2>1. PICK d \in Devices : RequestStarts(d)
      BY <1>5
    <2>2. Resting(w) /\ own' = [own EXCEPT !.threads[d] = Append(@, [at |-> "start", x |-> <<>>])]
      BY <2>1 DEF RequestStarts, Resting, life, work, data, env, World, Inner, Outer
    <2>3. PICK q \in Seq(Thread(made)) : q = Append(own.threads[d], [at |-> "start", x |-> <<>>])
                                         /\ Follows(q, own.threads[d])
      BY <1>1, Threaded
    <2>4. own'.threads = [own.threads EXCEPT ![d] = q] /\ DOMAIN own' = {"due", "threads"}
      BY <1>1, <2>2, <2>3
    <2>5. QED
      BY <1>4, <2>2, <2>3, <2>4
  <1>6. CASE \E d \in Devices : RequestDue(d)
    <2>1. PICK d \in Devices : RequestDue(d)
      BY <1>6
    <2>2. Resting(w) /\ own' = [own EXCEPT !.due = @ \cup {d}]
      BY <2>1 DEF RequestDue, Resting, life, work, data, env, World, Inner, Outer
    <2>3. QED
      BY <1>1, <1>2, <2>2
  <1>7. CASE \E d \in Devices : RequestThread(d)
    <2>0. PICK d \in Devices : RequestThread(d)
      BY <1>7
    <2>1. PICK i \in 1..Len(own.threads[d]) :
             RequestSent(d, i) \/ RequestAnswered(d, i) \/ RequestConverts(d, i)
      BY <2>0 DEF RequestThread
    <2>2. CASE RequestSent(d, i)
      <3>1. /\ Resting(w) /\ own.threads[d][i].at = "start"
            /\ own' = [own EXCEPT !.due = @ \ {d}, !.threads[d][i].at = "wait"]
        BY <2>2 DEF RequestSent, Resting, life, work, data, env, World, Inner, Outer
      <3>2. PICK q \in Seq(Thread(made)) : q = [own.threads[d] EXCEPT ![i].at = "wait"]
                                           /\ Follows(q, own.threads[d])
        BY <1>1, <2>1, <3>1, Threaded
      <3>3. own'.threads = [own.threads EXCEPT ![d] = q] /\ DOMAIN own' = {"due", "threads"}
        BY <1>1, <3>1, <3>2
      <3>4. QED
        BY <1>4, <3>1, <3>2, <3>3
    <2>3. CASE RequestAnswered(d, i)
      <3>1. /\ own.threads[d][i].at = "wait"
            /\ UNCHANGED <<life, work, queue, sent, lost, session, known, env, rpc>>
        BY <2>3 DEF RequestAnswered
      <3>2. CASE /\ Reads(1)
                 /\ \E bad \in BOOLEAN :
                      own' = [own EXCEPT !.threads[d][i] = [at |-> "convert", x |-> <<Reading(d, 1, bad)>>]]
        BY <2>1, <3>1, <3>2, RequestHears
      <3>3. CASE own' = [own EXCEPT !.threads[d] = Without(@, i)] /\ UNCHANGED made
        <4>1. Resting(w)
          BY <3>1, <3>3 DEF Resting, life, work, data, env, World, Inner, Outer
        <4>2. PICK q \in Seq(Thread(made)) : q = Without(own.threads[d], i) /\ Follows(q, own.threads[d])
          BY <1>1, <2>1, Threaded
        <4>3. own'.threads = [own.threads EXCEPT ![d] = q] /\ DOMAIN own' = {"due", "threads"}
          BY <1>1, <3>3, <4>2
        <4>4. QED
          BY <1>4, <4>1, <4>2, <4>3
      <3>4. QED
        BY <2>3, <3>2, <3>3 DEF RequestAnswered
    <2>4. CASE RequestConverts(d, i)
      BY <2>1, <2>4, RequestPutsBack
    <2>5. QED
      BY <2>1, <2>2, <2>3, <2>4
  <1>8. CASE RequestClose
    <2>1. Resting(w) /\ own' = own
      BY <1>8 DEF RequestClose, Resting, work, data, conn, env, World, Inner, Outer
    <2>2. QED
      BY <1>1, <1>2, <2>1
  <1>9. CASE RpcReturns(RequestRpc(rpc.st)) \/ UpdateReturns(RequestUpdate(rpc.st))
    <2>1. \A o \in RequestRpc(rpc.st) : Replied(o)
      BY RequestReplies
    <2>2. Resting(w) /\ own' = own
      BY <1>1, <1>9, <2>1, HandlerRests
    <2>3. QED
      BY <1>1, <1>2, <2>2
  <1>10. CASE \E v \in Workers : \E at : "busy" \notin at /\ Ends(v, at)
    <2>1. Resting(w) /\ own' = own
      BY <1>1, <1>10, EndsRests
    <2>2. QED
      BY <1>1, <1>2, <2>1
  <1>11. QED
    BY <1>1, <1>3, <1>5, <1>6, <1>7, <1>8, <1>9, <1>10
       DEF RequestStep, RequestMain, RequestDevice, RequestTimer, RequestGateway, RequestHandler, Workers

-----------------------------------------------------------------------------
(* Connectors that read from a source that keeps its rows                  *)

LEMMA AppendIs ==
    ASSUME NEW S, NEW b \in Seq(S), NEW p \in S
    PROVE  /\ Append(b, p) \in Seq(S) /\ Len(Append(b, p)) = Len(b) + 1 /\ Len(b) \in Nat
           /\ DOMAIN Append(b, p) = 1..Len(b) + 1 /\ DOMAIN b = 1..Len(b)
           /\ \A i \in DOMAIN b : i \in DOMAIN Append(b, p) /\ Append(b, p)[i] = b[i] /\ i < Len(b) + 1
           /\ Append(b, p)[Len(b) + 1] = p
           /\ \A i \in DOMAIN Append(b, p) : i \in DOMAIN b \/ i = Len(b) + 1
  OBVIOUS

LEMMA NoneLeft ==
    ASSUME NEW m, NEW s
    PROVE  <<>> \in Seq(Samples(m)) /\ Part(<<>>, s)
  <1>0. DOMAIN <<>> = {}
    OBVIOUS
  <1>1. PICK n : n = <<>> /\ DOMAIN n = {}
    BY <1>0
  <1>2. PICK f \in [DOMAIN n -> DOMAIN s] : TRUE
    <2>1. [k \in {} |-> k] \in [DOMAIN n -> DOMAIN s]
      BY <1>1
    <2>2. QED
      BY <2>1
  <1>3. Part(n, s)
    BY <1>1, <1>2 DEF Part
  <1>4. <<>> \in Seq(Samples(m))
    OBVIOUS
  <1>5. QED
    BY <1>1, <1>3, <1>4

LEMMA TailIs ==
    ASSUME NEW S, NEW s \in Seq(S), s # <<>>
    PROVE  /\ Tail(s) \in Seq(S) /\ DOMAIN Tail(s) = 1..Len(s) - 1 /\ DOMAIN s = 1..Len(s) /\ Len(s) \in Nat \ {0}
           /\ \A k \in 1..Len(s) - 1 : Tail(s)[k] = s[k + 1] /\ k + 1 \in 1..Len(s)
  <1>1. Len(s) \in Nat \ {0} /\ DOMAIN s = 1..Len(s)
    OBVIOUS
  <1>2. Tail(s) \in Seq(S) /\ DOMAIN Tail(s) = 1..Len(s) - 1
    OBVIOUS
  <1>3. \A k \in 1..Len(s) - 1 : Tail(s)[k] = s[k + 1]
    OBVIOUS
  <1>4. \A k \in 1..Len(s) - 1 : k + 1 \in 1..Len(s)
    BY <1>1
  <1>5. QED
    BY <1>1, <1>2, <1>3, <1>4

(* ODBC: the rows of the table (r) are sent (g) in passes over those after  *)
(* the iterator (h: those to go; i, the iterator; f, the saved one).  Every *)
(* good row up to an iterator was sent; a sent row after it was sent before *)
(* it was restored (a).                                                     *)
OdbcStep == OdbcMain \/ (\E d \in Devices : OdbcField(d)) \/ OdbcGateway \/ OdbcHandler
Rising(s) == \A j, k \in DOMAIN s : j < k => s[j].n < s[k].n
Through(r, g, v) == \A y \in Range(r) : ~y.bad /\ y.n <= v => y \in Range(g)
Pass(r, g, h, i) ==
    \A k \in DOMAIN h :
        /\ h[k] \in Range(r) /\ h[k].n > i
        /\ \A y \in Range(r) : ~y.bad /\ y.n < h[k].n => y \in Range(g) \/ \E j \in DOMAIN h : j < k /\ h[j] = y
Resent(g, i, a) ==
    /\ \A k \in DOMAIN g : ~g[k].bad /\ (g[k].n > i => g[k] \in a)
    /\ \A j, k \in DOMAIN g : j < k => g[k] \in a \/ g[j].n < g[k].n
Saved(m, r, g, f) == f # <<>> => Head(f) \in 0..m /\ Through(r, g, Head(f))
Table(m, r, g, h, i, f, a) ==
    /\ r \in Seq(Samples(m)) /\ g \in Seq(Samples(m)) /\ h \in Seq(Samples(m)) /\ i \in 0..m
    /\ Rising(r) /\ Rising(h) /\ Pass(r, g, h, i) /\ Through(r, g, i) /\ Saved(m, r, g, f)
    /\ (\A e \in Range(g) : Through(r, g, e.n)) /\ Resent(g, i, a)

LEMMA TableGrows ==
    ASSUME NEW m \in Nat, NEW r, NEW g, NEW h, NEW i, NEW f, NEW a, Table(m, r, g, h, i, f, a),
           NEW x \in Samples(m + 1), x.n = m + 1
    PROVE  Table(m + 1, Append(r, x), g, h, i, f, a)
  <1>1. m + 1 \in Nat /\ Seq(Samples(m)) \subseteq Seq(Samples(m + 1))
    BY SamplesGrow
  <1>2. r \in Seq(Samples(m)) /\ g \in Seq(Samples(m)) /\ h \in Seq(Samples(m)) /\ i \in 0..m
    BY DEF Table
  <1>3. r \in Seq(Samples(m + 1)) /\ g \in Seq(Samples(m + 1)) /\ h \in Seq(Samples(m + 1)) /\ i \in 0..m + 1
    BY <1>1, <1>2
  <1>4. PICK q \in Seq(Samples(m + 1)) :
          /\ q = Append(r, x)
          /\ \A k \in DOMAIN q : (k \in DOMAIN r /\ q[k] = r[k]) \/ (q[k] = x /\ k = Len(r) + 1)
          /\ DOMAIN r = 1..Len(r) /\ DOMAIN q = 1..Len(r) + 1 /\ Len(r) \in Nat
    <2>1. Append(r, x) \in Seq(Samples(m + 1))
      BY <1>3
    <2>2. /\ \A k \in DOMAIN Append(r, x) : k \in DOMAIN r \/ k = Len(r) + 1
          /\ \A k \in DOMAIN r : Append(r, x)[k] = r[k]
          /\ Append(r, x)[Len(r) + 1] = x
          /\ DOMAIN r = 1..Len(r) /\ DOMAIN Append(r, x) = 1..Len(r) + 1 /\ Len(r) \in Nat
      BY <1>3, AppendIs
    <2>3. QED
      BY <2>1, <2>2
  <1>5. \A y \in Range(q) : y \in Range(r) \/ y.n = m + 1
    BY <1>4 DEF Range
  <1>6. \A y \in Samples(m) : y.n \in Nat /\ y.n <= m
    BY DEF Samples
  <1>7. \A v : v \in 0..m /\ Through(r, g, v) => Through(q, g, v)
    <2>1. SUFFICES ASSUME NEW v \in 0..m, Through(r, g, v), NEW y \in Range(q), ~y.bad, y.n <= v PROVE y \in Range(g)
      BY DEF Through
    <2>2. y.n # m + 1
      BY <2>1
    <2>3. QED
      BY <1>5, <2>1, <2>2 DEF Through
  <1>8. Rising(q)
    <2>1. SUFFICES ASSUME NEW j \in DOMAIN q, NEW k \in DOMAIN q, j < k PROVE q[j].n < q[k].n
      BY DEF Rising
    <2>2. j \in DOMAIN r /\ q[j] = r[j]
      BY <1>4, <2>1
    <2>3. CASE k \in DOMAIN r /\ q[k] = r[k]
      BY <2>1, <2>2, <2>3 DEF Table, Rising
    <2>4. CASE q[k] = x
      <3>1. r[j] \in Samples(m)
        BY <1>2, <2>2
      <3>2. QED
        BY <1>6, <2>2, <2>4, <3>1
    <2>5. QED
      BY <1>4, <2>3, <2>4
  <1>9. Range(r) \subseteq Range(q)
    <2>1. ASSUME NEW y \in Range(r) PROVE y \in Range(q)
      <3>1. PICK k \in DOMAIN r : r[k] = y
        BY DEF Range
      <3>2. k \in DOMAIN q /\ q[k] = y
        <4>1. Append(r, x)[k] = r[k] /\ k \in DOMAIN Append(r, x)
          BY <1>3, AppendIs
        <4>2. QED
          BY <1>4, <3>1, <4>1
      <3>3. QED
        BY <3>2 DEF Range
    <2>2. QED
      BY <2>1
  <1>10. Pass(q, g, h, i)
    <2>1. SUFFICES ASSUME NEW k \in DOMAIN h
                   PROVE  /\ h[k] \in Range(q) /\ h[k].n > i
                          /\ \A y \in Range(q) : ~y.bad /\ y.n < h[k].n => y \in Range(g) \/ \E j \in DOMAIN h : j < k /\ h[j] = y
      BY DEF Pass
    <2>2. Pass(r, g, h, i)
      BY DEF Table
    <2>3. h[k] \in Samples(m)
      BY <1>2
    <2>4. ASSUME NEW y \in Range(q), ~y.bad, y.n < h[k].n
          PROVE  y \in Range(g) \/ \E j \in DOMAIN h : j < k /\ h[j] = y
      <3>1. y.n # m + 1
        BY <1>6, <2>3, <2>4
      <3>2. y \in Range(r)
        BY <1>5, <3>1
      <3>3. QED
        BY <2>2, <2>4, <3>2 DEF Pass
    <2>5. QED
      BY <1>9, <2>2, <2>4 DEF Pass
  <1>11. \A e \in Range(g) : Through(q, g, e.n)
    <2>1. SUFFICES ASSUME NEW e \in Range(g) PROVE Through(q, g, e.n)
      OBVIOUS
    <2>2. e \in Samples(m)
      BY <1>2 DEF Range
    <2>3. QED
      BY <1>6, <1>7, <2>2 DEF Table
  <1>12. Through(q, g, i) /\ Saved(m + 1, q, g, f)
    BY <1>2, <1>7 DEF Table, Saved
  <1>13. QED
    BY <1>3, <1>4, <1>8, <1>10, <1>11, <1>12 DEF Table

(* The iterator is restored, with nothing at hand.                          *)
LEMMA TableRestored ==
    ASSUME NEW m \in Nat, NEW r, NEW g, NEW i, NEW f, NEW a, Table(m, r, g, <<>>, i, f, a),
           NEW v \in 0..m, v = 0 \/ Through(r, g, v),
           NEW b, a \subseteq b, \A e \in Range(g) : e.n > v => e \in b
    PROVE  Table(m, r, g, <<>>, v, f, b)
  <1>1. r \in Seq(Samples(m)) /\ g \in Seq(Samples(m))
    BY DEF Table
  <1>2. Through(r, g, v)
    <2>1. CASE v = 0
      <3>1. \A y \in Range(r) : y \in Samples(m)
        BY <1>1 DEF Range
      <3>2. \A y \in Range(r) : ~(y.n <= 0)
        BY <3>1 DEF Samples
      <3>3. QED
        BY <2>1, <3>2 DEF Through
    <2>2. QED
      BY <2>1
  <1>3. Pass(r, g, <<>>, v)
    <2>1. DOMAIN <<>> = {}
      OBVIOUS
    <2>2. QED
      BY <2>1 DEF Pass
  <1>4. Resent(g, v, b)
    BY DEF Table, Resent, Range
  <1>5. QED
    BY <1>2, <1>3, <1>4 DEF Table

(* A pass over the rows after the iterator begins.                          *)
LEMMA TableFetched ==
    ASSUME NEW m \in Nat, NEW r, NEW g, NEW i, NEW f, NEW a, Table(m, r, g, <<>>, i, f, a),
           NEW I \in SUBSET (DOMAIN r), \A k \in DOMAIN r : k \in I <=> r[k].n > i, NEW h, h = Chosen(r, I)
    PROVE  Table(m, r, g, h, i, f, a)
  <1>1. r \in Seq(Samples(m)) /\ DOMAIN r = 1..Len(r) /\ Len(r) \in Nat
    BY DEF Table
  <1>2. /\ h \in Seq(Samples(m)) /\ Part(h, r)
        /\ \A k \in DOMAIN h : \E j \in I : h[k] = r[j]
        /\ \A j \in I : \E k \in DOMAIN h : h[k] = r[j]
    BY <1>1, ChosenIs
  <1>3. DOMAIN h = 1..Len(h) /\ \A k \in DOMAIN h : k \in Nat /\ h[k] \in Samples(m)
    BY <1>2
  <1>4. Rising(h)
    <2>1. PICK e \in [DOMAIN h -> DOMAIN r] :
            /\ \A j, k \in DOMAIN h : j < k => e[j] < e[k]
            /\ \A k \in DOMAIN h : h[k] = r[e[k]]
      BY <1>2 DEF Part
    <2>2. Rising(r)
      BY DEF Table
    <2>3. QED
      BY <2>1, <2>2 DEF Rising
  <1>5. ASSUME NEW k \in DOMAIN h
        PROVE  /\ h[k] \in Range(r) /\ h[k].n > i
               /\ \A y \in Range(r) : ~y.bad /\ y.n < h[k].n => y \in Range(g) \/ \E j \in DOMAIN h : j < k /\ h[j] = y
    <2>1. PICK l \in I : h[k] = r[l]
      BY <1>2
    <2>2. h[k] \in Range(r) /\ h[k].n > i
      BY <2>1 DEF Range
    <2>3. ASSUME NEW y \in Range(r), ~y.bad, y.n < h[k].n
          PROVE  y \in Range(g) \/ \E j \in DOMAIN h : j < k /\ h[j] = y
      <3>1. PICK p \in DOMAIN r : r[p] = y
        BY DEF Range
      <3>2. y.n \in Nat /\ i \in Nat
        <4>1. y \in Samples(m) /\ i \in 0..m
          BY <1>1, <3>1 DEF Table
        <4>2. QED
          BY <4>1 DEF Samples
      <3>3. CASE y.n <= i
        BY <2>3, <3>3 DEF Table, Through
      <3>4. CASE y.n > i
        <4>1. p \in I
          BY <3>1, <3>4
        <4>2. PICK j \in DOMAIN h : h[j] = y
          BY <1>2, <3>1, <4>1
        <4>3. j < k
          <5>1. h[j].n < h[k].n
            BY <2>3, <4>2
          <5>2. ~(k < j)
            <6>1. k < j => h[k].n < h[j].n
              BY <1>4, <4>2 DEF Rising
            <6>2. h[k].n \in Nat /\ h[j].n \in Nat
              BY <1>3 DEF Samples
            <6>3. QED
              BY <5>1, <6>1, <6>2
          <5>3. j # k
            BY <1>3, <5>1 DEF Samples
          <5>4. QED
            BY <1>3, <5>2, <5>3
        <4>4. QED
          BY <4>2, <4>3
      <3>5. QED
        BY <3>2, <3>3, <3>4
    <2>4. QED
      BY <2>2, <2>3
  <1>6. Pass(r, g, h, i)
    BY <1>5 DEF Pass
  <1>7. QED
    BY <1>2, <1>4, <1>6 DEF Table

(* The rest is left for the next pass.                                      *)
LEMMA TableLeft ==
    ASSUME NEW m \in Nat, NEW r, NEW g, NEW h, NEW i, NEW f, NEW a, Table(m, r, g, h, i, f, a)
    PROVE  Table(m, r, g, <<>>, i, f, a)
  <1>1. DOMAIN <<>> = {} /\ <<>> \in Seq(Samples(m))
    <2>1. DOMAIN <<>> = {}
      OBVIOUS
    <2>2. QED
      BY <2>1, NoneLeft
  <1>2. Rising(<<>>) /\ Pass(r, g, <<>>, i)
    BY <1>1 DEF Rising, Pass
  <1>3. QED
    BY <1>1, <1>2 DEF Table

(* A row that cannot be converted is passed over.                           *)
LEMMA TableSkips ==
    ASSUME NEW m \in Nat, NEW r, NEW g, NEW h, NEW i, NEW f, NEW a, Table(m, r, g, h, i, f, a),
           h # <<>>, Head(h).bad
    PROVE  Table(m, r, g, Tail(h), i, f, a)
  <1>1. h \in Seq(Samples(m))
    BY DEF Table
  <1>2. /\ Tail(h) \in Seq(Samples(m)) /\ DOMAIN Tail(h) = 1..Len(h) - 1 /\ DOMAIN h = 1..Len(h) /\ Len(h) \in Nat \ {0}
        /\ \A k \in 1..Len(h) - 1 : Tail(h)[k] = h[k + 1] /\ k + 1 \in 1..Len(h)
    BY <1>1, TailIs
  <1>3. PICK q \in Seq(Samples(m)) :
          /\ q = Tail(h) /\ DOMAIN q = 1..Len(h) - 1
          /\ \A k \in DOMAIN q : q[k] = h[k + 1] /\ k + 1 \in DOMAIN h /\ k \in Nat
    <2>1. \A k \in 1..Len(h) - 1 : k \in Nat \ {0}
      BY <1>2
    <2>2. \A k \in DOMAIN Tail(h) : Tail(h)[k] = h[k + 1] /\ k + 1 \in DOMAIN h /\ k \in Nat \ {0}
      BY <1>2, <2>1
    <2>3. QED
      BY <1>2, <2>2
  <1>4. h[1] = Head(h) /\ 1 \in DOMAIN h
    BY <1>1, HeadTailIs
  <1>5. Rising(q)
    BY <1>3 DEF Table, Rising
  <1>6. ASSUME NEW k \in DOMAIN q
        PROVE  /\ q[k] \in Range(r) /\ q[k].n > i
               /\ \A y \in Range(r) : ~y.bad /\ y.n < q[k].n => y \in Range(g) \/ \E j \in DOMAIN q : j < k /\ q[j] = y
    <2>1. Pass(r, g, h, i)
      BY DEF Table
    <2>2. k + 1 \in DOMAIN h /\ q[k] = h[k + 1]
      BY <1>3
    <2>3. ASSUME NEW y \in Range(r), ~y.bad, y.n < q[k].n, y \notin Range(g)
          PROVE  \E j \in DOMAIN q : j < k /\ q[j] = y
      <3>1. PICK j \in DOMAIN h : j < k + 1 /\ h[j] = y
        BY <2>1, <2>2, <2>3 DEF Pass
      <3>2. j # 1
        BY <1>4, <2>3, <3>1
      <3>3. PICK l \in DOMAIN q : j = l + 1
        <4>1. \A n \in Nat : \A l \in 1..n : l # 1 => l - 1 \in 1..n - 1 /\ l = (l - 1) + 1
          OBVIOUS
        <4>2. j \in 1..Len(h) /\ Len(h) \in Nat
          BY <1>2
        <4>3. j - 1 \in 1..Len(h) - 1 /\ j = (j - 1) + 1
          BY <3>2, <4>1, <4>2
        <4>4. QED
          BY <1>3, <4>3
      <3>4. l < k /\ q[l] = y
        BY <1>3, <3>1, <3>3
      <3>5. QED
        BY <3>4
    <2>4. QED
      BY <2>1, <2>2, <2>3 DEF Pass
  <1>7. Pass(r, g, q, i)
    BY <1>6 DEF Pass
  <1>8. Table(m, r, g, q, i, f, a)
    BY <1>5, <1>7 DEF Table
  <1>9. QED
    BY <1>3, <1>8

(* A row that can be converted is sent, and the iterator follows it.        *)
LEMMA TableSends ==
    ASSUME NEW m \in Nat, NEW r, NEW g, NEW h, NEW i, NEW f, NEW a, Table(m, r, g, h, i, f, a),
           h # <<>>, ~Head(h).bad
    PROVE  Table(m, r, g \o <<Head(h)>>, Tail(h), Head(h).n, f, a)
  <1>1. h \in Seq(Samples(m)) /\ g \in Seq(Samples(m)) /\ r \in Seq(Samples(m)) /\ i \in 0..m
    BY DEF Table
  <1>2. /\ Tail(h) \in Seq(Samples(m)) /\ DOMAIN Tail(h) = 1..Len(h) - 1 /\ DOMAIN h = 1..Len(h) /\ Len(h) \in Nat \ {0}
        /\ \A k \in 1..Len(h) - 1 : Tail(h)[k] = h[k + 1] /\ k + 1 \in 1..Len(h)
    BY <1>1, TailIs
  <1>3. PICK q \in Seq(Samples(m)) :
          /\ q = Tail(h) /\ DOMAIN q = 1..Len(h) - 1
          /\ \A k \in DOMAIN q : q[k] = h[k + 1] /\ k + 1 \in DOMAIN h /\ k \in Nat \ {0}
    <2>1. \A k \in 1..Len(h) - 1 : k \in Nat \ {0}
      BY <1>2
    <2>2. \A k \in DOMAIN Tail(h) : Tail(h)[k] = h[k + 1] /\ k + 1 \in DOMAIN h /\ k \in Nat \ {0}
      BY <1>2, <2>1
    <2>3. QED
      BY <1>2, <2>2
  <1>4. PICK x \in Samples(m) : x = Head(h) /\ h[1] = x /\ 1 \in DOMAIN h /\ ~x.bad
    <2>1. h[1] = Head(h) /\ 1 \in DOMAIN h
      BY <1>1, HeadTailIs
    <2>2. h[1] \in Samples(m)
      BY <1>1, <2>1
    <2>3. QED
      BY <2>1, <2>2
  <1>5. PICK u \in Seq(Samples(m)) : u = <<x>> /\ Len(u) = 1 /\ u[1] = x
    <2>1. <<x>> \in Seq(Samples(m))
      OBVIOUS
    <2>2. Len(<<x>>) = 1 /\ <<x>>[1] = x
      OBVIOUS
    <2>3. QED
      BY <2>1, <2>2
  <1>6. PICK t \in Seq(Samples(m)) :
          /\ t = g \o u /\ DOMAIN t = 1..Len(g) + 1 /\ Len(g) \in Nat /\ DOMAIN g = 1..Len(g)
          /\ t[Len(g) + 1] = x /\ \A k \in DOMAIN g : t[k] = g[k] /\ k \in DOMAIN t
    <2>1. /\ g \o u \in Seq(Samples(m)) /\ DOMAIN (g \o u) = 1..Len(g) + Len(u)
          /\ \A k \in 1..Len(g) : (g \o u)[k] = g[k] /\ k \in DOMAIN (g \o u)
          /\ \A k \in 1..Len(u) : (g \o u)[Len(g) + k] = u[k] /\ Len(g) + k \in DOMAIN (g \o u)
      BY <1>1, Concatenated
    <2>2. Len(g) \in Nat /\ DOMAIN g = 1..Len(g)
      BY <1>1
    <2>3. (g \o u)[Len(g) + 1] = x
      BY <1>5, <2>1
    <2>4. QED
      BY <1>5, <2>1, <2>2, <2>3
  <1>7. /\ x \in Range(t) /\ Range(g) \subseteq Range(t)
        /\ \A y \in Range(t) : y \in Range(g) \/ y = x
    <2>1. \A k \in DOMAIN t : k \in DOMAIN g \/ k = Len(g) + 1
      BY <1>6
    <2>2. Len(g) + 1 \in DOMAIN t
      BY <1>6
    <2>3. ASSUME NEW y \in Range(g) PROVE y \in Range(t)
      <3>1. PICK k \in DOMAIN g : g[k] = y
        BY DEF Range
      <3>2. QED
        BY <1>6, <3>1 DEF Range
    <2>4. ASSUME NEW y \in Range(t) PROVE y \in Range(g) \/ y = x
      <3>1. PICK k \in DOMAIN t : t[k] = y
        BY DEF Range
      <3>2. CASE k \in DOMAIN g
        BY <1>6, <3>1, <3>2 DEF Range
      <3>3. QED
        BY <1>6, <2>1, <3>1, <3>2
    <2>5. QED
      BY <1>6, <2>2, <2>3, <2>4 DEF Range
  <1>8. x \in Range(r) /\ x.n > i /\ x.n \in 0..m /\ x.n \in Nat /\ i \in Nat
    <2>1. Pass(r, g, h, i)
      BY DEF Table
    <2>2. x \in Range(r) /\ x.n > i
      BY <1>4, <2>1 DEF Pass
    <2>3. QED
      BY <1>1, <2>2 DEF Samples
  <1>9. \A y \in Range(r) : ~y.bad /\ y.n < x.n => y \in Range(g)
    <2>1. SUFFICES ASSUME NEW y \in Range(r), ~y.bad, y.n < x.n, y \notin Range(g) PROVE FALSE
      OBVIOUS
    <2>2. PICK j \in DOMAIN h : j < 1
      BY <1>4, <2>1 DEF Table, Pass
    <2>3. QED
      BY <1>2, <2>2
  <1>10. \A y \in Range(r) : y.n = x.n => y = x
    <2>1. SUFFICES ASSUME NEW y \in Range(r), y.n = x.n PROVE y = x
      OBVIOUS
    <2>2. PICK j \in DOMAIN r, k \in DOMAIN r : r[j] = y /\ r[k] = x
      BY <1>8 DEF Range
    <2>3. ~(j < k) /\ ~(k < j)
      <3>1. Rising(r)
        BY DEF Table
      <3>2. ~(x.n < x.n)
        BY <1>8
      <3>3. QED
        BY <2>1, <2>2, <3>1, <3>2 DEF Rising
    <2>4. j = k
      BY <1>1, <2>3
    <2>5. QED
      BY <2>2, <2>4
  <1>11. Through(r, t, x.n)
    <2>1. SUFFICES ASSUME NEW y \in Range(r), ~y.bad, y.n <= x.n PROVE y \in Range(t)
      BY DEF Through
    <2>2. y.n \in Nat
      <3>1. y \in Samples(m)
        BY <1>1, <2>1 DEF Range
      <3>2. QED
        BY <3>1 DEF Samples
    <2>3. CASE y.n < x.n
      BY <1>7, <1>9, <2>1, <2>3
    <2>4. CASE y.n = x.n
      BY <1>7, <1>10, <2>4
    <2>5. QED
      BY <1>8, <2>1, <2>2, <2>3, <2>4
  <1>12. \A v : Through(r, g, v) => Through(r, t, v)
    BY <1>7 DEF Through
  <1>13. (\A e \in Range(t) : Through(r, t, e.n)) /\ Saved(m, r, t, f)
    BY <1>7, <1>11, <1>12 DEF Table, Saved
  <1>14. Rising(q)
    <2>1. Rising(h) /\ \A k \in DOMAIN q : k + 1 \in DOMAIN h /\ q[k] = h[k + 1] /\ k \in Int
      BY <1>3 DEF Table
    <2>2. \A j, k \in DOMAIN q : j < k => j + 1 < k + 1
      BY <2>1
    <2>3. QED
      BY <2>1, <2>2 DEF Rising
  <1>15. ASSUME NEW k \in DOMAIN q
         PROVE  /\ q[k] \in Range(r) /\ q[k].n > x.n
                /\ \A y \in Range(r) : ~y.bad /\ y.n < q[k].n => y \in Range(t) \/ \E j \in DOMAIN q : j < k /\ q[j] = y
    <2>1. Pass(r, g, h, i) /\ Rising(h)
      BY DEF Table
    <2>2. k + 1 \in DOMAIN h /\ q[k] = h[k + 1] /\ 1 < k + 1
      BY <1>3
    <2>3. q[k] \in Range(r)
      BY <2>1, <2>2 DEF Pass
    <2>4. q[k].n > x.n
      <3>1. h[1].n < h[k + 1].n
        BY <1>4, <2>1, <2>2 DEF Rising
      <3>2. QED
        BY <1>4, <2>2, <3>1
    <2>5. ASSUME NEW y \in Range(r), ~y.bad, y.n < q[k].n, y \notin Range(t)
          PROVE  \E j \in DOMAIN q : j < k /\ q[j] = y
      <3>1. PICK j \in DOMAIN h : j < k + 1 /\ h[j] = y
        BY <1>7, <2>1, <2>2, <2>5 DEF Pass
      <3>2. j # 1
        BY <1>4, <1>7, <2>5, <3>1
      <3>3. PICK l \in DOMAIN q : j = l + 1
        <4>1. \A n \in Nat : \A l \in 1..n : l # 1 => l - 1 \in 1..n - 1 /\ l = (l - 1) + 1
          OBVIOUS
        <4>2. j \in 1..Len(h) /\ Len(h) \in Nat
          BY <1>2
        <4>3. j - 1 \in 1..Len(h) - 1 /\ j = (j - 1) + 1
          BY <3>2, <4>1, <4>2
        <4>4. QED
          BY <1>3, <4>3
      <3>4. l < k /\ q[l] = y
        BY <1>3, <3>1, <3>3
      <3>5. QED
        BY <3>4
    <2>6. QED
      BY <2>3, <2>4, <2>5
  <1>16. Pass(r, t, q, x.n)
    BY <1>15 DEF Pass
  <1>17. \A e \in Range(g) : e.n >= x.n => e \in a
    <2>1. SUFFICES ASSUME NEW e \in Range(g), e.n >= x.n PROVE e \in a
      OBVIOUS
    <2>2. e.n \in Nat
      <3>1. e \in Samples(m)
        BY <1>1, <2>1 DEF Range
      <3>2. QED
        BY <3>1 DEF Samples
    <2>3. e.n > i
      BY <1>8, <2>1, <2>2
    <2>4. QED
      BY <2>3 DEF Table, Resent, Range
  <1>18. \A e \in Range(g) : e.n >= x.n => x \in a
    <2>1. SUFFICES ASSUME NEW e \in Range(g), e.n >= x.n PROVE x \in a
      OBVIOUS
    <2>2. e.n \in Nat
      <3>1. e \in Samples(m)
        BY <1>1, <2>1 DEF Range
      <3>2. QED
        BY <3>1 DEF Samples
    <2>3. x \in Range(g)
      <3>1. x.n <= e.n
        BY <1>8, <2>1, <2>2
      <3>2. QED
        BY <1>4, <1>8, <3>1 DEF Table, Through
    <2>4. QED
      BY <1>8, <2>3 DEF Table, Resent, Range
  <1>19. Resent(t, x.n, a)
    <2>1. ASSUME NEW k \in DOMAIN t PROVE ~t[k].bad /\ (t[k].n > x.n => t[k] \in a)
      <3>1. CASE k \in DOMAIN g
        <4>1. t[k] = g[k] /\ g[k] \in Range(g) /\ ~g[k].bad
          BY <1>6, <3>1 DEF Table, Resent, Range
        <4>2. g[k].n \in Nat
          <5>1. g[k] \in Samples(m)
            BY <1>1, <3>1
          <5>2. QED
            BY <5>1 DEF Samples
        <4>3. g[k].n > x.n => g[k].n >= x.n
          BY <1>8, <4>2
        <4>4. QED
          BY <1>17, <4>1, <4>3
      <3>2. CASE t[k] = x
        BY <1>4, <1>8, <3>2
      <3>3. QED
        BY <1>6, <3>1, <3>2
    <2>2. ASSUME NEW j \in DOMAIN t, NEW k \in DOMAIN t, j < k PROVE t[k] \in a \/ t[j].n < t[k].n
      <3>1. j \in DOMAIN g /\ t[j] = g[j] /\ g[j] \in Range(g) /\ g[j].n \in Nat
        <4>1. j \in DOMAIN g
          BY <1>6, <2>2
        <4>2. g[j] \in Samples(m)
          BY <1>1, <4>1
        <4>3. QED
          <5>1. g[j].n \in Nat
            BY <4>2 DEF Samples
          <5>2. g[j] \in Range(g)
            BY <4>1 DEF Range
          <5>3. QED
            BY <1>6, <4>1, <5>1, <5>2
      <3>2. CASE k \in DOMAIN g
        BY <1>6, <2>2, <3>1, <3>2 DEF Table, Resent
      <3>3. CASE t[k] = x
        <4>1. g[j].n >= x.n \/ g[j].n < x.n
          BY <1>8, <3>1
        <4>2. QED
          BY <1>18, <3>1, <3>3, <4>1
      <3>4. QED
        <4>1. k \in DOMAIN g \/ t[k] = x
          BY <1>6, <2>2
        <4>2. QED
          BY <3>2, <3>3, <4>1
    <2>3. QED
      BY <2>1, <2>2 DEF Resent
  <1>20. Table(m, r, t, q, x.n, f, a)
    BY <1>1, <1>8, <1>11, <1>13, <1>14, <1>16, <1>19 DEF Table
  <1>21. QED
    BY <1>3, <1>4, <1>5, <1>6, <1>20

(* One reading is converted, or not.                                        *)
LEMMA GoodOfOne ==
    ASSUME NEW m \in Nat, NEW x \in Samples(m)
    PROVE  Good(<<x>>) = IF x.bad THEN <<>> ELSE <<x>>
  <1>1. PICK u \in Seq(Samples(m)) : u = <<x>> /\ DOMAIN u = {1} /\ u[1] = x /\ Len(u) = 1
    <2>1. <<x>> \in Seq(Samples(m))
      OBVIOUS
    <2>2. DOMAIN <<x>> = {1} /\ <<x>>[1] = x /\ Len(<<x>>) = 1
      OBVIOUS
    <2>3. QED
      BY <2>1, <2>2
  <1>2. PICK I \in SUBSET (DOMAIN u) : Good(u) = Chosen(u, I) /\ \A k \in DOMAIN u : k \in I <=> ~u[k].bad
    <2>1. PICK I : I = {k \in DOMAIN u : ~u[k].bad}
      OBVIOUS
    <2>2. I \in SUBSET (DOMAIN u) /\ \A k \in DOMAIN u : k \in I <=> ~u[k].bad
      BY <2>1
    <2>3. QED
      BY <2>1, <2>2, Zenon DEF Good
  <1>3. PICK t \in Seq(Samples(m)) :
          /\ t = Good(u) /\ Part(t, u)
          /\ \A k \in DOMAIN t : \E i \in I : t[k] = u[i]
          /\ \A i \in I : \E k \in DOMAIN t : t[k] = u[i]
    BY <1>2, ChosenIs
  <1>4. DOMAIN t = 1..Len(t) /\ Len(t) \in Nat
    BY <1>3
  <1>5. PICK e \in [DOMAIN t -> DOMAIN u] : \A j, k \in DOMAIN t : j < k => e[j] < e[k]
    BY <1>3 DEF Part
  <1>6. Len(t) \in {0, 1}
    <2>1. SUFFICES ASSUME Len(t) > 1 PROVE FALSE
      BY <1>4
    <2>2. 1 \in DOMAIN t /\ 2 \in DOMAIN t
      BY <1>4, <2>1
    <2>3. e[1] = 1 /\ e[2] = 1
      BY <1>1, <1>5, <2>2
    <2>4. QED
      BY <1>5, <2>2, <2>3
  <1>7. CASE x.bad
    <2>1. I = {}
      BY <1>1, <1>2, <1>7
    <2>2. DOMAIN t = {}
      BY <1>3, <2>1
    <2>3. Len(t) = 0
      BY <1>4, <1>6, <2>2
    <2>4. t = <<>>
      BY <1>3, <2>3
    <2>5. QED
      BY <1>1, <1>3, <1>7, <2>4
  <1>8. CASE ~x.bad
    <2>1. PICK k \in DOMAIN t : t[k] = x
      BY <1>1, <1>2, <1>3, <1>8
    <2>2. Len(t) = 1 /\ t[1] = x
      BY <1>4, <1>6, <2>1
    <2>3. t = u
      BY <1>1, <1>3, <2>2, SeqEqual
    <2>4. QED
      BY <1>1, <1>3, <1>8, <2>3
  <1>9. QED
    BY <1>7, <1>8

OdbcInv ==
    /\ DOMAIN own = {"rows", "it", "file", "persistent", "query", "fetched", "again"}
    /\ Table(made, own.rows, Given, hand.main, own.it, own.file, own.again)
    /\ (pc.main # "loop" => hand.main = <<>>)
    /\ OwnNames /\ Excused({})

LEMMA OdbcSame ==
    ASSUME World, OdbcInv, Resting("main"), own' = own, pc'["main"] # "loop" => hand.main = <<>>
    PROVE  World' /\ OdbcInv' /\ kind' = kind
  <1>1. World' /\ OwnNames' = OwnNames /\ UNCHANGED <<kind, made, sent, lost>> /\ hand'["main"] = hand["main"]
    BY Rests DEF Resting
  <1>2. Given' = Given
    BY <1>1 DEF Given
  <1>3. Table(made', own'.rows, Given', hand'.main, own'.it, own'.file, own'.again)
    BY <1>1, <1>2 DEF OdbcInv
  <1>4. QED
    BY <1>1, <1>3 DEF OdbcInv, Excused

(* A row is added.                                                          *)
LEMMA OdbcGrows ==
    ASSUME World, OdbcInv, NEW d \in Devices, OdbcRow(d)
    PROVE  World' /\ OdbcInv' /\ kind' = kind
  <1>1. /\ Reads(1) /\ UNCHANGED <<kind, stopped, pc, hand, queue, sent, lost, session, known, link, events, rpc>>
        /\ \E bad \in BOOLEAN : own' = [own EXCEPT !.rows = Append(@, Reading(d, 1, bad))]
    BY DEF OdbcRow, life, work, env
  <1>2. PICK bad \in BOOLEAN : own' = [own EXCEPT !.rows = Append(@, Reading(d, 1, bad))]
    BY <1>1
  <1>3. PICK x \in Samples(made + 1) : x = Reading(d, 1, bad) /\ x.n = made + 1 /\ made \in Nat
    BY ReadingIs
  <1>4. /\ made' = made + 1 /\ made' \in 0..MaxSamples
        /\ sent \in Seq(Entry(made')) /\ lost \subseteq Loss(made')
    BY <1>1, MadeGrows
  <1>5. World'
    BY <1>1, <1>4 DEF World, Inner, Outer
  <1>6. /\ own'.rows = Append(own.rows, x) /\ own'.it = own.it /\ own'.file = own.file /\ own'.again = own.again
        /\ DOMAIN own' = DOMAIN own
    BY <1>2, <1>3 DEF OdbcInv
  <1>7. Table(made + 1, Append(own.rows, x), Given, hand.main, own.it, own.file, own.again)
    BY <1>3, TableGrows DEF OdbcInv
  <1>8. Given' = Given /\ OwnNames' = OwnNames /\ Excused({})' = Excused({})
    BY <1>1 DEF Given, OwnNames, Excused
  <1>9. QED
    BY <1>1, <1>4, <1>5, <1>6, <1>7, <1>8 DEF OdbcInv

(* A step of the thread that gives nothing to the gateway.                  *)
LEMMA OdbcGoesOn ==
    ASSUME World, OdbcInv, UNCHANGED <<kind, queue, made, sent, lost, known, rpc, link, events>>,
           stopped' \in BOOLEAN, session' \subseteq Devices,
           NEW p \in PCs, pc' = pc \/ pc' = [pc EXCEPT !.main = p],
           NEW h, hand'["main"] = h, DOMAIN hand' = Workers, pc'["main"] # "loop" => h = <<>>,
           DOMAIN own' = DOMAIN own,
           Table(made, own'.rows, Given, h, own'.it, own'.file, own'.again)
    PROVE  World' /\ OdbcInv' /\ kind' = kind
  <1>1. "main" \in Workers
    BY DEF Workers
  <1>2. pc' \in [Workers -> PCs]
    BY <1>1 DEF World, Inner
  <1>3. World'
    BY <1>2 DEF World, Inner, Outer
  <1>4. Given' = Given /\ OwnNames' = OwnNames /\ Excused({})' = Excused({})
    BY DEF Given, OwnNames, Excused
  <1>5. QED
    BY <1>2, <1>3, <1>4 DEF OdbcInv

LEMMA OdbcRestored ==
    ASSUME World, OdbcInv, OdbcIterator
    PROVE  World' /\ OdbcInv' /\ kind' = kind
  <1>1. /\ UNCHANGED <<kind, stopped, hand, queue, made, sent, lost, known, link, events, rpc>> /\ pc["main"] = "scan"
    BY DEF OdbcIterator, life, data, env, At
  <1>2. hand["main"] = <<>> /\ DOMAIN hand = Workers /\ "main" \in Workers /\ made \in Nat /\ session \subseteq Devices
        /\ stopped \in BOOLEAN /\ sent \in Seq(Entry(made)) /\ lost \subseteq Loss(made)
    BY <1>1 DEF World, Inner, Outer, OdbcInv, Workers
  <1>3. hand'["main"] = <<>> /\ DOMAIN hand' = Workers
    BY <1>1, <1>2
  <1>4. DOMAIN own = {"rows", "it", "file", "persistent", "query", "fetched", "again"}
    BY DEF OdbcInv
  <1>5. PICK r, g, i, f, a : /\ r = own.rows /\ g = Given /\ i = own.it /\ f = own.file /\ a = own.again
                             /\ Table(made, r, g, <<>>, i, f, a)
    BY <1>2 DEF OdbcInv
  <1>6. \A v : \A e \in Range(g) : e.n > v => e \in {z.s : z \in {x \in Range(sent) : x.s.n > v}}
    <2>1. SUFFICES ASSUME NEW v, NEW e \in Range(g), e.n > v PROVE e \in {z.s : z \in {x \in Range(sent) : x.s.n > v}}
      OBVIOUS
    <2>2. PICK k \in DOMAIN sent : e = sent[k].s
      BY <1>2, <1>5, <2>1, Passed DEF Range
    <2>3. sent[k] \in Range(sent)
      BY DEF Range
    <2>4. QED
      BY <2>1, <2>2, <2>3
  <1>7. \A e \in Range(g) : e \in {z.s : z \in Range(sent)}
    <2>1. SUFFICES ASSUME NEW e \in Range(g) PROVE e \in {z.s : z \in Range(sent)}
      OBVIOUS
    <2>2. PICK k \in DOMAIN sent : e = sent[k].s
      BY <1>2, <1>5, <2>1, Passed DEF Range
    <2>3. sent[k] \in Range(sent)
      BY DEF Range
    <2>4. QED
      BY <2>1, <2>2, <2>3
  <1>8. "idle" \in PCs /\ "ended" \in PCs
    BY DEF PCs
  <1>9. CASE /\ IteratorSaved /\ To("main", "idle") /\ UNCHANGED session
             /\ own' = [own EXCEPT !.it = Head(own.file),
                                   !.again = @ \cup {e.s : e \in {x \in Range(sent) : x.s.n > Head(own.file)}}]
    <2>1. PICK v \in 0..made : v = Head(f) /\ Through(r, g, v)
      <3>1. f # <<>>
        BY <1>5, <1>9 DEF IteratorSaved
      <3>2. QED
        BY <1>5, <3>1 DEF Table, Saved
    <2>2. PICK b : b = a \cup {e.s : e \in {x \in Range(sent) : x.s.n > v}}
      OBVIOUS
    <2>3. own' = [own EXCEPT !.it = v, !.again = b]
      BY <1>5, <1>9, <2>1, <2>2
    <2>4. a \subseteq b /\ \A e \in Range(g) : e.n > v => e \in b
      BY <1>6, <2>2
    <2>5. Table(made, r, g, <<>>, v, f, b)
      BY <1>2, <1>5, <2>1, <2>4, TableRestored
    <2>6. /\ own'.rows = r /\ own'.it = v /\ own'.file = f /\ own'.again = b /\ DOMAIN own' = DOMAIN own
      BY <1>4, <1>5, <2>3
    <2>7. pc' = [pc EXCEPT !.main = "idle"] /\ session' \subseteq Devices /\ stopped' \in BOOLEAN
      BY <1>1, <1>2, <1>9 DEF To
    <2>8. Table(made, own'.rows, Given, <<>>, own'.it, own'.file, own'.again)
      BY <1>5, <2>5, <2>6
    <2>9. QED
      BY <1>1, <1>3, <1>8, <2>6, <2>7, <2>8, OdbcGoesOn
  <1>10. CASE /\ To("main", "idle") /\ UNCHANGED session
              /\ own' = [own EXCEPT !.it = 0, !.again = @ \cup {e.s : e \in Range(sent)}]
    <2>1. PICK v \in 0..made : v = 0
      BY <1>2
    <2>2. PICK b : b = a \cup {e.s : e \in Range(sent)}
      OBVIOUS
    <2>3. own' = [own EXCEPT !.it = v, !.again = b]
      BY <1>5, <1>10, <2>1, <2>2
    <2>4. a \subseteq b /\ \A e \in Range(g) : e.n > v => e \in b
      BY <1>7, <2>2
    <2>5. Table(made, r, g, <<>>, v, f, b)
      BY <1>2, <1>5, <2>1, <2>4, TableRestored
    <2>6. /\ own'.rows = r /\ own'.it = v /\ own'.file = f /\ own'.again = b /\ DOMAIN own' = DOMAIN own
      BY <1>4, <1>5, <2>3
    <2>7. pc' = [pc EXCEPT !.main = "idle"] /\ session' \subseteq Devices /\ stopped' \in BOOLEAN
      BY <1>1, <1>2, <1>10 DEF To
    <2>8. Table(made, own'.rows, Given, <<>>, own'.it, own'.file, own'.again)
      BY <1>5, <2>5, <2>6
    <2>9. QED
      BY <1>1, <1>3, <1>8, <2>6, <2>7, <2>8, OdbcGoesOn
  <1>11. CASE To("main", "ended") /\ session' = {} /\ UNCHANGED own
    <2>1. pc' = [pc EXCEPT !.main = "ended"] /\ session' \subseteq Devices /\ stopped' \in BOOLEAN
      BY <1>1, <1>2, <1>11 DEF To
    <2>2. Table(made, own'.rows, Given, <<>>, own'.it, own'.file, own'.again) /\ DOMAIN own' = DOMAIN own
      BY <1>5, <1>11
    <2>3. QED
      BY <1>1, <1>3, <1>8, <2>1, <2>2, OdbcGoesOn
  <1>12. QED
    BY <1>9, <1>10, <1>11 DEF OdbcIterator

(* The query, and the end of a pass.                                        *)
LEMMA OdbcFetched ==
    ASSUME World, OdbcInv, OdbcQueries
    PROVE  World' /\ OdbcInv' /\ kind' = kind
  <1>1. /\ UNCHANGED <<kind, stopped, queue, made, sent, lost, known, link, events, rpc>> /\ pc["main"] = "idle"
    BY DEF OdbcQueries, life, data, env, At
  <1>2. hand["main"] = <<>> /\ DOMAIN hand = Workers /\ "main" \in Workers /\ made \in Nat /\ session \subseteq Devices
        /\ stopped' \in BOOLEAN
    BY <1>1 DEF World, Inner, Outer, OdbcInv, Workers
  <1>3. DOMAIN own = {"rows", "it", "file", "persistent", "query", "fetched", "again"}
    BY DEF OdbcInv
  <1>4. PICK r, g, i, f, a : /\ r = own.rows /\ g = Given /\ i = own.it /\ f = own.file /\ a = own.again
                             /\ Table(made, r, g, <<>>, i, f, a)
    BY <1>2 DEF OdbcInv
  <1>5. "loop" \in PCs /\ "idle" \in PCs
    BY DEF PCs
  <1>6. CASE /\ To("main", "loop") /\ Hold("main", Chosen(own.rows, {k \in DOMAIN own.rows : own.rows[k].n > own.it}))
             /\ own' = [own EXCEPT !.fetched = FALSE] /\ UNCHANGED session
    <2>1. PICK I : I = {k \in DOMAIN r : r[k].n > i}
      OBVIOUS
    <2>2. I \in SUBSET (DOMAIN r) /\ \A k \in DOMAIN r : k \in I <=> r[k].n > i
      BY <2>1
    <2>3. Hold("main", Chosen(r, I))
      BY <1>4, <1>6, <2>1, Zenon
    <2>4. PICK h : h = Chosen(r, I)
      OBVIOUS
    <2>5. Table(made, r, g, h, i, f, a)
      BY <1>2, <1>4, <2>2, <2>4, TableFetched
    <2>6. hand'["main"] = h /\ DOMAIN hand' = Workers /\ pc' = [pc EXCEPT !.main = "loop"] /\ session' \subseteq Devices
      BY <1>2, <1>6, <2>3, <2>4 DEF Hold, To
    <2>7. /\ own'.rows = r /\ own'.it = i /\ own'.file = f /\ own'.again = a /\ DOMAIN own' = DOMAIN own
      BY <1>3, <1>4, <1>6
    <2>8. Table(made, own'.rows, Given, h, own'.it, own'.file, own'.again)
      BY <1>4, <2>5, <2>7
    <2>9. pc'["main"] = "loop"
      BY <1>2, <2>6 DEF World, Inner
    <2>10. QED
      BY <1>1, <1>2, <1>5, <2>6, <2>7, <2>8, <2>9, OdbcGoesOn
  <1>7. CASE session' = {} /\ UNCHANGED <<pc, hand, own>>
    <2>1. hand'["main"] = <<>> /\ DOMAIN hand' = Workers /\ session' \subseteq Devices
      BY <1>2, <1>7
    <2>2. Table(made, own'.rows, Given, <<>>, own'.it, own'.file, own'.again) /\ DOMAIN own' = DOMAIN own
      BY <1>4, <1>7
    <2>3. QED
      BY <1>1, <1>2, <1>5, <1>7, <2>1, <2>2, OdbcGoesOn
  <1>8. QED
    BY <1>6, <1>7 DEF OdbcQueries

LEMMA OdbcPasses ==
    ASSUME World, OdbcInv, OdbcBreaks \/ OdbcPolled
    PROVE  World' /\ OdbcInv' /\ kind' = kind
  <1>1. /\ UNCHANGED <<kind, stopped, queue, made, sent, lost, known, link, events, rpc>>
        /\ pc' = [pc EXCEPT !.main = "idle"] /\ session' \subseteq Devices
    BY DEF OdbcBreaks, OdbcPolled, life, data, env, To, World, Outer
  <1>2. /\ DOMAIN hand = Workers /\ "main" \in Workers /\ made \in Nat /\ stopped' \in BOOLEAN /\ "idle" \in PCs
    BY <1>1 DEF World, Inner, Outer, Workers, PCs
  <1>3. DOMAIN own = {"rows", "it", "file", "persistent", "query", "fetched", "again"}
    BY DEF OdbcInv
  <1>4. PICK r, g, h, i, f, a : /\ r = own.rows /\ g = Given /\ i = own.it /\ f = own.file /\ a = own.again
                                /\ h = hand["main"] /\ Table(made, r, g, h, i, f, a)
    BY DEF OdbcInv
  <1>5. Table(made, r, g, <<>>, i, f, a)
    BY <1>2, <1>4, TableLeft
  <1>6. hand'["main"] = <<>> /\ DOMAIN hand' = Workers
    <2>1. CASE OdbcBreaks
      BY <1>2, <2>1 DEF OdbcBreaks, Hold
    <2>2. CASE OdbcPolled
      BY <1>2, <2>2 DEF OdbcPolled
    <2>3. QED
      BY <2>1, <2>2
  <1>7. PICK e : /\ own'.file = e /\ e \in {f, <<i>>}
                 /\ own'.rows = r /\ own'.it = i /\ own'.again = a /\ DOMAIN own' = DOMAIN own
    <2>1. CASE OdbcBreaks
      BY <1>4, <2>1 DEF OdbcBreaks
    <2>2. CASE OdbcPolled
      <3>1. own' = [own EXCEPT !.file = IF own.persistent /\ own.fetched THEN <<own.it>> ELSE @]
        BY <2>2 DEF OdbcPolled
      <3>2. QED
        BY <1>3, <1>4, <3>1
    <2>3. QED
      BY <2>1, <2>2
  <1>8. Table(made, r, g, <<>>, i, e, a)
    <2>1. CASE e = f
      BY <1>5, <2>1
    <2>2. CASE e = <<i>>
      <3>1. Head(<<i>>) = i
        OBVIOUS
      <3>2. Head(e) = i
        BY <2>2, <3>1
      <3>3. Saved(made, r, g, e)
        BY <1>5, <3>2 DEF Table, Saved
      <3>4. QED
        BY <1>5, <3>3 DEF Table
    <2>3. QED
      BY <1>7, <2>1, <2>2
  <1>9. Table(made, own'.rows, Given, <<>>, own'.it, own'.file, own'.again)
    BY <1>4, <1>7, <1>8
  <1>10. QED
    BY <1>1, <1>2, <1>6, <1>7, <1>9, OdbcGoesOn

(* A row is sent, or cannot be converted.                                   *)
LEMMA OdbcSends ==
    ASSUME World, OdbcInv, OdbcRowSent
    PROVE  World' /\ OdbcInv' /\ kind' = kind
  <1>1. /\ UNCHANGED <<kind, stopped, pc, queue, made, session, link, events, rpc>>
        /\ pc["main"] = "loop" /\ hand["main"] # <<>>
    BY DEF OdbcRowSent, life, env, At
  <1>2. /\ DOMAIN hand = Workers /\ "main" \in Workers /\ made \in Nat
        /\ sent \in Seq(Entry(made)) /\ lost \subseteq Loss(made) /\ known \subseteq Names
    BY DEF World, Inner, Workers
  <1>3. DOMAIN own = {"rows", "it", "file", "persistent", "query", "fetched", "again"}
    BY DEF OdbcInv
  <1>4. PICK r, g, i, f, a : /\ r = own.rows /\ g = Given /\ i = own.it /\ f = own.file /\ a = own.again
                             /\ Table(made, r, g, hand["main"], i, f, a)
    BY DEF OdbcInv
  <1>5. PICK h \in Seq(Samples(made)) : h = hand["main"] /\ h # <<>> /\ Table(made, r, g, h, i, f, a)
    BY <1>1, <1>4 DEF Table
  <1>6. PICK x \in Samples(made) : x = Head(h)
    <2>1. Head(h) \in Samples(made)
      BY <1>5, HeadTailIs
    <2>2. QED
      BY <2>1
  <1>7. PICK u \in Seq(Samples(made)) : u = <<x>>
    <2>1. <<x>> \in Seq(Samples(made))
      OBVIOUS
    <2>2. QED
      BY <2>1
  <1>8. PICK t \in Seq(Samples(made)) : t = Good(u)
    BY <1>2, GoodOnes
  <1>9. /\ hand' = [hand EXCEPT !.main = Tail(h)] /\ Deliver(Own(t)) /\ Lose(Bad(u), "converter")
        /\ own' = [own EXCEPT !.fetched = TRUE, !.it = IF x.bad THEN i ELSE x.n]
    BY <1>4, <1>5, <1>6, <1>7, <1>8 DEF OdbcRowSent, Hold, Iterated
  <1>10. sent' \in Seq(Entry(made)) /\ Given' = g \o t /\ known' \subseteq Names /\ OwnNames'
    BY <1>2, <1>4, <1>9, OwnGiven DEF OdbcInv
  <1>11. lost' \subseteq Loss(made) /\ \A l \in lost' : l \in lost \/ (l.why = "converter" /\ l.s.bad)
    BY <1>2, <1>9, BadLost
  <1>12. World'
    BY <1>1, <1>2, <1>9, <1>10, <1>11 DEF World, Inner, Outer
  <1>13. Excused({})'
    BY <1>11 DEF OdbcInv, Excused
  <1>14. hand'["main"] = Tail(h)
    BY <1>2, <1>9
  <1>15. /\ own'.rows = r /\ own'.file = f /\ own'.again = a /\ DOMAIN own' = DOMAIN own
         /\ own'.it = IF x.bad THEN i ELSE x.n
    BY <1>3, <1>4, <1>9
  <1>16. Good(<<x>>) = IF x.bad THEN <<>> ELSE <<x>>
    BY <1>2, GoodOfOne
  <1>17. Table(made, r, Given', Tail(h), own'.it, f, a)
    <2>1. CASE x.bad
      <3>1. t = <<>> /\ g \in Seq(Samples(made))
        BY <1>5, <1>7, <1>8, <1>16, <2>1 DEF Table
      <3>2. g \o <<>> = g
        BY <3>1
      <3>3. Given' = g /\ own'.it = i
        BY <1>10, <1>15, <2>1, <3>1, <3>2
      <3>4. Table(made, r, g, Tail(h), i, f, a)
        BY <1>2, <1>5, <1>6, <2>1, TableSkips
      <3>5. QED
        BY <3>3, <3>4
    <2>2. CASE ~x.bad
      <3>1. Given' = g \o <<Head(h)>> /\ own'.it = Head(h).n
        BY <1>6, <1>7, <1>8, <1>10, <1>15, <1>16, <2>2
      <3>2. Table(made, r, g \o <<Head(h)>>, Tail(h), Head(h).n, f, a)
        BY <1>2, <1>5, <1>6, <2>2, TableSends
      <3>3. QED
        BY <3>1, <3>2
    <2>3. QED
      BY <2>1, <2>2
  <1>18. Table(made', own'.rows, Given', hand'.main, own'.it, own'.file, own'.again)
    BY <1>1, <1>14, <1>15, <1>17
  <1>19. QED
    BY <1>1, <1>3, <1>10, <1>12, <1>13, <1>15, <1>18 DEF OdbcInv

LEMMA OdbcReplies ==
    ASSUME NEW d
    PROVE  \A o \in OdbcRpc(d) : Replied(o)
  BY Returned DEF OdbcRpc, OdbcReservedRpc

LEMMA OdbcKeeps ==
    ASSUME World, OdbcInv, OdbcStep
    PROVE  World' /\ OdbcInv' /\ kind' = kind
  <1>1. "main" \in {"main", "save"} /\ "main" \in Workers
    BY DEF Workers
  <1>2. ASSUME OdbcConnects \/ OdbcEnds
        PROVE  World' /\ OdbcInv' /\ kind' = kind
    <2>1. /\ UNCHANGED <<kind, hand, queue, made, sent, lost, known, own, link, events, rpc>>
          /\ stopped' \in BOOLEAN /\ session' \subseteq Devices /\ pc["main"] = "idle"
      BY <1>2 DEF OdbcConnects, OdbcEnds, life, data, env, At, World, Outer
    <2>2. PICK p \in PCs : pc' = [pc EXCEPT !.main = p]
      BY <1>2 DEF OdbcConnects, OdbcEnds, To, PCs
    <2>3. PICK h : h = hand["main"] /\ h = <<>> /\ hand'["main"] = h /\ DOMAIN hand' = Workers
      BY <2>1 DEF OdbcInv, World, Inner
    <2>4. Table(made, own'.rows, Given, h, own'.it, own'.file, own'.again) /\ DOMAIN own' = DOMAIN own
      BY <2>1, <2>3 DEF OdbcInv
    <2>5. QED
      BY <2>1, <2>2, <2>3, <2>4, OdbcGoesOn
  <1>3. CASE OdbcClose
    <2>1. Resting("main") /\ own' = own /\ pc' = pc
      BY <1>3 DEF OdbcClose, Resting, work, data, conn, env, World, Inner, Outer
    <2>2. QED
      BY <2>1, OdbcSame DEF OdbcInv
  <1>4. CASE RpcReturns(OdbcRpc(rpc.st)) \/ UpdateReturns(OdbcUpdate(rpc.st))
    <2>1. \A o \in OdbcRpc(rpc.st) : Replied(o)
      BY OdbcReplies
    <2>2. Resting("main") /\ own' = own /\ pc' = pc
      BY <1>1, <1>4, <2>1, HandlerRests
    <2>3. QED
      BY <2>2, OdbcSame DEF OdbcInv
  <1>5. QED
    BY <1>2, <1>3, <1>4, OdbcGrows, OdbcRestored, OdbcFetched, OdbcPasses, OdbcSends
       DEF OdbcStep, OdbcMain, OdbcField, OdbcGateway, OdbcHandler

(* FTP: each file (l) was read up to some line (s) when it was last read,   *)
(* as a whole.  A line that is not older than one that was sent was read,   *)
(* or was sent before the file was read anew (a).                           *)
FtpStep == FtpMain \/ (\E d \in Devices : FtpField(d)) \/ FtpGateway \/ FtpHandler
FileOf(m, d, l) == l \in Seq(Samples(m)) /\ Rising(l) /\ \A k \in DOMAIN l : l[k].dev = d
SeenOf(d, l, s, g, a) ==
    /\ s \in 0..Len(l)
    /\ \A k \in DOMAIN l, e \in Range(g) : e.dev = d /\ e.n >= l[k].n => k <= s \/ l[k] \in a
Reread(g, a) ==
    /\ \A k \in DOMAIN g : ~g[k].bad
    /\ \A j, k \in DOMAIN g : j < k /\ g[j].dev = g[k].dev => g[k] \in a \/ g[j].n < g[k].n
Files(m, l, s, g, a) ==
    /\ DOMAIN l = Devices /\ DOMAIN s = Devices /\ g \in Seq(Samples(m))
    /\ \A d \in Devices : FileOf(m, d, l[d]) /\ SeenOf(d, l[d], s[d], g, a)
    /\ Reread(g, a)

LEMMA FileGrows ==
    ASSUME NEW m \in Nat, NEW d \in Devices, NEW r, FileOf(m, d, r),
           NEW x \in Samples(m + 1), x.n = m + 1, x.dev = d
    PROVE  /\ FileOf(m + 1, d, Append(r, x))
           /\ \A g \in Seq(Samples(m)) : \A s, a : SeenOf(d, r, s, g, a) => SeenOf(d, Append(r, x), s, g, a)
  <1>1. m + 1 \in Nat /\ Seq(Samples(m)) \subseteq Seq(Samples(m + 1))
    BY SamplesGrow
  <1>2. r \in Seq(Samples(m)) /\ r \in Seq(Samples(m + 1))
    BY <1>1 DEF FileOf
  <1>3. PICK q \in Seq(Samples(m + 1)) :
          /\ q = Append(r, x)
          /\ \A k \in DOMAIN q : (k \in DOMAIN r /\ q[k] = r[k]) \/ (q[k] = x /\ k = Len(r) + 1)
          /\ DOMAIN r = 1..Len(r) /\ DOMAIN q = 1..Len(r) + 1 /\ Len(r) \in Nat
    <2>1. Append(r, x) \in Seq(Samples(m + 1))
      BY <1>2
    <2>2. /\ \A k \in DOMAIN Append(r, x) : k \in DOMAIN r \/ k = Len(r) + 1
          /\ \A k \in DOMAIN r : Append(r, x)[k] = r[k]
          /\ Append(r, x)[Len(r) + 1] = x
          /\ DOMAIN r = 1..Len(r) /\ DOMAIN Append(r, x) = 1..Len(r) + 1 /\ Len(r) \in Nat
      BY <1>2, AppendIs
    <2>3. QED
      BY <2>1, <2>2
  <1>4. \A y \in Samples(m) : y.n \in Nat /\ y.n <= m
    BY DEF Samples
  <1>5. Rising(q)
    <2>1. SUFFICES ASSUME NEW j \in DOMAIN q, NEW k \in DOMAIN q, j < k PROVE q[j].n < q[k].n
      BY DEF Rising
    <2>2. j \in DOMAIN r /\ q[j] = r[j]
      BY <1>3, <2>1
    <2>3. CASE k \in DOMAIN r /\ q[k] = r[k]
      BY <2>1, <2>2, <2>3 DEF FileOf, Rising
    <2>4. CASE q[k] = x
      <3>1. r[j] \in Samples(m)
        BY <1>2, <2>2
      <3>2. QED
        BY <1>4, <2>2, <2>4, <3>1
    <2>5. QED
      BY <1>3, <2>3, <2>4
  <1>6. FileOf(m + 1, d, q)
    BY <1>3, <1>5 DEF FileOf
  <1>7. ASSUME NEW g \in Seq(Samples(m)), NEW s, NEW a, SeenOf(d, r, s, g, a)
        PROVE  SeenOf(d, q, s, g, a)
    <2>0. s \in 0..Len(q)
      <3>1. Len(q) = Len(r) + 1 /\ s \in 0..Len(r)
        BY <1>3, <1>7 DEF SeenOf
      <3>2. QED
        BY <1>3, <3>1
    <2>1. SUFFICES ASSUME NEW k \in DOMAIN q, NEW e \in Range(g), e.dev = d, e.n >= q[k].n
                   PROVE  k <= s \/ q[k] \in a
      BY <2>0 DEF SeenOf
    <2>2. e \in Samples(m)
      BY DEF Range
    <2>3. q[k] # x
      BY <1>4, <2>1, <2>2
    <2>4. k \in DOMAIN r /\ q[k] = r[k]
      BY <1>3, <2>3
    <2>5. QED
      BY <1>7, <2>1, <2>4 DEF SeenOf
  <1>8. QED
    BY <1>3, <1>6, <1>7

LEMMA FilesGrow ==
    ASSUME NEW m \in Nat, NEW l, NEW s, NEW g, NEW a, Files(m, l, s, g, a), NEW d \in Devices,
           NEW x \in Samples(m + 1), x.n = m + 1, x.dev = d
    PROVE  Files(m + 1, [l EXCEPT ![d] = Append(@, x)], s, g, a)
  <1>1. PICK u : u = [l EXCEPT ![d] = Append(@, x)] /\ DOMAIN u = Devices /\ u[d] = Append(l[d], x)
                 /\ \A e \in Devices \ {d} : u[e] = l[e]
    <2>1. PICK y : y = Append(l[d], x)
      OBVIOUS
    <2>2. PICK u : u = [l EXCEPT ![d] = y]
      OBVIOUS
    <2>3. DOMAIN u = Devices /\ u[d] = y /\ \A e \in Devices \ {d} : u[e] = l[e]
      BY <2>2 DEF Files
    <2>4. QED
      BY <2>1, <2>2, <2>3
  <1>2. m + 1 \in Nat /\ Seq(Samples(m)) \subseteq Seq(Samples(m + 1)) /\ g \in Seq(Samples(m))
    BY SamplesGrow DEF Files
  <1>3. ASSUME NEW e \in Devices PROVE FileOf(m + 1, e, u[e]) /\ SeenOf(e, u[e], s[e], g, a)
    <2>1. FileOf(m, e, l[e]) /\ SeenOf(e, l[e], s[e], g, a)
      BY DEF Files
    <2>2. CASE e = d
      BY <1>1, <1>2, <2>1, <2>2, FileGrows
    <2>3. CASE e # d
      BY <1>1, <1>2, <2>1, <2>3 DEF FileOf
    <2>4. QED
      BY <2>2, <2>3
  <1>4. Files(m + 1, u, s, g, a)
    BY <1>1, <1>2, <1>3 DEF Files
  <1>5. QED
    BY <1>1, <1>4

(* A file is read as a whole.                                               *)
LEMMA FileRead ==
    ASSUME NEW m \in Nat, NEW l, NEW s, NEW g, NEW a, Files(m, l, s, g, a), NEW d \in Devices,
           NEW t \in Seq(Samples(m)), Part(t, l[d]), \A k \in DOMAIN t : ~t[k].bad,
           NEW n \in 0..Len(l[d]), \A k \in DOMAIN l[d] : k <= n,
           NEW b, a \subseteq b, \A k \in DOMAIN l[d] : k <= s[d] => l[d][k] \in b
    PROVE  Files(m, l, [s EXCEPT ![d] = n], g \o t, b)
  <1>1. /\ DOMAIN l = Devices /\ DOMAIN s = Devices /\ g \in Seq(Samples(m)) /\ Reread(g, a)
        /\ \A e \in Devices : FileOf(m, e, l[e]) /\ SeenOf(e, l[e], s[e], g, a)
    BY DEF Files
  <1>2. PICK u : u = [s EXCEPT ![d] = n] /\ DOMAIN u = Devices /\ u[d] = n /\ \A e \in Devices \ {d} : u[e] = s[e]
    <2>1. PICK u : u = [s EXCEPT ![d] = n]
      OBVIOUS
    <2>2. DOMAIN u = Devices /\ u[d] = n /\ \A e \in Devices \ {d} : u[e] = s[e]
      BY <1>1, <2>1
    <2>3. QED
      BY <2>1, <2>2
  <1>3. PICK f \in [DOMAIN t -> DOMAIN l[d]] :
          /\ \A j, k \in DOMAIN t : j < k => f[j] < f[k]
          /\ \A k \in DOMAIN t : t[k] = l[d][f[k]]
    BY DEF Part
  <1>4. \A k \in DOMAIN t : t[k].dev = d
    BY <1>1, <1>3 DEF FileOf
  <1>5. PICK p \in Seq(Samples(m)) :
          /\ p = g \o t
          /\ \A k \in DOMAIN p : (k \in DOMAIN g /\ p[k] = g[k])
                                   \/ \E j \in DOMAIN t : k = Len(g) + j /\ p[k] = t[j]
          /\ DOMAIN g = 1..Len(g) /\ Len(g) \in Nat /\ DOMAIN t = 1..Len(t) /\ Len(t) \in Nat
    <2>1. DOMAIN g = 1..Len(g) /\ Len(g) \in Nat /\ DOMAIN t = 1..Len(t) /\ Len(t) \in Nat
      BY <1>1
    <2>2. /\ g \o t \in Seq(Samples(m)) /\ DOMAIN (g \o t) = 1..Len(g) + Len(t)
          /\ \A k \in 1..Len(g) : (g \o t)[k] = g[k] /\ k \in DOMAIN (g \o t)
          /\ \A k \in 1..Len(t) : (g \o t)[Len(g) + k] = t[k] /\ Len(g) + k \in DOMAIN (g \o t)
          /\ \A k \in DOMAIN (g \o t) : k \in 1..Len(g) \/ \E j \in 1..Len(t) : k = Len(g) + j
      BY <1>1, Concatenated
    <2>3. \A k \in DOMAIN (g \o t) : (k \in DOMAIN g /\ (g \o t)[k] = g[k])
                                   \/ \E j \in DOMAIN t : k = Len(g) + j /\ (g \o t)[k] = t[j]
      BY <2>1, <2>2
    <2>4. QED
      BY <2>1, <2>2, <2>3
  <1>6. \A e \in Range(p) : e \in Range(g) \/ \E j \in DOMAIN t : e = t[j]
    BY <1>5 DEF Range
  <1>7. ASSUME NEW e \in Devices PROVE SeenOf(e, l[e], u[e], p, b)
    <2>1. u[e] \in 0..Len(l[e]) /\ SeenOf(e, l[e], s[e], g, a)
      BY <1>1, <1>2 DEF SeenOf
    <2>2. CASE e = d
      <3>1. \A k \in DOMAIN l[e] : k <= u[e]
        BY <1>2, <2>2
      <3>2. QED
        BY <2>1, <3>1 DEF SeenOf
    <2>3. CASE e # d
      <3>1. u[e] = s[e]
        BY <1>2, <2>3
      <3>2. ASSUME NEW k \in DOMAIN l[e], NEW y \in Range(p), y.dev = e, y.n >= l[e][k].n
            PROVE  k <= s[e] \/ l[e][k] \in b
        <4>1. y \in Range(g)
          BY <1>4, <1>6, <2>3, <3>2
        <4>2. QED
          BY <2>1, <3>2, <4>1 DEF SeenOf
      <3>3. QED
        BY <2>1, <3>1, <3>2 DEF SeenOf
    <2>4. QED
      BY <2>2, <2>3
  <1>8. \A k \in DOMAIN p : ~p[k].bad
    BY <1>1, <1>5 DEF Reread
  <1>9. ASSUME NEW j \in DOMAIN p, NEW k \in DOMAIN p, j < k, p[j].dev = p[k].dev
        PROVE  p[k] \in b \/ p[j].n < p[k].n
    <2>1. CASE k \in DOMAIN g /\ p[k] = g[k]
      <3>1. j \in DOMAIN g /\ p[j] = g[j]
        BY <1>5, <1>9, <2>1
      <3>2. QED
        BY <1>1, <1>9, <2>1, <3>1 DEF Reread
    <2>2. ASSUME NEW i \in DOMAIN t, k = Len(g) + i, p[k] = t[i]
          PROVE  p[k] \in b \/ p[j].n < p[k].n
      <3>1. CASE j \in DOMAIN g /\ p[j] = g[j]
        <4>1. g[j] \in Range(g) /\ g[j].dev = d /\ g[j] \in Samples(m) /\ t[i] \in Samples(m)
          BY <1>1, <1>4, <1>9, <2>2, <3>1 DEF Range
        <4>2. f[i] \in DOMAIN l[d] /\ t[i] = l[d][f[i]]
          BY <1>3
        <4>3. g[j].n >= t[i].n => t[i] \in b
          <5>1. g[j].n >= t[i].n => f[i] <= s[d] \/ l[d][f[i]] \in a
            BY <1>1, <4>1, <4>2 DEF SeenOf
          <5>2. QED
            BY <4>2, <5>1
        <4>4. g[j].n >= t[i].n \/ g[j].n < t[i].n
          <5>1. g[j].n \in Nat /\ t[i].n \in Nat
            <6>1. \A y \in Samples(m) : y.n \in Nat
              BY DEF Samples
            <6>2. QED
              BY <4>1, <6>1
          <5>2. QED
            BY <5>1
        <4>5. QED
          BY <2>2, <3>1, <4>3, <4>4
      <3>2. ASSUME NEW h \in DOMAIN t, j = Len(g) + h, p[j] = t[h]
            PROVE  p[j].n < p[k].n
        <4>1. h < i
          BY <1>5, <1>9, <2>2, <3>2
        <4>2. f[h] < f[i] /\ f[h] \in DOMAIN l[d] /\ f[i] \in DOMAIN l[d]
          BY <1>3, <4>1
        <4>3. Rising(l[d])
          BY <1>1 DEF FileOf
        <4>4. QED
          BY <1>3, <2>2, <3>2, <4>2, <4>3 DEF Rising
      <3>3. QED
        BY <1>5, <3>1, <3>2
    <2>3. QED
      BY <1>5, <2>1, <2>2
  <1>10. Files(m, l, u, p, b)
    BY <1>1, <1>2, <1>5, <1>7, <1>8, <1>9 DEF Files, Reread
  <1>11. QED
    BY <1>2, <1>5, <1>10

(* The hashes are forgotten.                                                *)
LEMMA FilesForgotten ==
    ASSUME NEW m \in Nat, NEW l, NEW s, NEW g, NEW a, Files(m, l, s, g, a),
           NEW b, a \subseteq b, \A d \in Devices : \A k \in DOMAIN l[d] : k <= s[d] => l[d][k] \in b
    PROVE  Files(m, l, [d \in Devices |-> 0], g, b)
  <1>1. PICK u : u = [d \in Devices |-> 0] /\ DOMAIN u = Devices /\ \A d \in Devices : u[d] = 0
    <2>1. DOMAIN [d \in Devices |-> 0] = Devices /\ \A d \in Devices : [e \in Devices |-> 0][d] = 0
      OBVIOUS
    <2>2. QED
      BY <2>1
  <1>2. ASSUME NEW d \in Devices PROVE SeenOf(d, l[d], u[d], g, b)
    <2>1. FileOf(m, d, l[d]) /\ SeenOf(d, l[d], s[d], g, a)
      BY DEF Files
    <2>2. u[d] \in 0..Len(l[d])
      BY <1>1, <2>1 DEF FileOf
    <2>3. QED
      BY <2>1, <2>2 DEF SeenOf
  <1>3. Reread(g, b)
    BY DEF Files, Reread
  <1>4. Files(m, l, u, g, b)
    BY <1>1, <1>2, <1>3 DEF Files
  <1>5. QED
    BY <1>1, <1>4

FtpInv ==
    /\ DOMAIN own = {"json", "lines", "seen", "again"}
    /\ Files(made, own.lines, own.seen, Given, own.again)
    /\ hand.main \in Seq(Devices)
    /\ OwnNames /\ Excused({})

LEMMA FtpGoesOn ==
    ASSUME World, FtpInv, UNCHANGED <<kind, queue, made, sent, lost>>, Outer', known' \subseteq Names,
           pc' \in [Workers -> PCs], DOMAIN hand' = Workers, hand'["main"] \in Seq(Devices),
           DOMAIN own' = DOMAIN own,
           Files(made, own'.lines, own'.seen, Given, own'.again)
    PROVE  World' /\ FtpInv' /\ kind' = kind
  <1>1. World'
    BY DEF World, Inner
  <1>2. Given' = Given /\ OwnNames' = OwnNames /\ Excused({})' = Excused({})
    BY DEF Given, OwnNames, Excused
  <1>3. QED
    BY <1>1, <1>2 DEF FtpInv

LEMMA FtpRests ==
    ASSUME World, FtpInv, Resting("main"), own' = own
    PROVE  World' /\ FtpInv' /\ kind' = kind
  <1>1. World' /\ OwnNames' = OwnNames /\ UNCHANGED <<kind, made, sent, lost>> /\ hand'["main"] = hand["main"]
    BY Rests DEF Resting
  <1>2. Given' = Given /\ Excused({})' = Excused({})
    BY <1>1 DEF Given, Excused
  <1>3. QED
    BY <1>1, <1>2 DEF FtpInv

LEMMA FtpGrows ==
    ASSUME World, FtpInv, NEW d \in Devices, FtpLine(d)
    PROVE  World' /\ FtpInv' /\ kind' = kind
  <1>1. /\ Reads(1) /\ UNCHANGED <<kind, stopped, pc, hand, queue, sent, lost, session, known, link, events, rpc>>
        /\ \E bad \in BOOLEAN : own' = [own EXCEPT !.lines[d] = Append(@, Reading(d, 1, bad))]
    BY DEF FtpLine, life, work, env
  <1>2. PICK bad \in BOOLEAN : own' = [own EXCEPT !.lines[d] = Append(@, Reading(d, 1, bad))]
    BY <1>1
  <1>3. PICK x \in Samples(made + 1) : x = Reading(d, 1, bad) /\ x.n = made + 1 /\ x.dev = d /\ made \in Nat
    BY ReadingIs
  <1>4. /\ made' = made + 1 /\ made' \in 0..MaxSamples
        /\ sent \in Seq(Entry(made')) /\ lost \subseteq Loss(made')
    BY <1>1, MadeGrows
  <1>5. World'
    BY <1>1, <1>4 DEF World, Inner, Outer
  <1>6. /\ own'.lines = [own.lines EXCEPT ![d] = Append(@, x)] /\ own'.seen = own.seen /\ own'.again = own.again
        /\ DOMAIN own' = DOMAIN own
    BY <1>2, <1>3 DEF FtpInv
  <1>7. Files(made + 1, [own.lines EXCEPT ![d] = Append(@, x)], own.seen, Given, own.again)
    BY <1>3, FilesGrow DEF FtpInv
  <1>8. Given' = Given /\ OwnNames' = OwnNames /\ Excused({})' = Excused({})
    BY <1>1 DEF Given, OwnNames, Excused
  <1>9. QED
    BY <1>1, <1>4, <1>5, <1>6, <1>7, <1>8 DEF FtpInv

(* The first n entries of s.                                                *)
LEMMA FirstOnes ==
    ASSUME NEW S, NEW s \in Seq(S), NEW n \in 0..Len(s)
    PROVE  \A k \in DOMAIN s : k <= n => s[k] \in Range(SubSeq(s, 1, n))
  <1>1. DOMAIN s = 1..Len(s) /\ Len(s) \in Nat /\ n \in Nat /\ n <= Len(s)
    OBVIOUS
  <1>2. PICK t : t = SubSeq(s, 1, n)
    OBVIOUS
  <1>3. DOMAIN t = 1..n /\ \A k \in 1..n : t[k] = s[k]
    BY <1>1, <1>2
  <1>4. \A k \in DOMAIN s : k <= n => k \in DOMAIN t /\ t[k] = s[k]
    BY <1>1, <1>3
  <1>5. QED
    BY <1>2, <1>4 DEF Range

LEMMA FtpCloses ==
    ASSUME World, FtpInv, FtpClose
    PROVE  World' /\ FtpInv' /\ kind' = kind
  <1>1. /\ UNCHANGED <<kind, pc, hand, queue, made, sent, lost, session, known, link, events, rpc>> /\ stopped' = TRUE
        /\ own' = [own EXCEPT !.seen = [d \in Devices |-> 0],
                     !.again = @ \cup UNION {Range(SubSeq(own.lines[d], 1, own.seen[d])) : d \in Devices}]
    BY DEF FtpClose, work, data, env
  <1>2. Outer' /\ known' \subseteq Names /\ pc' \in [Workers -> PCs] /\ DOMAIN hand' = Workers /\ made \in Nat
    BY <1>1 DEF World, Inner, Outer
  <1>3. PICK l, s, g, a : /\ l = own.lines /\ s = own.seen /\ g = Given /\ a = own.again /\ Files(made, l, s, g, a)
    BY DEF FtpInv
  <1>4. PICK b : b = a \cup UNION {Range(SubSeq(l[d], 1, s[d])) : d \in Devices}
    OBVIOUS
  <1>5. \A d \in Devices : \A k \in DOMAIN l[d] : k <= s[d] => l[d][k] \in b
    <2>1. SUFFICES ASSUME NEW d \in Devices, NEW k \in DOMAIN l[d], k <= s[d] PROVE l[d][k] \in b
      OBVIOUS
    <2>2. l[d] \in Seq(Samples(made)) /\ s[d] \in 0..Len(l[d])
      BY <1>3 DEF Files, FileOf, SeenOf
    <2>3. l[d][k] \in Range(SubSeq(l[d], 1, s[d]))
      BY <2>1, <2>2, FirstOnes
    <2>4. QED
      BY <1>4, <2>3
  <1>6. PICK z : z = [d \in Devices |-> 0]
    OBVIOUS
  <1>7. Files(made, l, z, g, b)
    BY <1>2, <1>3, <1>4, <1>5, <1>6, FilesForgotten
  <1>8. /\ own'.lines = l /\ own'.seen = z /\ own'.again = b /\ DOMAIN own' = DOMAIN own
    <2>1. own' = [own EXCEPT !.seen = z, !.again = b]
      BY <1>1, <1>3, <1>4, <1>6
    <2>2. QED
      BY <1>3, <2>1 DEF FtpInv
  <1>9. Files(made, own'.lines, own'.seen, Given, own'.again) /\ hand'["main"] \in Seq(Devices)
    BY <1>1, <1>3, <1>7, <1>8 DEF FtpInv
  <1>10. QED
    BY <1>1, <1>2, <1>8, <1>9, FtpGoesOn

(* A path is looked at, and its file read when it has changed.              *)
LEMMA FtpReadsOne ==
    ASSUME World, FtpInv, FtpReads
    PROVE  World' /\ FtpInv' /\ kind' = kind
  <1>1. /\ UNCHANGED <<kind, stopped, pc, queue, made, session, link, events, rpc>> /\ hand.main # <<>>
    BY DEF FtpReads, life, env
  <1>2. /\ DOMAIN hand = Workers /\ "main" \in Workers /\ made \in Nat
        /\ sent \in Seq(Entry(made)) /\ lost \subseteq Loss(made) /\ known \subseteq Names
    BY DEF World, Inner, Workers
  <1>3. PICK p \in Seq(Devices) : p = hand.main /\ p # <<>>
    BY <1>1 DEF FtpInv
  <1>4. Head(p) \in Devices /\ Tail(p) \in Seq(Devices)
    BY <1>3
  <1>5. PICK d \in Devices : d = Head(hand.main)
    BY <1>3, <1>4
  <1>6. PICK l, s, g, a : /\ l = own.lines /\ s = own.seen /\ g = Given /\ a = own.again /\ Files(made, l, s, g, a)
    BY DEF FtpInv
  <1>7. PICK r \in Seq(Samples(made)) : r = l[d] /\ s[d] \in 0..Len(r) /\ DOMAIN r = 1..Len(r) /\ Len(r) \in Nat
    <2>1. l[d] \in Seq(Samples(made)) /\ s[d] \in 0..Len(l[d])
      BY <1>6 DEF Files, FileOf, SeenOf
    <2>2. DOMAIN l[d] = 1..Len(l[d]) /\ Len(l[d]) \in Nat
      BY <2>1
    <2>3. QED
      BY <2>1, <2>2
  <1>8. /\ hand' = [hand EXCEPT !.main = Tail(p)]
        /\ Deliver(IF Len(r) # s[d] THEN Own(Good(r)) ELSE <<>>)
        /\ Lose(IF Len(r) # s[d] THEN Bad(r) ELSE {}, "converter")
        /\ own' = [own EXCEPT !.seen[d] = Len(r),
                              !.again = IF Len(r) # s[d] THEN @ \cup Range(SubSeq(r, 1, s[d])) ELSE @]
    BY <1>3, <1>5, <1>6, <1>7 DEF FtpReads, Hold
  <1>9. DOMAIN own = {"json", "lines", "seen", "again"}
    BY DEF FtpInv
  <1>10. PICK b : b = IF Len(r) # s[d] THEN a \cup Range(SubSeq(r, 1, s[d])) ELSE a
    OBVIOUS
  <1>11. own'.lines = l /\ own'.seen = [s EXCEPT ![d] = Len(r)] /\ own'.again = b /\ DOMAIN own' = DOMAIN own
    <2>1. own' = [own EXCEPT !.seen[d] = Len(r), !.again = b]
      BY <1>6, <1>8, <1>10
    <2>2. QED
      BY <1>6, <1>9, <2>1
  <1>12. hand'["main"] \in Seq(Devices) /\ DOMAIN hand' = Workers
    BY <1>2, <1>3, <1>4, <1>8
  <1>13. CASE Len(r) # s[d]
    <2>1. PICK t \in Seq(Samples(made)) : t = Good(r) /\ Part(t, l[d]) /\ \A k \in DOMAIN t : ~t[k].bad
      <3>1. Good(r) \in Seq(Samples(made)) /\ Part(Good(r), r) /\ \A x \in Range(Good(r)) : ~x.bad
        BY <1>2, <1>7, GoodOnes
      <3>2. \A k \in DOMAIN Good(r) : ~Good(r)[k].bad
        BY <3>1 DEF Range
      <3>3. QED
        BY <1>7, <3>1, <3>2
    <2>2. Deliver(Own(t)) /\ Lose(Bad(r), "converter")
      BY <1>8, <1>13, <2>1
    <2>3. sent' \in Seq(Entry(made)) /\ Given' = g \o t /\ known' \subseteq Names /\ OwnNames'
      BY <1>2, <1>6, <2>2, OwnGiven DEF FtpInv
    <2>4. lost' \subseteq Loss(made) /\ \A k \in lost' : k \in lost \/ (k.why = "converter" /\ k.s.bad)
      BY <1>2, <2>2, BadLost
    <2>5. World'
      BY <1>1, <1>2, <1>12, <2>3, <2>4 DEF World, Inner, Outer
    <2>6. Excused({})'
      BY <2>4 DEF FtpInv, Excused
    <2>7. a \subseteq b /\ \A k \in DOMAIN l[d] : k <= s[d] => l[d][k] \in b
      BY <1>7, <1>10, <1>13, FirstOnes
    <2>8. PICK n \in 0..Len(l[d]) : n = Len(r) /\ \A k \in DOMAIN l[d] : k <= n
      BY <1>7
    <2>9. n \in 0..Len(l[d]) /\ \A k \in DOMAIN l[d] : k <= n
      BY <2>8
    <2>10. Files(made, l, [s EXCEPT ![d] = n], g \o t, b)
      BY <1>2, <1>6, <2>1, <2>7, <2>9, FileRead
    <2>11. Files(made', own'.lines, own'.seen, Given', own'.again)
      BY <1>1, <1>11, <2>3, <2>8, <2>10
    <2>12. QED
      BY <1>1, <1>9, <1>11, <1>12, <2>3, <2>5, <2>6, <2>11 DEF FtpInv
  <1>14. CASE Len(r) = s[d]
    <2>1. Deliver(<<>>) /\ Lose({}, "converter")
      BY <1>8, <1>14
    <2>2. /\ sent' = sent \o <<>> /\ known' = known \cup {e.as : e \in Range(<<>>)}
          /\ lost' = lost \cup {[s |-> x, why |-> "converter"] : x \in {}}
      BY <2>1 DEF Deliver, Lose
    <2>3. sent' = sent /\ lost' = lost
      BY <1>2, <2>2
    <2>4. known' = known
      <3>1. DOMAIN <<>> = {}
        OBVIOUS
      <3>2. Range(<<>>) = {}
        BY <3>1 DEF Range
      <3>3. QED
        BY <2>2, <3>2
    <2>5. b = a
      BY <1>10, <1>14
    <2>6. PICK u : u = [s EXCEPT ![d] = Len(r)] /\ DOMAIN u = Devices /\ \A e \in Devices : u[e] = s[e]
      <3>1. PICK u : u = [s EXCEPT ![d] = Len(r)]
        OBVIOUS
      <3>2. DOMAIN u = Devices /\ \A e \in Devices : u[e] = s[e]
        BY <1>6, <1>14, <3>1 DEF Files
      <3>3. QED
        BY <3>1, <3>2
    <2>7. Files(made, l, u, g, a)
      BY <1>6, <2>6 DEF Files
    <2>8. Files(made, own'.lines, own'.seen, Given, own'.again)
      BY <1>6, <1>11, <2>5, <2>6, <2>7
    <2>9. Outer' /\ known' \subseteq Names /\ pc' \in [Workers -> PCs]
      BY <1>1, <2>4 DEF World, Inner, Outer
    <2>10. QED
      BY <1>1, <1>11, <1>12, <2>3, <2>8, <2>9, FtpGoesOn
  <1>15. QED
    BY <1>13, <1>14

LEMMA FtpReplies ==
    ASSUME NEW d
    PROVE  \A o \in FtpRpc(d) : Replied(o)
  BY Returned DEF FtpRpc, FtpProcessed

LEMMA FtpKeeps ==
    ASSUME World, FtpInv, FtpStep
    PROVE  World' /\ FtpInv' /\ kind' = kind
  <1>1. "main" \in {"main", "save"} /\ "main" \in Workers
    BY DEF Workers
  <1>2. Order \in Seq(Devices) /\ <<>> \in Seq(Devices)
    BY DEF FieldConnectorAssumption, Devices
  <1>3. CASE FtpConnects \/ FtpBegins \/ FtpBreaks
    <2>1. /\ UNCHANGED <<kind, queue, made, sent, lost, known, own, link, events, rpc>>
          /\ stopped' \in BOOLEAN /\ session' \subseteq Devices
      BY <1>3 DEF FtpConnects, FtpBegins, FtpBreaks, life, data, conn, env, World, Outer
    <2>2. pc' \in [Workers -> PCs]
      <3>1. pc' = pc \/ pc' = [pc EXCEPT !.main = "loop"] \/ pc' = [pc EXCEPT !.main = "ended"]
        BY <1>3 DEF FtpConnects, FtpBegins, FtpBreaks, To
      <3>2. QED
        BY <3>1 DEF World, Inner, PCs
    <2>3. PICK h \in Seq(Devices) : hand'["main"] = h /\ DOMAIN hand' = Workers
      <3>1. hand' = hand \/ hand' = [hand EXCEPT !.main = Order] \/ hand' = [hand EXCEPT !.main = <<>>]
        BY <1>3 DEF FtpConnects, FtpBegins, FtpBreaks, Hold
      <3>2. hand["main"] \in Seq(Devices) /\ DOMAIN hand = Workers
        BY DEF FtpInv, World, Inner
      <3>3. hand'["main"] \in Seq(Devices) /\ DOMAIN hand' = Workers
        BY <1>1, <1>2, <3>1, <3>2
      <3>4. QED
        BY <3>3
    <2>4. Outer' /\ known' \subseteq Names
      BY <2>1 DEF World, Inner, Outer
    <2>5. Files(made, own'.lines, own'.seen, Given, own'.again) /\ DOMAIN own' = DOMAIN own
      BY <2>1 DEF FtpInv
    <2>6. QED
      BY <2>1, <2>2, <2>3, <2>4, <2>5, FtpGoesOn
  <1>4. CASE FtpEnds
    <2>1. Resting("main") /\ own' = own
      BY <1>1, <1>4, EndsRests DEF FtpEnds
    <2>2. QED
      BY <2>1, FtpRests
  <1>5. CASE RpcReturns(FtpRpc(rpc.st)) \/ UpdateReturns(FtpUpdate(rpc.st))
    <2>1. \A o \in FtpRpc(rpc.st) : Replied(o)
      BY FtpReplies
    <2>2. Resting("main") /\ own' = own
      BY <1>1, <1>5, <2>1, HandlerRests
    <2>3. QED
      BY <2>2, FtpRests
  <1>6. QED
    BY <1>3, <1>4, <1>5, FtpGrows, FtpCloses, FtpReadsOne
       DEF FtpStep, FtpMain, FtpField, FtpGateway, FtpHandler
=============================================================================
