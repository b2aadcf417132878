-------------------------- MODULE ConnectorsProofs --------------------------
(***************************************************************************)
(* For any devices, any number of readings, failures and requests, and any *)
(* of the sixteen connectors: what they send is sent once, in order, under *)
(* the right name and in time, and what they give up has a cause.          *)
(*                                                                         *)
(* The connectors that pass on batches (OPC-UA, MQTT, socket), and all of  *)
(* them at once.                                                           *)
(***************************************************************************)
EXTENDS FieldConnectorProofs

USE FieldConnectorAssumption

-----------------------------------------------------------------------------
(* Readings on their way in batches                                        *)

Batch(o, m, D, s) == s \in Seq(Samples(m)) /\ Sorted(o, s) /\ Gone(D, s)
Rows(o, m, D, b) ==
    /\ b \in Seq(Seq(Samples(m))) /\ \A i \in DOMAIN b : Batch(o, m, D, b[i])
    /\ \A i, j \in DOMAIN b : i < j => Behind(o, b[i], b[j])

\* s is ahead of all of b; all of b is ahead of s; all of b is ahead of all of c.
Heads(o, s, b) == \A i \in DOMAIN b : Behind(o, s, b[i])
Trails(o, b, s) == \A i \in DOMAIN b : Behind(o, b[i], s)
Ahead(o, b, c) == \A i \in DOMAIN b : \A j \in DOMAIN c : Behind(o, b[i], c[j])

\* What was sent (a), the batches being worked on (b), a queue of readings (e), a
\* queue of batches (c), and what was thrown away (D).
Train(o, m, D, a, b, e, c) ==
    /\ D \subseteq Samples(m) /\ Batch(o, m, D, a) /\ Rows(o, m, D, b) /\ Batch(o, m, D, e) /\ Rows(o, m, D, c)
    /\ Heads(o, a, b) /\ Behind(o, a, e) /\ Heads(o, a, c)
    /\ Trails(o, b, e) /\ Ahead(o, b, c) /\ Heads(o, e, c)

LEMMA RowAdded ==
    ASSUME NEW o, NEW m, NEW D, NEW b, NEW p, Rows(o, m, D, b), Batch(o, m, D, p), Trails(o, b, p)
    PROVE  /\ Rows(o, m, D, Append(b, p))
           /\ \A s : Heads(o, s, b) /\ Behind(o, s, p) => Heads(o, s, Append(b, p))
           /\ \A s : Trails(o, b, s) /\ Behind(o, p, s) => Trails(o, Append(b, p), s)
           /\ \A c : Ahead(o, b, c) /\ Heads(o, p, c) => Ahead(o, Append(b, p), c)
           /\ \A c : Ahead(o, c, b) /\ Trails(o, c, p) => Ahead(o, c, Append(b, p))
  <1>1. PICK u : u = Append(b, p)
    OBVIOUS
  <1>2. b \in Seq(Seq(Samples(m))) /\ p \in Seq(Samples(m))
    BY DEF Rows, Batch
  <1>3. /\ u \in Seq(Seq(Samples(m))) /\ Len(b) \in Nat /\ DOMAIN b = 1..Len(b) /\ DOMAIN u = 1..Len(b) + 1
        /\ \A i \in DOMAIN u : (i \in DOMAIN b /\ u[i] = b[i] /\ i < Len(b) + 1) \/ (i = Len(b) + 1 /\ u[i] = p)
    BY <1>1, <1>2, AppendIs
  <1>4. Rows(o, m, D, u)
    <2>1. \A i \in DOMAIN u : Batch(o, m, D, u[i])
      BY <1>3 DEF Rows
    <2>2. ASSUME NEW i \in DOMAIN u, NEW j \in DOMAIN u, i < j PROVE Behind(o, u[i], u[j])
      <3>1. i \in DOMAIN b /\ u[i] = b[i]
        <4>1. ~(i = Len(b) + 1)
          BY <1>3, <2>2
        <4>2. QED
          BY <1>3, <4>1
      <3>2. CASE j \in DOMAIN b /\ u[j] = b[j]
        BY <2>2, <3>1, <3>2 DEF Rows
      <3>3. CASE u[j] = p
        BY <3>1, <3>3 DEF Trails
      <3>4. QED
        BY <1>3, <3>2, <3>3
    <2>3. QED
      BY <1>3, <2>1, <2>2 DEF Rows
  <1>5. /\ \A s : Heads(o, s, b) /\ Behind(o, s, p) => Heads(o, s, u)
        /\ \A s : Trails(o, b, s) /\ Behind(o, p, s) => Trails(o, u, s)
    BY <1>3 DEF Heads, Trails
  <1>6. /\ \A c : Ahead(o, b, c) /\ Heads(o, p, c) => Ahead(o, u, c)
        /\ \A c : Ahead(o, c, b) /\ Trails(o, c, p) => Ahead(o, c, u)
    BY <1>3 DEF Heads, Trails, Ahead
  <1>7. QED
    BY <1>1, <1>4, <1>5, <1>6

\* q is what is left of b when the i-th batch becomes r, or is gone.
Keeps(q, b, i, r) ==
    \E f \in [DOMAIN q -> DOMAIN b] :
        /\ \A j, k \in DOMAIN q : j < k => f[j] < f[k]
        /\ \A k \in DOMAIN q : q[k] = IF f[k] = i THEN r ELSE b[f[k]]

LEMMA RowsKept ==
    ASSUME NEW o \in BOOLEAN, NEW m \in Nat, NEW D, NEW b, Rows(o, m, D, b), NEW i \in DOMAIN b,
           NEW r \in Seq(Samples(m)), Part(r, b[i]), NEW q \in Seq(Seq(Samples(m))), Keeps(q, b, i, r)
    PROVE  /\ Rows(o, m, D, q)
           /\ \A s : (Heads(o, s, b) => Heads(o, s, q)) /\ (Trails(o, b, s) => Trails(o, q, s))
           /\ \A c : (Ahead(o, b, c) => Ahead(o, q, c)) /\ (Ahead(o, c, b) => Ahead(o, c, q))
           /\ \A k \in DOMAIN q : \E l \in DOMAIN b : Range(q[k]) \subseteq Range(b[l])
  <1>1. PICK f \in [DOMAIN q -> DOMAIN b] :
               /\ \A j, k \in DOMAIN q : j < k => f[j] < f[k]
               /\ \A k \in DOMAIN q : q[k] = IF f[k] = i THEN r ELSE b[f[k]]
    BY DEF Keeps
  <1>2. \A k \in DOMAIN b : b[k] \in Seq(Samples(m)) /\ Sorted(o, b[k]) /\ Gone(D, b[k])
    BY DEF Rows, Batch
  <1>3. /\ Sorted(o, r) /\ Gone(D, r) /\ Range(r) \subseteq Range(b[i])
        /\ \A s : (Behind(o, b[i], s) => Behind(o, r, s)) /\ (Behind(o, s, b[i]) => Behind(o, s, r))
    <2>1. PICK s \in Seq(Samples(m)) : s = b[i] /\ Sorted(o, s) /\ Gone(D, s) /\ Part(r, s)
      BY <1>2
    <2>2. Range(r) \subseteq Range(s)
      BY <2>1 DEF Part, Range
    <2>3. QED
      BY <2>1, <2>2, PartOf
  <1>4. ASSUME NEW k \in DOMAIN q
        PROVE  /\ f[k] \in DOMAIN b /\ Batch(o, m, D, q[k]) /\ Range(q[k]) \subseteq Range(b[f[k]])
               /\ \A s : (Behind(o, b[f[k]], s) => Behind(o, q[k], s)) /\ (Behind(o, s, b[f[k]]) => Behind(o, s, q[k]))
    <2>1. f[k] \in DOMAIN b
      BY <1>1
    <2>2. CASE f[k] = i
      BY <1>1, <1>3, <2>1, <2>2 DEF Batch
    <2>3. CASE f[k] # i
      BY <1>1, <1>2, <2>1, <2>3 DEF Batch
    <2>4. QED
      BY <2>2, <2>3
  <1>5. Rows(o, m, D, q)
    <2>1. ASSUME NEW j \in DOMAIN q, NEW k \in DOMAIN q, j < k PROVE Behind(o, q[j], q[k])
      <3>1. Behind(o, b[f[j]], b[f[k]])
        BY <1>1, <1>4, <2>1 DEF Rows
      <3>2. QED
        BY <1>4, <3>1
    <2>2. QED
      BY <1>4, <2>1 DEF Rows
  <1>6. \A s : (Heads(o, s, b) => Heads(o, s, q)) /\ (Trails(o, b, s) => Trails(o, q, s))
    BY <1>4 DEF Heads, Trails
  <1>7. \A c : (Ahead(o, b, c) => Ahead(o, q, c)) /\ (Ahead(o, c, b) => Ahead(o, c, q))
    BY <1>4 DEF Ahead
  <1>8. QED
    BY <1>4, <1>5, <1>6, <1>7

LEMMA WhatIsKept ==
    ASSUME NEW S, NEW b \in Seq(S), NEW i \in DOMAIN b, NEW r
    PROVE  /\ Without(b, i) \in Seq(S) /\ Keeps(Without(b, i), b, i, r)
           /\ r \in S => [b EXCEPT ![i] = r] \in Seq(S) /\ Keeps([b EXCEPT ![i] = r], b, i, r)
           /\ Tail(b) \in Seq(S) /\ Keeps(Tail(b), b, 1, r) /\ 1 \in DOMAIN b /\ b[1] = Head(b)
  <1>1. DOMAIN b = 1..Len(b) /\ Len(b) \in Nat /\ i \in 1..Len(b) /\ b # <<>>
    OBVIOUS
  <1>2. Without(b, i) \in Seq(S) /\ Keeps(Without(b, i), b, i, r)
    <2> DEFINE q == Without(b, i)
               f == [k \in DOMAIN q |-> IF k < i THEN k ELSE k + 1]
    <2>1. /\ q \in Seq(S) /\ Len(q) = Len(b) - 1
          /\ \A k \in 1..Len(b) - 1 : q[k] = IF k < i THEN b[k] ELSE b[k + 1]
      BY <1>1, WithoutIs
    <2> HIDE DEF q
    <2>2. DOMAIN q = 1..Len(b) - 1
      BY <2>1
    <2>3. f \in [DOMAIN q -> DOMAIN b]
      BY <1>1, <2>2
    <2>4. \A j, k \in DOMAIN q : j < k => f[j] < f[k]
      BY <1>1, <2>2
    <2>5. \A k \in DOMAIN q : f[k] # i /\ q[k] = b[f[k]]
      BY <1>1, <2>1, <2>2
    <2> HIDE DEF f
    <2>6. Keeps(q, b, i, r)
      BY <2>3, <2>4, <2>5 DEF Keeps
    <2>7. QED
      BY <2>1, <2>6 DEF q
  <1>3. ASSUME r \in S PROVE [b EXCEPT ![i] = r] \in Seq(S) /\ Keeps([b EXCEPT ![i] = r], b, i, r)
    <2> DEFINE q == [b EXCEPT ![i] = r]
               f == [k \in DOMAIN q |-> k]
    <2>1. q \in Seq(S) /\ DOMAIN q = DOMAIN b /\ \A k \in DOMAIN q : q[k] = IF k = i THEN r ELSE b[k]
      BY <1>3
    <2> HIDE DEF q
    <2>2. f \in [DOMAIN q -> DOMAIN b]
      BY <2>1
    <2>3. \A k \in DOMAIN q : f[k] = k
      OBVIOUS
    <2> HIDE DEF f
    <2>4. Keeps(q, b, i, r)
      BY <2>1, <2>2, <2>3 DEF Keeps
    <2>5. QED
      BY <2>1, <2>4 DEF q
  <1>4. Tail(b) \in Seq(S) /\ Keeps(Tail(b), b, 1, r) /\ 1 \in DOMAIN b /\ b[1] = Head(b)
    <2> DEFINE q == Tail(b)
               f == [k \in DOMAIN q |-> k + 1]
    <2>1. /\ q \in Seq(S) /\ 1 \in DOMAIN b /\ Head(b) = b[1]
          /\ \A k \in DOMAIN q : k + 1 \in DOMAIN b /\ q[k] = b[k + 1]
      BY <1>1, HeadTailIs
    <2>2. \A k \in DOMAIN q : k \in Nat \ {0}
      BY <2>1
    <2> HIDE DEF q
    <2>3. f \in [DOMAIN q -> DOMAIN b]
      BY <2>1
    <2>4. \A k \in DOMAIN q : f[k] = k + 1 /\ f[k] # 1
      BY <2>2
    <2>5. \A j, k \in DOMAIN q : j < k => f[j] < f[k]
      BY <2>2, <2>4
    <2> HIDE DEF f
    <2>6. Keeps(q, b, 1, r)
      BY <2>1, <2>3, <2>4, <2>5 DEF Keeps
    <2>7. QED
      BY <2>1, <2>6 DEF q
  <1>5. QED
    BY <1>2, <1>3, <1>4

(* Thrown away is what was in one of the batches, or in one of the queues.  *)
LEMMA RowsThrown ==
    ASSUME NEW o, NEW m, NEW D, NEW E
    PROVE  /\ \A s : Batch(o, m, D, s) /\ Gone(E, s) => Batch(o, m, D \cup E, s)
           /\ \A b : Rows(o, m, D, b) /\ (\A i \in DOMAIN b : Gone(E, b[i])) => Rows(o, m, D \cup E, b)
  BY Thrown DEF Batch, Rows

LEMMA RowGoes ==
    ASSUME NEW o, NEW s, NEW E, E \subseteq Range(s)
    PROVE  /\ \A b : Heads(o, s, b) \/ Trails(o, b, s) => \A i \in DOMAIN b : Gone(E, b[i])
           /\ \A r : Behind(o, r, s) \/ Behind(o, s, r) => Gone(E, r)
  BY OutOf DEF Heads, Trails

(* The first n of the queue of readings become a batch.                     *)
LEMMA BatchTaken ==
    ASSUME NEW o \in BOOLEAN, NEW m \in Nat, NEW D, NEW a, NEW b, NEW e, NEW c, Train(o, m, D, a, b, e, c),
           NEW n \in 1..Len(e)
    PROVE  Train(o, m, D, a, Append(b, SubSeq(e, 1, n)), SubSeq(e, n + 1, Len(e)), c)
  <1> DEFINE p == SubSeq(e, 1, n)
             q == SubSeq(e, n + 1, Len(e))
  <1>1. e \in Seq(Samples(m)) /\ Sorted(o, e) /\ Gone(D, e)
    BY DEF Train, Batch
  <1>2. /\ Batch(o, m, D, p) /\ Batch(o, m, D, q) /\ Behind(o, p, q)
        /\ \A r : Behind(o, r, e) => Behind(o, r, p) /\ Behind(o, r, q)
        /\ \A r : Behind(o, e, r) => Behind(o, p, r) /\ Behind(o, q, r)
    BY <1>1, PrefixAndRest DEF Batch
  <1> HIDE DEF p, q
  <1>3. /\ Rows(o, m, D, b) /\ Trails(o, b, p) /\ Trails(o, b, q) /\ Heads(o, a, b) /\ Behind(o, a, p) /\ Behind(o, a, q)
        /\ Ahead(o, b, c) /\ Heads(o, p, c) /\ Heads(o, q, c)
    BY <1>2 DEF Train, Heads, Trails
  <1>4. /\ Rows(o, m, D, Append(b, p)) /\ Heads(o, a, Append(b, p)) /\ Trails(o, Append(b, p), q)
        /\ Ahead(o, Append(b, p), c)
    BY <1>2, <1>3, RowAdded
  <1>5. Train(o, m, D, a, Append(b, p), q, c)
    BY <1>2, <1>3, <1>4 DEF Train
  <1>6. QED
    BY <1>5 DEF p, q

(* A part of the i-th batch is given to the gateway, a part of it is left.   *)
LEMMA BatchGiven ==
    ASSUME NEW o \in BOOLEAN, NEW m \in Nat, NEW D, NEW a, NEW b, NEW e, NEW c, Train(o, m, D, a, b, e, c),
           NEW i \in DOMAIN b, o => i = 1 /\ Len(b) = 1,
           NEW t \in Seq(Samples(m)), Part(t, b[i]), NEW r \in Seq(Samples(m)), Part(r, b[i]), Behind(o, t, r),
           NEW q \in Seq(Seq(Samples(m))), Keeps(q, b, i, r),
           NEW E, E \subseteq Range(b[i]), Gone(E, t), Gone(E, r)
    PROVE  Train(o, m, D \cup E, a \o t, q, e, c)
  <1>1. PICK s \in Seq(Samples(m)) : s = b[i] /\ Sorted(o, s) /\ Gone(D, s)
    BY DEF Train, Rows, Batch
  <1>2. /\ Sorted(o, t) /\ Gone(D, t)
        /\ \A x : (Behind(o, s, x) => Behind(o, t, x)) /\ (Behind(o, x, s) => Behind(o, x, t))
    BY <1>1, PartOf
  <1>3. /\ a \in Seq(Samples(m)) /\ Batch(o, m, D, a) /\ Batch(o, m, D, e) /\ Rows(o, m, D, b)
        /\ Rows(o, m, D, c) /\ D \subseteq Samples(m)
        /\ Behind(o, a, s) /\ Behind(o, s, e) /\ Heads(o, s, c)
    BY <1>1 DEF Train, Batch, Heads, Trails, Ahead
  <1>4. /\ Rows(o, m, D, q) /\ Heads(o, a, q) /\ Trails(o, q, e) /\ Ahead(o, q, c)
    BY RowsKept DEF Train
  <1>5. \A k \in DOMAIN q : Behind(o, t, q[k]) /\ Gone(E, q[k])
    <2>1. PICK f \in [DOMAIN q -> DOMAIN b] : \A k \in DOMAIN q : q[k] = IF f[k] = i THEN r ELSE b[f[k]]
      BY DEF Keeps
    <2>2. SUFFICES ASSUME NEW k \in DOMAIN q PROVE Behind(o, t, q[k]) /\ Gone(E, q[k])
      OBVIOUS
    <2>3. CASE f[k] = i
      BY <2>1, <2>3
    <2>4. CASE f[k] # i
      <3>1. f[k] \in DOMAIN b /\ q[k] = b[f[k]] /\ f[k] \in Nat /\ i \in Nat /\ Len(b) \in Nat /\ DOMAIN b = 1..Len(b)
        <4>1. b \in Seq(Seq(Samples(m))) /\ f[k] \in DOMAIN b /\ q[k] = b[f[k]]
          BY <1>3, <2>1, <2>4 DEF Rows
        <4>2. Len(b) \in Nat /\ DOMAIN b = 1..Len(b)
          BY <4>1
        <4>3. i \in Nat /\ f[k] \in Nat
          <5>1. i \in 1..Len(b) /\ f[k] \in 1..Len(b)
            BY <4>1, <4>2
          <5>2. QED
            BY <4>2, <5>1
        <4>4. QED
          BY <4>1, <4>2, <4>3
      <3>2. ~o
        BY <2>4, <3>1
      <3>3. CASE i < f[k]
        <4>1. Behind(o, s, q[k])
          BY <1>1, <1>3, <3>1, <3>3 DEF Rows
        <4>2. QED
          BY <1>1, <1>2, <4>1, OutOf
      <3>4. CASE f[k] < i
        <4>1. Behind(o, q[k], s)
          BY <1>1, <1>3, <3>1, <3>4 DEF Rows
        <4>2. Behind(o, s, q[k])
          BY <3>2, <4>1 DEF Behind, Earlier
        <4>3. QED
          BY <1>1, <1>2, <4>2, OutOf
      <3>5. QED
        BY <2>4, <3>1, <3>3, <3>4
    <2>5. QED
      BY <2>3, <2>4
  <1>6. Behind(o, t, e) /\ Heads(o, t, c) /\ Behind(o, a, t)
    BY <1>2, <1>3 DEF Heads
  <1>7. Gone(E, a) /\ Gone(E, e) /\ \A j \in DOMAIN c : Gone(E, c[j])
    BY <1>1, <1>3, RowGoes
  <1>8. Batch(o, m, D, a \o t)
    BY <1>2, <1>3, <1>6, Joined DEF Batch
  <1>9. Gone(E, a \o t)
    BY <1>3, <1>7, Joined
  <1>10. /\ Batch(o, m, D \cup E, a \o t) /\ Rows(o, m, D \cup E, q) /\ Batch(o, m, D \cup E, e)
         /\ Rows(o, m, D \cup E, c)
    BY <1>3, <1>4, <1>5, <1>7, <1>8, <1>9, RowsThrown
  <1>11. Heads(o, a \o t, q) /\ Behind(o, a \o t, e) /\ Heads(o, a \o t, c)
    <2>1. \A x : Behind(o, a, x) /\ Behind(o, t, x) => Behind(o, a \o t, x)
      BY <1>3, Joined
    <2>2. QED
      BY <1>3, <1>4, <1>5, <1>6, <2>1 DEF Heads, Train
  <1>12. E \subseteq Samples(m)
    BY <1>1 DEF Range
  <1>13. QED
    BY <1>3, <1>4, <1>10, <1>11, <1>12 DEF Train

(* The first batch of the queue is looked at: a part of it joins the queue   *)
(* of readings (FirstPassed), it becomes a batch that is worked on           *)
(* (FirstSubmitted), or a part of it is given to the gateway (FirstGiven).   *)
LEMMA FirstPassed ==
    ASSUME NEW o \in BOOLEAN, NEW m \in Nat, NEW D, NEW a, NEW b, NEW e, NEW c, Train(o, m, D, a, b, e, c), c # <<>>,
           NEW t \in Seq(Samples(m)), Part(t, Head(c)), NEW E, E \subseteq Range(Head(c)), E \cap Range(t) = {}
    PROVE  Train(o, m, D \cup E, a, b, e \o t, Tail(c))
  <1>1. 1 \in DOMAIN c /\ c[1] = Head(c) /\ c \in Seq(Seq(Samples(m)))
    <2>1. c \in Seq(Seq(Samples(m)))
      BY DEF Train, Rows
    <2>2. QED
      BY <2>1, HeadTailIs
  <1>2. PICK s \in Seq(Samples(m)) : s = c[1] /\ s = Head(c) /\ Sorted(o, s) /\ Gone(D, s)
    BY <1>1 DEF Train, Rows, Batch
  <1>3. PICK q \in Seq(Seq(Samples(m))) : q = Tail(c) /\ Keeps(q, c, 1, <<>>)
    BY <1>1, WhatIsKept
  <1>4. /\ Sorted(o, t) /\ Gone(D, t) /\ Gone(E, t)
        /\ \A x : (Behind(o, s, x) => Behind(o, t, x)) /\ (Behind(o, x, s) => Behind(o, x, t))
    BY <1>2, PartOf
  <1>5. /\ e \in Seq(Samples(m)) /\ Batch(o, m, D, a) /\ Batch(o, m, D, e) /\ Rows(o, m, D, b)
        /\ Rows(o, m, D, c) /\ D \subseteq Samples(m)
        /\ Behind(o, a, s) /\ Behind(o, e, s) /\ Trails(o, b, s)
    BY <1>1, <1>2 DEF Train, Batch, Heads, Trails, Ahead
  <1>6. /\ Rows(o, m, D, q) /\ Heads(o, a, q) /\ Heads(o, e, q) /\ Ahead(o, b, q)
    <2>1. <<>> \in Seq(Samples(m)) /\ Part(<<>>, c[1])
      BY NoneLeft
    <2>2. QED
      BY <1>1, <1>3, <1>5, <2>1, RowsKept DEF Train
  <1>7. Heads(o, s, q)
    <2>1. PICK f \in [DOMAIN q -> DOMAIN c] : \A k \in DOMAIN q : q[k] = IF f[k] = 1 THEN <<>> ELSE c[f[k]]
      BY <1>3 DEF Keeps
    <2>2. \A k \in DOMAIN q : f[k] = 1 \/ 1 < f[k]
      BY <1>1, <2>1
    <2>3. \A k \in DOMAIN q : f[k] = 1 => Behind(o, s, q[k])
      <3>1. Behind(o, s, <<>>)
        BY EmptyIs
      <3>2. QED
        BY <2>1, <3>1
    <2>4. \A k \in DOMAIN q : 1 < f[k] => Behind(o, s, q[k])
      <3>1. \A j \in DOMAIN c : 1 < j => Behind(o, s, c[j])
        BY <1>1, <1>2, <1>5 DEF Rows
      <3>2. \A k \in DOMAIN q : 1 < f[k] => q[k] = c[f[k]] /\ f[k] \in DOMAIN c
        BY <2>1
      <3>3. QED
        BY <3>1, <3>2
    <2>5. QED
      BY <2>2, <2>3, <2>4 DEF Heads
  <1>8. /\ Gone(E, a) /\ Gone(E, e) /\ (\A i \in DOMAIN b : Gone(E, b[i])) /\ \A i \in DOMAIN q : Gone(E, q[i])
    BY <1>2, <1>5, <1>7, RowGoes
  <1>9. Batch(o, m, D, e \o t) /\ Gone(E, e \o t)
    BY <1>4, <1>5, <1>8, Joined DEF Batch
  <1>10. /\ Batch(o, m, D \cup E, a) /\ Rows(o, m, D \cup E, b) /\ Batch(o, m, D \cup E, e \o t)
         /\ Rows(o, m, D \cup E, q)
    BY <1>5, <1>6, <1>8, <1>9, RowsThrown
  <1>11. Heads(o, a, b) /\ Behind(o, a, e \o t) /\ Trails(o, b, e \o t)
    <2>1. \A x : Behind(o, x, e) /\ Behind(o, x, t) => Behind(o, x, e \o t)
      BY <1>5, Joined
    <2>2. QED
      BY <1>4, <1>5, <2>1 DEF Train, Trails
  <1>12. Heads(o, e \o t, q)
    <2>1. \A x : Behind(o, e, x) /\ Behind(o, t, x) => Behind(o, e \o t, x)
      BY <1>5, Joined
    <2>2. QED
      BY <1>4, <1>6, <1>7, <2>1 DEF Heads
  <1>13. E \subseteq Samples(m)
    BY <1>2 DEF Range
  <1>14. QED
    BY <1>3, <1>5, <1>6, <1>10, <1>11, <1>12, <1>13 DEF Train

LEMMA FirstSubmitted ==
    ASSUME NEW o \in BOOLEAN, NEW m \in Nat, NEW D, NEW a, NEW b, NEW c, Train(o, m, D, a, b, <<>>, c), c # <<>>
    PROVE  Train(o, m, D, a, Append(b, Head(c)), <<>>, Tail(c))
  <1>1. 1 \in DOMAIN c /\ c[1] = Head(c) /\ c \in Seq(Seq(Samples(m)))
    <2>1. c \in Seq(Seq(Samples(m)))
      BY DEF Train, Rows
    <2>2. QED
      BY <2>1, HeadTailIs
  <1>2. PICK s \in Seq(Samples(m)) : s = c[1] /\ s = Head(c) /\ Batch(o, m, D, s)
    BY <1>1 DEF Train, Rows, Batch
  <1>3. PICK q \in Seq(Seq(Samples(m))) : q = Tail(c) /\ Keeps(q, c, 1, <<>>)
    BY <1>1, WhatIsKept
  <1>4. Rows(o, m, D, c) /\ Rows(o, m, D, b) /\ Behind(o, a, s) /\ Trails(o, b, s)
    BY <1>1, <1>2 DEF Train, Heads, Trails, Ahead
  <1>5. Rows(o, m, D, q) /\ Heads(o, a, q) /\ Ahead(o, b, q)
    <2>1. <<>> \in Seq(Samples(m)) /\ Part(<<>>, c[1])
      BY NoneLeft
    <2>2. QED
      BY <1>1, <1>3, <1>4, <2>1, RowsKept DEF Train
  <1>6. Heads(o, s, q)
    <2>1. PICK f \in [DOMAIN q -> DOMAIN c] : \A k \in DOMAIN q : q[k] = IF f[k] = 1 THEN <<>> ELSE c[f[k]]
      BY <1>3 DEF Keeps
    <2>2. \A k \in DOMAIN q : f[k] = 1 \/ 1 < f[k]
      BY <1>1, <2>1
    <2>3. \A k \in DOMAIN q : f[k] = 1 => Behind(o, s, q[k])
      BY <2>1, EmptyIs
    <2>4. ASSUME NEW k \in DOMAIN q, 1 < f[k] PROVE Behind(o, s, q[k])
      <3>1. f[k] \in DOMAIN c /\ ~(f[k] = 1) /\ q[k] = c[f[k]]
        <4>1. f[k] \in DOMAIN c /\ ~(f[k] = 1)
          BY <1>1, <2>1, <2>4
        <4>2. QED
          BY <2>1, <4>1
      <3>2. Behind(o, c[1], c[f[k]])
        BY <1>1, <1>4, <2>4, <3>1 DEF Rows
      <3>3. QED
        BY <1>2, <3>1, <3>2
    <2>5. QED
      BY <2>2, <2>3, <2>4 DEF Heads
  <1>7. Rows(o, m, D, Append(b, s)) /\ Heads(o, a, Append(b, s)) /\ Ahead(o, Append(b, s), q)
    BY <1>2, <1>4, <1>5, <1>6, RowAdded DEF Train
  <1>8. Trails(o, Append(b, s), <<>>) /\ Heads(o, <<>>, q) /\ Behind(o, a, <<>>)
    BY EmptyIs DEF Trails, Heads
  <1>9. QED
    BY <1>2, <1>3, <1>5, <1>7, <1>8 DEF Train

LEMMA FirstGiven ==
    ASSUME NEW o \in BOOLEAN, NEW m \in Nat, NEW D, NEW a, NEW c, Train(o, m, D, a, <<>>, <<>>, c), c # <<>>,
           NEW t \in Seq(Samples(m)), Part(t, Head(c)), NEW E, E \subseteq Range(Head(c)), E \cap Range(t) = {}
    PROVE  Train(o, m, D \cup E, a \o t, <<>>, <<>>, Tail(c))
  <1>1. Train(o, m, D \cup E, a, <<>>, <<>> \o t, Tail(c))
    BY FirstPassed
  <1>2. <<>> \o t = t
    OBVIOUS
  <1>3. Train(o, m, D \cup E, a, <<>>, t, Tail(c))
    BY <1>1, <1>2
  <1>4. PICK F, q : F = D \cup E /\ q = Tail(c)
    OBVIOUS
  <1>5. /\ a \in Seq(Samples(m)) /\ Batch(o, m, F, a) /\ Batch(o, m, F, t) /\ Rows(o, m, F, q) /\ Behind(o, a, t)
        /\ Heads(o, a, q) /\ Heads(o, t, q) /\ F \subseteq Samples(m)
    BY <1>3, <1>4 DEF Train, Batch
  <1>6. Batch(o, m, F, a \o t)
    BY <1>5, Joined DEF Batch
  <1>7. Heads(o, a \o t, q)
    <2>1. \A x : Behind(o, a, x) /\ Behind(o, t, x) => Behind(o, a \o t, x)
      BY <1>5, Joined
    <2>2. QED
      BY <1>5, <2>1 DEF Heads
  <1>8. /\ Rows(o, m, F, <<>>) /\ Batch(o, m, F, <<>>) /\ Trails(o, <<>>, <<>>) /\ Heads(o, <<>>, q)
        /\ Ahead(o, <<>>, q) /\ Heads(o, a \o t, <<>>) /\ Behind(o, a \o t, <<>>)
    <2>1. PICK n : n = <<>> /\ DOMAIN n = {} /\ n \in Seq(Seq(Samples(m))) /\ n \in Seq(Samples(m))
      <3>1. DOMAIN <<>> = {}
        OBVIOUS
      <3>2. <<>> \in Seq(Seq(Samples(m))) /\ <<>> \in Seq(Samples(m))
        OBVIOUS
      <3>3. QED
        BY <3>1, <3>2
    <2>2. Sorted(o, n) /\ Gone(F, n) /\ \A r : Behind(o, n, r) /\ Behind(o, r, n)
      BY <2>1, EmptyIs
    <2>3. Batch(o, m, F, n)
      BY <2>1, <2>2 DEF Batch
    <2>4. Rows(o, m, F, n) /\ Trails(o, n, n) /\ Heads(o, n, q) /\ Ahead(o, n, q) /\ Heads(o, a \o t, n)
      BY <2>1, <2>2 DEF Rows, Trails, Heads, Ahead
    <2>5. QED
      BY <2>1, <2>2, <2>3, <2>4
  <1>9. QED
    BY <1>4, <1>5, <1>6, <1>7, <1>8 DEF Train

(* More is known to have been read.                                         *)
LEMMA TrainGrows ==
    ASSUME NEW o, NEW m \in Nat, NEW k \in Nat, m <= k, NEW D, NEW a, NEW b, NEW e, NEW c,
           Train(o, m, D, a, b, e, c)
    PROVE  Train(o, k, D, a, b, e, c)
  <1>1. Samples(m) \subseteq Samples(k) /\ Seq(Samples(m)) \subseteq Seq(Samples(k))
    BY SamplesGrow
  <1>2. Seq(Seq(Samples(m))) \subseteq Seq(Seq(Samples(k)))
    BY <1>1, SeqMonotonic
  <1>3. QED
    BY <1>1, <1>2 DEF Train, Batch, Rows

(* A batch comes last.                                                      *)
LEMMA RowComes ==
    ASSUME NEW o, NEW m \in Nat, NEW D, NEW a, NEW b, NEW e, NEW c, Train(o, m, D, a, b, e, c),
           NEW s, Batch(o, m, D, s), Behind(o, a, s), Trails(o, b, s), Behind(o, e, s), Trails(o, c, s)
    PROVE  Train(o, m, D, a, b, e, Append(c, s))
  BY RowAdded DEF Train

\* The order does not matter any more.
LEMMA TrainAnyhow ==
    ASSUME NEW m, NEW D, NEW a, NEW b, NEW e, NEW c, Train(TRUE, m, D, a, b, e, c)
    PROVE  Train(FALSE, m, D, a, b, e, c)
  <1>1. /\ \A s : Sorted(TRUE, s) => Sorted(FALSE, s)
        /\ \A s, t : Behind(TRUE, s, t) => Behind(FALSE, s, t)
    BY DEF Sorted, Behind, Earlier
  <1>2. QED
    BY <1>1 DEF Train, Batch, Rows, Heads, Trails, Ahead

(* Batches come last.                                                       *)
LEMMA RowsCome ==
    ASSUME NEW o, NEW m \in Nat, NEW D, NEW a, NEW b, NEW e, NEW c, Train(o, m, D, a, b, e, c),
           NEW n, Rows(o, m, D, n), Heads(o, a, n), Ahead(o, b, n), Heads(o, e, n), Ahead(o, c, n)
    PROVE  Train(o, m, D, a, b, e, c \o n)
  <1>1. c \in Seq(Seq(Samples(m))) /\ n \in Seq(Seq(Samples(m)))
    BY DEF Train, Rows
  <1>2. PICK u : u = c \o n
    OBVIOUS
  <1>3. /\ u \in Seq(Seq(Samples(m))) /\ Len(c) \in Nat /\ Len(n) \in Nat
        /\ DOMAIN c = 1..Len(c) /\ DOMAIN n = 1..Len(n)
        /\ \A k \in 1..Len(c) : u[k] = c[k]
        /\ \A k \in 1..Len(n) : u[Len(c) + k] = n[k]
        /\ \A k \in DOMAIN u : k \in 1..Len(c) \/ \E j \in 1..Len(n) : k = Len(c) + j
    BY <1>1, <1>2, Concatenated
  <1>4. ASSUME NEW k \in DOMAIN u
        PROVE  \/ k \in DOMAIN c /\ u[k] = c[k]
               \/ \E j \in DOMAIN n : k = Len(c) + j /\ u[k] = n[j]
    BY <1>3
  <1>5. Rows(o, m, D, u)
    <2>1. \A k \in DOMAIN u : Batch(o, m, D, u[k])
      BY <1>4 DEF Train, Rows
    <2>2. ASSUME NEW i \in DOMAIN u, NEW j \in DOMAIN u, i < j PROVE Behind(o, u[i], u[j])
      <3>1. CASE i \in DOMAIN c /\ u[i] = c[i] /\ j \in DOMAIN c /\ u[j] = c[j]
        BY <2>2, <3>1 DEF Train, Rows
      <3>2. CASE i \in DOMAIN c /\ u[i] = c[i] /\ \E k \in DOMAIN n : j = Len(c) + k /\ u[j] = n[k]
        BY <3>2 DEF Ahead
      <3>3. CASE j \in DOMAIN c /\ \E k \in DOMAIN n : i = Len(c) + k
        BY <1>3, <2>2, <3>3
      <3>4. CASE /\ \E k \in DOMAIN n : i = Len(c) + k /\ u[i] = n[k]
                 /\ \E k \in DOMAIN n : j = Len(c) + k /\ u[j] = n[k]
        <4>1. PICK k \in DOMAIN n, l \in DOMAIN n : i = Len(c) + k /\ u[i] = n[k] /\ j = Len(c) + l /\ u[j] = n[l]
          BY <3>4
        <4>2. k < l
          BY <1>3, <2>2, <4>1
        <4>3. QED
          BY <4>1, <4>2 DEF Rows
      <3>5. QED
        BY <1>4, <3>1, <3>2, <3>3, <3>4
    <2>3. QED
      BY <1>3, <2>1, <2>2 DEF Rows
  <1>6. Heads(o, a, u) /\ Heads(o, e, u) /\ Ahead(o, b, u)
    BY <1>4 DEF Train, Heads, Ahead
  <1>7. QED
    BY <1>2, <1>5, <1>6 DEF Train

(* The entries of a piece.                                                  *)
IsPiece(u, s, f, t) == u = SubSeq(s, f, t)
LEMMA Piece ==
    ASSUME NEW S, NEW s \in Seq(S), NEW f \in Nat \ {0}, NEW t \in Nat, t <= Len(s), NEW u, IsPiece(u, s, f, t)
    PROVE  /\ u \in Seq(S) /\ Part(u, s)
           /\ \A i \in DOMAIN u : \E x \in DOMAIN s : u[i] = s[x] /\ f <= x /\ x <= t
  <1>1. Len(s) \in Nat /\ DOMAIN s = 1..Len(s)
    OBVIOUS
  <1>2. \A i \in f..t : s[i] \in S
    BY <1>1
  <1>3. /\ u \in Seq(S) /\ Len(u) = IF f <= t THEN t - f + 1 ELSE 0
        /\ \A i \in 1..t - f + 1 : u[i] = s[f + i - 1]
    BY <1>2, SubSeqProperties DEF IsPiece
  <1>4. DOMAIN u = 1..Len(u) /\ 1..Len(u) = 1..t - f + 1
    BY <1>3
  <1>5. \A i \in 1..t - f + 1 : i \in Nat \ {0} /\ f + i - 1 \in 1..Len(s) /\ f <= f + i - 1 /\ f + i - 1 <= t
    BY <1>1
  <1> DEFINE e == [i \in DOMAIN u |-> f + i - 1]
  <1>6. e \in [DOMAIN u -> DOMAIN s]
    BY <1>1, <1>4, <1>5
  <1>7. \A i \in DOMAIN u : e[i] = f + i - 1 /\ i \in Nat \ {0} /\ u[i] = s[e[i]] /\ f <= e[i] /\ e[i] <= t
    BY <1>3, <1>4, <1>5
  <1> HIDE DEF e
  <1>8. \A i, j \in DOMAIN u : i < j => e[i] < e[j]
    BY <1>7
  <1>9. Part(u, s)
    BY <1>6, <1>7, <1>8 DEF Part
  <1>10. QED
    BY <1>3, <1>6, <1>7, <1>9

(* The pieces of a sequence that hold at most ReadLimit each.                *)
LEMMA ChunksAre ==
    ASSUME NEW o \in BOOLEAN, NEW m \in Nat, NEW s \in Seq(Samples(m)), Sorted(o, s)
    PROVE  /\ Chunks(s) \in Seq(Seq(Samples(m)))
           /\ \A i \in DOMAIN Chunks(s) : Part(Chunks(s)[i], s)
           /\ \A i, j \in DOMAIN Chunks(s) : i < j => Behind(o, Chunks(s)[i], Chunks(s)[j])
  <1> DEFINE n == (Len(s) + ReadLimit - 1) \div ReadLimit
             From(k) == ReadLimit * (k - 1) + 1
             Till(k) == IF ReadLimit * k < Len(s) THEN ReadLimit * k ELSE Len(s)
             P(k) == SubSeq(s, From(k), Till(k))
             c == [k \in 1..n |-> P(k)]
  <1>1. Chunks(s) = c
    BY DEF Chunks
  <1>2. ReadLimit \in Nat \ {0} /\ Len(s) \in Nat /\ DOMAIN s = 1..Len(s)
    BY DEF FieldConnectorAssumption
  <1>3. n \in Nat
    <2>1. Len(s) + ReadLimit - 1 \in Nat
      BY <1>2
    <2>2. QED
      BY <1>2, <2>1
  <1>4. ASSUME NEW k \in Nat \ {0} PROVE From(k) \in Nat \ {0} /\ Till(k) \in Nat /\ Till(k) <= Len(s)
    <2>1. k - 1 \in Nat /\ ReadLimit * (k - 1) \in Nat /\ ReadLimit * k \in Nat
      BY <1>2
    <2>2. QED
      BY <1>2, <2>1
  <1>5. ASSUME NEW k \in Nat \ {0}, NEW l \in Nat \ {0}, k < l PROVE Till(k) < From(l)
    <2>1. PICK p \in Nat : l - 1 = k + p
      <3>1. (l - 1) - k \in Nat /\ l - 1 = k + ((l - 1) - k)
        BY <1>5
      <3>2. QED
        BY <3>1
    <2>2. PICK x \in Nat, y \in Nat : x = ReadLimit * k /\ y = ReadLimit * p
      BY <1>2
    <2>3. ReadLimit * (l - 1) = x + y
      BY <1>2, <2>1, <2>2
    <2>4. From(l) = x + y + 1
      BY <2>3
    <2>5. Till(k) = IF x < Len(s) THEN x ELSE Len(s)
      BY <2>2
    <2>6. QED
      BY <1>2, <2>2, <2>4, <2>5
  <1> HIDE DEF n, From, Till
  <1>6. ASSUME NEW k \in 1..n
        PROVE  /\ k \in Nat \ {0} /\ P(k) \in Seq(Samples(m)) /\ Part(P(k), s)
               /\ \A i \in DOMAIN P(k) : \E x \in DOMAIN s : P(k)[i] = s[x] /\ From(k) <= x /\ x <= Till(k)
    <2>1. k \in Nat \ {0}
      BY <1>3
    <2>3. PICK f \in Nat \ {0}, g \in Nat : f = From(k) /\ g = Till(k) /\ g <= Len(s)
      BY <1>4, <2>1
    <2>2. PICK u : u = P(k) /\ u = SubSeq(s, f, g)
      BY <2>3
    <2>4. /\ u \in Seq(Samples(m)) /\ Part(u, s)
          /\ \A i \in DOMAIN u : \E x \in DOMAIN s : u[i] = s[x] /\ f <= x /\ x <= g
      <3>1. IsPiece(u, s, f, g) /\ g <= Len(s)
        BY <2>2, <2>3 DEF IsPiece
      <3>2. QED
        BY <3>1, Piece
    <2>5. QED
      BY <2>1, <2>2, <2>3, <2>4
  <1> HIDE DEF P
  <1>7. DOMAIN c = 1..n /\ \A k \in 1..n : c[k] = P(k)
    OBVIOUS
  <1>8. c \in Seq(Seq(Samples(m)))
    BY <1>3, <1>6, IsASeq
  <1> HIDE DEF c
  <1>9. ASSUME NEW k \in 1..n, NEW l \in 1..n, k < l PROVE Behind(o, P(k), P(l))
    <2>1. SUFFICES ASSUME NEW i \in DOMAIN P(k), NEW j \in DOMAIN P(l) PROVE Earlier(o, P(k)[i], P(l)[j])
      BY DEF Behind
    <2>2. PICK x \in DOMAIN s : P(k)[i] = s[x] /\ x <= Till(k)
      BY <1>6
    <2>3. PICK y \in DOMAIN s : P(l)[j] = s[y] /\ From(l) <= y
      BY <1>6
    <2>4. Till(k) < From(l) /\ Till(k) \in Nat /\ From(l) \in Nat
      BY <1>4, <1>5, <1>6, <1>9
    <2>5. x < y
      BY <1>2, <2>2, <2>3, <2>4
    <2>6. QED
      BY <2>2, <2>3, <2>5 DEF Sorted
  <1>10. QED
    BY <1>1, <1>6, <1>7, <1>8, <1>9

LEMMA PartOfPart ==
    ASSUME NEW r, NEW t, NEW s, Part(r, t), Part(t, s)
    PROVE  Part(r, s)
  <1>1. PICK e \in [DOMAIN r -> DOMAIN t] :
          (\A j, k \in DOMAIN r : j < k => e[j] < e[k]) /\ \A k \in DOMAIN r : r[k] = t[e[k]]
    BY DEF Part
  <1>2. PICK f \in [DOMAIN t -> DOMAIN s] :
          (\A j, k \in DOMAIN t : j < k => f[j] < f[k]) /\ \A k \in DOMAIN t : t[k] = s[f[k]]
    BY DEF Part
  <1> DEFINE g == [k \in DOMAIN r |-> f[e[k]]]
  <1>3. g \in [DOMAIN r -> DOMAIN s] /\ \A k \in DOMAIN r : g[k] = f[e[k]] /\ e[k] \in DOMAIN t
    BY <1>1, <1>2
  <1> HIDE DEF g
  <1>4. \A j, k \in DOMAIN r : j < k => g[j] < g[k]
    BY <1>1, <1>2, <1>3
  <1>5. \A k \in DOMAIN r : r[k] = s[g[k]]
    BY <1>1, <1>2, <1>3
  <1>6. QED
    BY <1>3, <1>4, <1>5 DEF Part

(* OPC-UA *)
UaStep ==
    \/ UaMain \/ (\E i \in 1..MaxSamples + MaxPending : UaTask(i)) \/ UaAside \/ UaConvert \/ UaSave
    \/ (\E d \in Devices : UaField(d)) \/ UaGateway \/ UaHandler

\* Each batch is of readings made before close().
TimelyRows(b) == \A i \in DOMAIN b : Timely(b[i])
UaSubscribes == LinedUp("save", {"uncached"}) /\ queue.save = <<>>
UaPolling ==
    /\ Train(FALSE, made, Dropped, Given, hand.save, <<>>, queue.convert)
    /\ pc.save # "busy" /\ Timely(Given) /\ TimelyRows(hand.save) /\ (~stopped => TimelyRows(queue.convert))
    /\ Excused({"undealt"})
UaOwn(o) ==
    /\ DOMAIN o = {"subs", "recreate", "connected", "nodes", "loaded", "cache"}
    /\ o.nodes \in Seq(Devices) /\ o.subs \in BOOLEAN
UaInv ==
    /\ UaOwn(own)
    /\ own.subs => UaSubscribes
    /\ ~own.subs => UaPolling

LEMMA UaRests ==
    ASSUME World, UaInv, Resting("save"), queue'.save = queue.save, pc'["save"] = "busy" => pc.save = "busy",
           UaOwn(own'), own'.subs = own.subs
    PROVE  World' /\ UaInv' /\ kind' = kind
  <1>1. World' /\ kind' = kind
    BY Rests DEF Resting
  <1>2. ASSUME own.subs PROVE UaSubscribes'
    <2>1. LinedUp("save", {"uncached"}) /\ queue.save = <<>>
      BY <1>2 DEF UaInv, UaSubscribes
    <2>2. LinedUp("save", {"uncached"})'
      BY <2>1, LineRests
    <2>3. QED
      BY <2>1, <2>2 DEF UaSubscribes
  <1>3. ASSUME ~own.subs PROVE UaPolling'
    <2>1. UaPolling
      BY <1>3 DEF UaInv
    <2>2. /\ UNCHANGED <<made, sent, lost>> /\ hand'["save"] = hand["save"] /\ queue'.convert = queue.convert
          /\ stopped => stopped'
      BY DEF Resting
    <2>3. Given' = Given /\ Dropped' = Dropped /\ hand'.save = hand.save /\ (~stopped' => ~stopped)
      BY <2>2 DEF Given, Dropped
    <2>4. QED
      BY <2>1, <2>2, <2>3 DEF UaPolling, Excused
  <1>4. QED
    BY <1>1, <1>2, <1>3 DEF UaInv

LEMMA UaTaken ==
    ASSUME World, UaInv, UaTakes
    PROVE  World' /\ UaInv' /\ kind' = kind
  <1> DEFINE d == queue.convert
  <1>1. /\ own.subs /\ ~stopped /\ pc.save = "idle"
        /\ UNCHANGED <<kind, stopped, made, sent, lost, session, known, own, link, events, rpc>>
    BY DEF UaTakes, At, life, conn, env
  <1>2. LinedUp("save", {"uncached"}) /\ queue.save = <<>> /\ LineInv("save") /\ TimelyInv("save")
    BY <1>1 DEF UaInv, UaSubscribes, LinedUp
  <1>3. PICK n \in 1..Len(d) : /\ pc' = [pc EXCEPT !.save = "busy"]
                               /\ hand' = [hand EXCEPT !.save = SubSeq(d, 1, n)]
                               /\ queue' = [queue EXCEPT !.convert = SubSeq(d, n + 1, Len(d))]
    BY DEF UaTakes, To, Hold
  <1>4. /\ "save" \in Workers /\ made \in Nat /\ d \in Seq(Samples(made))
        /\ Line(TRUE, made, Dropped, Given, hand.save, <<>>, d) /\ hand.save = <<>>
    BY <1>1, <1>2, Typed DEF LineInv
  <1>5. /\ hand'.save = SubSeq(d, 1, n) /\ queue'.convert = SubSeq(d, n + 1, Len(d)) /\ queue'.save = <<>>
        /\ pc'["save"] = "busy" /\ pc' \in [Workers -> PCs] /\ DOMAIN hand' = Workers /\ DOMAIN queue' = Queues
    BY <1>2, <1>3, <1>4 DEF World, Inner, PCs, Queues
  <1>6. Line(TRUE, made, Dropped, Given, hand'.save, <<>>, queue'.convert)
    <2>1. PICK q \in Seq(Samples(made)) : q = d
      BY <1>4
    <2>2. n \in 1..Len(q) /\ Line(TRUE, made, Dropped, Given, <<>>, <<>>, q)
      BY <1>4, <2>1
    <2>3. Line(TRUE, made, Dropped, Given, SubSeq(q, 1, n), <<>>, SubSeq(q, n + 1, Len(q)))
      BY <1>4, <2>2, FirstTakenFar
    <2>4. QED
      BY <1>5, <2>1, <2>3
  <1>7. Given' = Given /\ Dropped' = Dropped
    BY <1>1 DEF Given, Dropped
  <1>8. World' /\ LineInv("save")'
    BY <1>1, <1>5, <1>6, <1>7 DEF World, Inner, Outer, LineInv
  <1>9. TimelyInv("save")'
    <2>1. Timely(d) /\ Timely(Given) /\ Timely(<<>>)
      BY <1>1, <1>2, TimelyParts DEF TimelyInv
    <2>2. \A x \in Range(d) : ~x.late
      BY <2>1, TimelyParts
    <2>3. Range(SubSeq(d, 1, n)) \subseteq Range(d) /\ Range(SubSeq(d, n + 1, Len(d))) \subseteq Range(d)
      BY <1>4, PartlyRange
    <2>4. Timely(SubSeq(d, 1, n)) /\ Timely(SubSeq(d, n + 1, Len(d)))
      BY <2>2, <2>3, TimelyParts
    <2>5. QED
      BY <1>5, <1>7, <2>1, <2>4 DEF TimelyInv
  <1>10. QED
    BY <1>1, <1>2, <1>5, <1>8, <1>9 DEF UaInv, UaSubscribes, LinedUp, OwnNames, Excused

LEMMA UaConverted ==
    ASSUME World, UaInv, UaConverts
    PROVE  World' /\ UaInv' /\ kind' = kind
  <1> DEFINE b == hand.save
  <1>1. /\ pc.save = "busy" /\ pc' = [pc EXCEPT !.save = "idle"] /\ hand' = [hand EXCEPT !.save = <<>>]
        /\ UNCHANGED <<kind, stopped, queue, made, session, own, link, events, rpc>>
    BY DEF UaConverts, At, To, Hold, life, env
  <1>2. own.subs /\ LinedUp("save", {"uncached"}) /\ queue.save = <<>> /\ LineInv("save") /\ TimelyInv("save")
    BY <1>1 DEF UaInv, UaSubscribes, UaPolling, LinedUp
  <1>3. /\ "save" \in Workers /\ made \in Nat /\ b \in Seq(Samples(made)) /\ sent \in Seq(Entry(made))
        /\ lost \subseteq Loss(made) /\ known \subseteq Names
        /\ Line(TRUE, made, Dropped, Given, b, queue.save, queue.convert)
    BY <1>2, Typed
  <1>4. PICK t \in Seq(Samples(made)) :
          /\ Part(t, b) /\ t = Chosen(b, {k \in DOMAIN b : b[k].dev \in own.cache})
    <2>1. PICK I \in SUBSET (DOMAIN b) : I = {k \in DOMAIN b : b[k].dev \in own.cache}
      BY Zenon
    <2>2. PICK t : t = Chosen(b, I)
      BY Zenon
    <2>3. t = Chosen(b, {k \in DOMAIN b : b[k].dev \in own.cache})
      BY <2>1, <2>2, Zenon
    <2>4. t \in Seq(Samples(made)) /\ Part(t, b)
      BY <1>3, <2>2, ChosenIs
    <2>5. QED
      BY <2>3, <2>4
  <1>5. PICK E \in SUBSET Samples(made), F \in SUBSET Samples(made) :
          E = Bad(t) /\ F = Range(b) \ Range(t) /\ \A x \in E : x.bad
    <2>1. Range(b) \ Range(t) \in SUBSET Samples(made)
      BY <1>3 DEF Range
    <2>2. Bad(t) \in SUBSET Samples(made) /\ \A x \in Bad(t) : x.bad
      BY <1>3, GoodOnes
    <2>3. QED
      BY <2>1, <2>2
  <1>6. /\ Deliver(Own(Good(t)))
        /\ lost' = lost \cup {[s |-> x, why |-> "converter"] : x \in E} \cup {[s |-> x, why |-> "uncached"] : x \in F}
    BY <1>4, <1>5 DEF UaConverts
  <1>7. /\ Good(t) \in Seq(Samples(made)) /\ Part(Good(t), t) /\ E \subseteq Range(t) /\ E \cap Range(Good(t)) = {}
        /\ Range(Good(t)) \subseteq Range(t)
    BY <1>3, <1>5, GoodOnes
  <1>8. /\ sent' \in Seq(Entry(made)) /\ Given' = Given \o Good(t) /\ known' \subseteq Names /\ OwnNames'
    BY <1>2, <1>3, <1>6, <1>7, OwnGiven DEF LinedUp
  <1>9. /\ lost' \subseteq Loss(made) /\ Dropped' = Dropped \cup (E \cup F)
        /\ \A l \in lost' : l \in lost \/ (l.why = "converter" /\ l.s.bad) \/ l.why = "uncached"
    <2>1. lost' \subseteq Loss(made)
      BY <1>3, <1>6 DEF Loss, Reasons
    <2>2. \A l \in lost' : \/ l \in lost \/ (l.why = "converter" /\ l.s \in E) \/ (l.why = "uncached" /\ l.s \in F)
      BY <1>6
    <2>3. /\ \A x \in E : \E l \in lost' : l.s = x
          /\ \A x \in F : \E l \in lost' : l.s = x
      <3>1. ASSUME NEW x \in E PROVE \E l \in lost' : l.s = x
        <4>1. [s |-> x, why |-> "converter"] \in lost' /\ [s |-> x, why |-> "converter"].s = x
          BY <1>6
        <4>2. QED
          BY <4>1
      <3>2. ASSUME NEW x \in F PROVE \E l \in lost' : l.s = x
        <4>1. [s |-> x, why |-> "uncached"] \in lost' /\ [s |-> x, why |-> "uncached"].s = x
          BY <1>6
        <4>2. QED
          BY <4>1
      <3>3. QED
        BY <3>1, <3>2
    <2>4. \A x \in Dropped' : x \in Dropped \cup (E \cup F)
      BY <2>2 DEF Dropped
    <2>5. \A x \in Dropped \cup (E \cup F) : x \in Dropped'
      BY <1>6, <2>3 DEF Dropped
    <2>6. QED
      BY <1>5, <2>1, <2>2, <2>4, <2>5
  <1>10. Part(Good(t), b) /\ E \cup F \subseteq Range(b) /\ (E \cup F) \cap Range(Good(t)) = {}
    <2>1. Part(Good(t), b)
      BY <1>4, <1>7, PartOfPart
    <2>2. Range(t) \subseteq Range(b)
      <3>1. \A k \in DOMAIN t : \E l \in DOMAIN b : t[k] = b[l]
        BY <1>4 DEF Part
      <3>2. QED
        BY <3>1 DEF Range
    <2>3. QED
      BY <1>5, <1>7, <2>1, <2>2
  <1>11. Line(TRUE, made, Dropped \cup (E \cup F), Given \o Good(t), <<>>, queue.save, queue.convert)
    BY <1>3, <1>7, <1>10, PartGiven
  <1>12. hand'.save = <<>> /\ pc' \in [Workers -> PCs] /\ DOMAIN hand' = Workers /\ queue'.save = <<>>
    BY <1>1, <1>2, <1>3 DEF World, Inner, PCs
  <1>13. World' /\ LineInv("save")'
    BY <1>1, <1>8, <1>9, <1>11, <1>12 DEF World, Inner, Outer, LineInv
  <1>14. TimelyInv("save")'
    <2>1. Timely(Given) /\ Timely(b) /\ Given \in Seq(Samples(made))
      BY <1>2, <1>3 DEF TimelyInv, Line
    <2>2. \A x \in Range(Good(t)) : ~x.late
      <3>1. Range(t) \subseteq Range(b)
        <4>1. \A k \in DOMAIN t : \E l \in DOMAIN b : t[k] = b[l]
          BY <1>4 DEF Part
        <4>2. QED
          BY <4>1 DEF Range
      <3>2. QED
        BY <1>7, <2>1, <3>1, TimelyParts
    <2>3. Timely(Given')
      BY <1>3, <1>7, <1>8, <2>1, <2>2, TimelyParts
    <2>4. QED
      BY <1>1, <1>2, <1>12, <2>3, TimelyParts DEF TimelyInv
  <1>15. QED
    BY <1>1, <1>2, <1>8, <1>9, <1>12, <1>13, <1>14 DEF UaInv, UaSubscribes, LinedUp, Excused

(* Several readings at once.                                                *)
LEMMA ManyMade ==
    ASSUME World, NEW n \in Nat, Reads(n)
    PROVE  /\ made' = made + n /\ made' \in 0..MaxSamples /\ made' \in Nat /\ made <= made' /\ made \in Nat
           /\ sent \in Seq(Entry(made')) /\ lost \subseteq Loss(made')
           /\ Samples(made) \subseteq Samples(made')
  <1>1. made' = made + n /\ made \in 0..MaxSamples /\ made + n <= MaxSamples
    BY DEF World, Inner, Reads
  <1>2. MaxSamples \in Nat
    BY DEF FieldConnectorAssumption
  <1>3. Samples(made) \subseteq Samples(made')
    BY <1>1, <1>2, SamplesGrow
  <1>4. Entry(made) \subseteq Entry(made') /\ Loss(made) \subseteq Loss(made')
    BY <1>3 DEF Entry, Loss
  <1>5. Seq(Entry(made)) \subseteq Seq(Entry(made'))
    BY <1>4, SeqMonotonic
  <1>6. QED
    BY <1>1, <1>2, <1>3, <1>4, <1>5 DEF World, Inner

ReadOf(v, p, n) == v = [k \in 1..n |-> Reading(p[k], k, FALSE)]
LEMMA ManyRead ==
    ASSUME World, NEW n \in Nat, NEW p \in Seq(Devices), Len(p) = n, NEW v, ReadOf(v, p, n)
    PROVE  /\ v \in Seq(Samples(made + n)) /\ Sorted(FALSE, v) /\ (~stopped => Timely(v))
           /\ \A s \in Seq(Samples(made)) : Behind(FALSE, s, v)
           /\ \A D \in SUBSET Samples(made) : Gone(D, v)
  <1>1. made \in Nat /\ stopped \in BOOLEAN /\ DOMAIN p = 1..n /\ \A k \in 1..n : p[k] \in Devices
    BY DEF World, Inner, Outer
  <1>2. ASSUME NEW k \in 1..n
        PROVE  /\ Reading(p[k], k, FALSE) \in Samples(made + n) /\ Reading(p[k], k, FALSE).n = made + k
               /\ Reading(p[k], k, FALSE).late = stopped
    <2>1. made + k \in 1..made + n /\ p[k] \in Devices /\ FALSE \in BOOLEAN
      BY <1>1
    <2>2. QED
      BY <1>1, <2>1 DEF Reading, Samples
  <1>10. DOMAIN v = 1..n /\ v = [k \in 1..n |-> v[k]] /\ \A k \in 1..n : v[k] = Reading(p[k], k, FALSE)
    BY DEF ReadOf
  <1>3. v \in Seq(Samples(made + n)) /\ DOMAIN v = 1..n
    <2>1. \A k \in 1..n : v[k] \in Samples(made + n)
      BY <1>2, <1>10
    <2>2. QED
      BY <1>10, <2>1, IsASeq
  <1>4. \A k \in 1..n : v[k].n = made + k /\ v[k].late = stopped
    BY <1>2, <1>10
  <1>5. Sorted(FALSE, v) /\ (~stopped => Timely(v))
    <2>1. DOMAIN v = 1..n /\ made \in Nat
      BY <1>1, <1>3
    <2>2. \A j, k \in DOMAIN v : j < k => v[j].n # v[k].n
      BY <1>4, <2>1
    <2>3. Sorted(FALSE, v)
      BY <2>2 DEF Sorted, Earlier
    <2>4. ~stopped => Timely(v)
      BY <1>4, <2>1 DEF Timely
    <2>5. QED
      BY <2>3, <2>4
  <1>6. \A x \in Samples(made), k \in 1..n : x.n # v[k].n
    BY <1>1, <1>4 DEF Samples
  <1>7. \A s \in Seq(Samples(made)) : Behind(FALSE, s, v)
    <2>1. SUFFICES ASSUME NEW s \in Seq(Samples(made)), NEW i \in DOMAIN s, NEW k \in DOMAIN v
                   PROVE  Earlier(FALSE, s[i], v[k])
      BY DEF Behind
    <2>2. s[i] \in Samples(made)
      OBVIOUS
    <2>3. QED
      BY <1>3, <1>6, <2>2 DEF Earlier
  <1>8. \A D \in SUBSET Samples(made) : Gone(D, v)
    BY <1>3, <1>6 DEF Gone
  <1>9. QED
    BY <1>3, <1>5, <1>7, <1>8

LEMMA UaPolled ==
    ASSUME World, UaInv, UaPolls
    PROVE  World' /\ UaInv' /\ kind' = kind
  <1> DEFINE n == Len(Polled)
             c == queue.convert
  <1>1. /\ ~own.subs /\ Reads(n)
        /\ UNCHANGED <<kind, stopped, pc, hand, sent, lost, session, known, own, link, events, rpc>>
    BY DEF UaPolls, life, work, conn, env
  <1>2. UaPolling
    BY <1>1 DEF UaInv
  <1>3. Polled \in Seq(Devices) /\ n \in Nat
    <2>1. Polled \in Seq(Devices)
      <3>1. PICK q \in Seq(Devices) : q = own.nodes
        BY DEF UaInv, UaOwn
      <3>2. PICK I \in SUBSET (DOMAIN q) : I = {k \in DOMAIN q : q[k] \in own.loaded}
        BY Zenon
      <3>3. Chosen(q, I) \in Seq(Devices)
        BY ChosenIs
      <3>4. QED
        BY <3>1, <3>2, <3>3, Zenon DEF Polled
    <2>2. QED
      BY <2>1
  <1>4. PICK v : v = [k \in 1..n |-> Reading(Polled[k], k, FALSE)]
    OBVIOUS
  <1>5. queue' = [queue EXCEPT !.convert = c \o Chunks(v)]
    BY <1>4, Zenon DEF UaPolls
  <1>6. /\ made' = made + n /\ made' \in 0..MaxSamples /\ made' \in Nat /\ made <= made' /\ made \in Nat
        /\ sent \in Seq(Entry(made')) /\ lost \subseteq Loss(made')
    BY <1>1, <1>3, ManyMade
  <1>7. /\ v \in Seq(Samples(made')) /\ Sorted(FALSE, v) /\ (~stopped => Timely(v))
        /\ \A s \in Seq(Samples(made)) : Behind(FALSE, s, v)
        /\ \A D \in SUBSET Samples(made) : Gone(D, v)
    <2>1. PICK p \in Seq(Devices) : p = Polled /\ Len(p) = n /\ ReadOf(v, p, n)
      BY <1>3, <1>4 DEF ReadOf
    <2>2. QED
      BY <1>3, <1>6, <2>1, ManyRead
  <1>8. PICK u \in Seq(Seq(Samples(made'))) :
          /\ u = Chunks(v) /\ \A i \in DOMAIN u : Part(u[i], v)
          /\ \A i, j \in DOMAIN u : i < j => Behind(FALSE, u[i], u[j])
    <2>1. FALSE \in BOOLEAN
      OBVIOUS
    <2>2. QED
      BY <1>6, <1>7, <2>1, ChunksAre
  <1> HIDE DEF n
  <1>9. queue'.convert = c \o u /\ queue'.save = queue.save /\ DOMAIN queue' = Queues
    BY <1>5, <1>8 DEF World, Inner, Queues
  <1>10. Train(FALSE, made, Dropped, Given, hand.save, <<>>, c)
    BY <1>2 DEF UaPolling
  <1>11. Train(FALSE, made', Dropped, Given, hand.save, <<>>, c)
    BY <1>6, <1>10, TrainGrows
  <1>12. ASSUME NEW i \in DOMAIN u
         PROVE  /\ Batch(FALSE, made', Dropped, u[i])
                /\ \A s \in Seq(Samples(made)) : Behind(FALSE, s, u[i])
                /\ ~stopped => Timely(u[i])
    <2>1. PICK t \in Seq(Samples(made')) : t = u[i] /\ Part(t, v)
      BY <1>8
    <2>2. FALSE \in BOOLEAN
      OBVIOUS
    <2>3. /\ Sorted(FALSE, t)
          /\ \A r : Behind(FALSE, r, v) => Behind(FALSE, r, t)
          /\ \A D : Gone(D, v) => Gone(D, t)
      BY <1>6, <1>7, <2>1, <2>2, PartOf
    <2>4. Dropped \in SUBSET Samples(made)
      BY <1>10 DEF Train
    <2>5. Range(t) \subseteq Range(v)
      BY <2>1 DEF Part, Range
    <2>6. ~stopped => Timely(t)
      BY <1>7, <2>5, TimelyParts
    <2>7. QED
      BY <1>7, <2>1, <2>3, <2>4, <2>6 DEF Batch
  <1>13. Rows(FALSE, made', Dropped, u)
    BY <1>8, <1>12 DEF Rows
  <1>14. /\ Heads(FALSE, Given, u) /\ Ahead(FALSE, hand.save, u) /\ Heads(FALSE, <<>>, u) /\ Ahead(FALSE, c, u)
    <2>1. /\ Given \in Seq(Samples(made)) /\ hand.save \in Seq(Seq(Samples(made))) /\ c \in Seq(Seq(Samples(made)))
      BY <1>10 DEF Train, Batch, Rows
    <2>2. /\ \A i \in DOMAIN hand.save : hand.save[i] \in Seq(Samples(made))
          /\ \A i \in DOMAIN c : c[i] \in Seq(Samples(made))
      BY <2>1
    <2>3. QED
      BY <1>12, <2>1, <2>2, EmptyIs DEF Heads, Ahead
  <1>15. Train(FALSE, made', Dropped, Given, hand.save, <<>>, c \o u)
    BY <1>6, <1>11, <1>13, <1>14, RowsCome
  <1>16. Given' = Given /\ Dropped' = Dropped
    BY <1>1 DEF Given, Dropped
  <1>17. ~stopped => TimelyRows(c \o u)
    <2>1. c \in Seq(Seq(Samples(made'))) /\ u \in Seq(Seq(Samples(made')))
      BY <1>11 DEF Train, Rows
    <2>2. PICK w : w = c \o u
      OBVIOUS
    <2>3. \A k \in DOMAIN w : (k \in DOMAIN c /\ w[k] = c[k]) \/ \E j \in DOMAIN u : w[k] = u[j]
      <3>0. PICK z \in Seq(Seq(Samples(made'))) : z = c /\ w = z \o u
        BY <2>1, <2>2
      <3>1. /\ \A k \in 1..Len(z) : w[k] = z[k]
            /\ \A k \in 1..Len(u) : w[Len(z) + k] = u[k]
            /\ \A k \in DOMAIN w : k \in 1..Len(z) \/ \E j \in 1..Len(u) : k = Len(z) + j
        BY <2>1, <3>0, Concatenated
      <3>2. DOMAIN z = 1..Len(z) /\ DOMAIN u = 1..Len(u)
        BY <2>1
      <3>3. \A k \in DOMAIN w : (k \in DOMAIN z /\ w[k] = z[k]) \/ \E j \in DOMAIN u : w[k] = u[j]
        BY <3>1, <3>2
      <3>4. QED
        BY <3>0, <3>3
    <2>4. ~stopped => TimelyRows(w)
      BY <1>2, <1>12, <2>3 DEF UaPolling, TimelyRows
    <2>5. QED
      BY <2>2, <2>4
  <1>18. World'
    BY <1>1, <1>6, <1>9 DEF World, Inner, Outer
  <1>19. UaPolling'
    BY <1>1, <1>2, <1>9, <1>15, <1>16, <1>17 DEF UaPolling, Excused
  <1>20. QED
    BY <1>1, <1>18, <1>19 DEF UaInv

LEMMA UaSubmitted ==
    ASSUME World, UaInv, UaSubmits
    PROVE  World' /\ UaInv' /\ kind' = kind
  <1> DEFINE c == queue.convert
             b == hand.save
  <1>1. /\ ~own.subs /\ ~stopped /\ c # <<>>
        /\ hand' = [hand EXCEPT !.save = Append(b, Head(c))] /\ queue' = [queue EXCEPT !.convert = Tail(c)]
        /\ UNCHANGED <<kind, stopped, pc, made, sent, lost, session, known, own, link, events, rpc>>
    BY DEF UaSubmits, Hold, life, conn, env
  <1>2. /\ UaPolling /\ "save" \in Workers /\ "convert" \in Queues /\ made \in Nat
        /\ Train(FALSE, made, Dropped, Given, b, <<>>, c)
    <2>1. UaPolling
      BY <1>1 DEF UaInv
    <2>2. "save" \in Workers /\ "convert" \in Queues /\ made \in Nat
      BY DEF Workers, Queues, World, Inner
    <2>3. QED
      BY <2>1, <2>2 DEF UaPolling
  <1>3. /\ hand'.save = Append(b, Head(c)) /\ DOMAIN hand' = Workers /\ queue'.convert = Tail(c)
        /\ queue'.save = queue.save /\ DOMAIN queue' = Queues
    BY <1>1, <1>2 DEF World, Inner, Queues
  <1>4. FALSE \in BOOLEAN
    OBVIOUS
  <1>5. Train(FALSE, made, Dropped, Given, Append(b, Head(c)), <<>>, Tail(c))
    BY <1>1, <1>2, <1>4, FirstSubmitted
  <1>6. TimelyRows(Append(b, Head(c))) /\ TimelyRows(Tail(c))
    <2>1. b \in Seq(Seq(Samples(made))) /\ c \in Seq(Seq(Samples(made)))
      BY <1>2 DEF Train, Rows
    <2>2. PICK x \in Seq(Samples(made)) : x = Head(c) /\ x = c[1] /\ 1 \in DOMAIN c
      <3>1. Head(c) = c[1] /\ c[1] \in Seq(Samples(made)) /\ 1 \in DOMAIN c
        BY <1>1, <2>1, HeadTailIs
      <3>2. QED
        BY <3>1
    <2>3. \A k \in DOMAIN Tail(c) : Tail(c)[k] = <<>> \/ \E l \in DOMAIN c : Tail(c)[k] = c[l]
      <3>1. PICK z \in Seq(Seq(Samples(made))) : z = c /\ 1 \in DOMAIN z
        BY <2>1, <2>2
      <3>2. PICK q \in Seq(Seq(Samples(made))) : q = Tail(z) /\ Keeps(q, z, 1, <<>>)
        BY <3>1, WhatIsKept
      <3>3. \A k \in DOMAIN q : q[k] = <<>> \/ \E l \in DOMAIN z : q[k] = z[l]
        BY <3>2 DEF Keeps
      <3>4. q = Tail(c)
        BY <3>1, <3>2
      <3>5. \A k \in DOMAIN q : q[k] = <<>> \/ \E l \in DOMAIN c : q[k] = c[l]
        BY <3>1, <3>3
      <3>6. QED
        BY <3>4, <3>5
    <2>4. PICK p : p = Append(b, x)
      OBVIOUS
    <2>5. \A i \in DOMAIN p : (i \in DOMAIN b /\ p[i] = b[i]) \/ p[i] = x
      BY <2>1, <2>4, AppendIs
    <2>6. TimelyRows(c) /\ TimelyRows(b)
      BY <1>1, <1>2 DEF UaPolling
    <2>7. TimelyRows(p) /\ TimelyRows(Tail(c))
      BY <2>2, <2>3, <2>5, <2>6, TimelyParts DEF TimelyRows
    <2>8. QED
      BY <2>2, <2>3, <2>4, <2>7
  <1>7. Given' = Given /\ Dropped' = Dropped
    BY <1>1 DEF Given, Dropped
  <1>8. World'
    BY <1>1, <1>3 DEF World, Inner, Outer
  <1>9. UaPolling'
    BY <1>1, <1>2, <1>3, <1>5, <1>6, <1>7 DEF UaPolling, Excused
  <1>10. QED
    BY <1>1, <1>8, <1>9 DEF UaInv

(* The first values go to the devices that are polled.                      *)
PartsOf(es) == {e.s : e \in Range(es)}
DealtOf(es, v, p, n) == es = [k \in 1..n |-> [s |-> v[k], as |-> p[k]]]
LEMMA DealtIs ==
    ASSUME NEW m \in Nat, NEW v \in Seq(Samples(m)), NEW p \in Seq(Devices), NEW n \in Nat, n <= Len(v), n <= Len(p),
           NEW es, DealtOf(es, v, p, n)
    PROVE  /\ es \in Seq(Entry(m)) /\ Parts(es) \in Seq(Samples(m)) /\ Part(Parts(es), v)
           /\ Range(Parts(es)) = PartsOf(es)
  <1>1. DOMAIN v = 1..Len(v) /\ Len(v) \in Nat /\ DOMAIN p = 1..Len(p) /\ Len(p) \in Nat
    OBVIOUS
  <1>2. \A k \in 1..n : k \in DOMAIN v /\ k \in DOMAIN p
    BY <1>1
  <1>3. \A k \in 1..n : v[k] \in Samples(m) /\ p[k] \in Names
    BY <1>1, <1>2 DEF Names
  <1>4. DOMAIN es = 1..n /\ es = [k \in 1..n |-> es[k]] /\ \A k \in 1..n : es[k] = [s |-> v[k], as |-> p[k]]
    BY DEF DealtOf
  <1>5. \A x \in Samples(m), d \in Names : [s |-> x, as |-> d] \in Entry(m)
    BY DEF Entry
  <1>6. \A k \in 1..n : es[k] \in Entry(m)
    BY <1>3, <1>4, <1>5
  <1>7. \A k \in 1..n : es[k].s = v[k]
    <2>1. SUFFICES ASSUME NEW k \in 1..n PROVE es[k].s = v[k]
      OBVIOUS
    <2>2. es[k] = [s |-> v[k], as |-> p[k]]
      BY <1>4
    <2>3. QED
      BY <2>2
  <1>8. es \in Seq(Entry(m)) /\ DOMAIN es = 1..n
    <2>1. PICK T : T = Entry(m)
      OBVIOUS
    <2>2. \A k \in 1..n : es[k] \in T
      BY <1>6, <2>1
    <2>3. [k \in 1..n |-> es[k]] \in Seq(T)
      BY <2>2, IsASeq
    <2>4. QED
      BY <1>4, <2>1, <2>3
  <1>9. DOMAIN Parts(es) = 1..n /\ \A k \in 1..n : Parts(es)[k] = v[k]
    BY <1>7, <1>8 DEF Parts
  <1>10. Parts(es) \in Seq(Samples(m))
    BY <1>8, PartsConcatenated
  <1>11. Part(Parts(es), v)
    <2> DEFINE t == Parts(es)
               e == [k \in 1..n |-> k]
    <2>1. e \in [1..n -> DOMAIN v] /\ \A k \in 1..n : e[k] = k
      BY <1>2
    <2> HIDE DEF t, e
    <2>2. DOMAIN t = 1..n /\ \A k \in 1..n : t[k] = v[k]
      BY <1>9 DEF t
    <2>3. \A k \in DOMAIN t : t[k] = v[e[k]]
      BY <2>1, <2>2
    <2>4. e \in [DOMAIN t -> DOMAIN v] /\ \A j, k \in DOMAIN t : j < k => e[j] < e[k]
      BY <2>1, <2>2
    <2>5. Part(t, v)
      BY <2>3, <2>4 DEF Part
    <2>6. QED
      BY <2>5 DEF t
  <1>12. Range(Parts(es)) = PartsOf(es)
    <2>0. PICK t : t = Parts(es) /\ DOMAIN t = 1..n /\ \A k \in 1..n : t[k] = es[k].s
      BY <1>7, <1>9
    <2>1. \A x \in Range(t) : x \in {e.s : e \in Range(es)}
      BY <1>8, <2>0 DEF Range
    <2>2. \A e \in Range(es) : e.s \in Range(t)
      BY <1>8, <2>0 DEF Range
    <2>3. QED
      BY <2>0, <2>1, <2>2 DEF PartsOf
  <1>13. QED
    BY <1>8, <1>10, <1>11, <1>12

LEMMA UaDealt ==
    ASSUME World, UaInv, NEW i \in 1..MaxSamples + MaxPending, i <= Len(hand.save), UaPoolConverts(i)
    PROVE  World' /\ UaInv' /\ kind' = kind
  <1> DEFINE c == queue.convert
             b == hand.save
  <1>1. /\ ~own.subs /\ hand' = [hand EXCEPT !.save = Without(b, i)]
        /\ UNCHANGED <<kind, stopped, pc, queue, made, session, own, link, events, rpc>>
    BY DEF UaPoolConverts, Hold, life, env
  <1>2. /\ UaPolling /\ "save" \in Workers /\ made \in Nat
        /\ Train(FALSE, made, Dropped, Given, b, <<>>, c) /\ b \in Seq(Seq(Samples(made)))
        /\ sent \in Seq(Entry(made)) /\ lost \subseteq Loss(made) /\ known \subseteq Names
    <2>1. UaPolling
      BY <1>1 DEF UaInv
    <2>2. "save" \in Workers /\ made \in Nat /\ sent \in Seq(Entry(made)) /\ lost \subseteq Loss(made) /\ known \subseteq Names
      BY DEF Workers, World, Inner
    <2>3. Train(FALSE, made, Dropped, Given, b, <<>>, c)
      BY <2>1 DEF UaPolling
    <2>4. b \in Seq(Seq(Samples(made)))
      BY <2>3 DEF Train, Rows
    <2>5. QED
      BY <2>1, <2>2, <2>3, <2>4
  <1>3. i \in DOMAIN b
    BY <1>2 DEF FieldConnectorAssumption
  <1>4. PICK v \in Seq(Samples(made)) : v = b[i]
    BY <1>2, <1>3
  <1>5. PICK p \in Seq(Devices) : p = Polled
    <2>1. PICK q \in Seq(Devices) : q = own.nodes
      BY DEF UaInv, UaOwn
    <2>2. PICK I \in SUBSET (DOMAIN q) : I = {k \in DOMAIN q : q[k] \in own.loaded}
      BY Zenon
    <2>3. Chosen(q, I) \in Seq(Devices)
      BY ChosenIs
    <2>4. QED
      BY <2>1, <2>2, <2>3, Zenon DEF Polled
  <1>6. PICK n \in Nat : n = (IF Len(v) < Len(p) THEN Len(v) ELSE Len(p)) /\ n <= Len(v) /\ n <= Len(p)
    OBVIOUS
  <1>7. PICK es : DealtOf(es, v, p, n)
    BY DEF DealtOf
  <1>8. Dealt(b[i]) = es
    <2>1. Dealt(v) = [k \in 1..(IF Len(v) < Len(Polled) THEN Len(v) ELSE Len(Polled)) |-> [s |-> v[k], as |-> Polled[k]]]
      BY DEF Dealt
    <2>2. Dealt(v) = [k \in 1..n |-> [s |-> v[k], as |-> p[k]]]
      BY <1>5, <1>6, <2>1
    <2>3. QED
      BY <1>4, <1>7, <2>2 DEF DealtOf
  <1>9. /\ es \in Seq(Entry(made)) /\ Parts(es) \in Seq(Samples(made)) /\ Part(Parts(es), v)
        /\ Range(Parts(es)) = PartsOf(es)
    <2>1. made \in Nat /\ n <= Len(v) /\ n <= Len(p) /\ DealtOf(es, v, p, n)
      BY <1>2, <1>6, <1>7
    <2>2. PICK m \in Nat : m = made /\ v \in Seq(Samples(m))
      BY <2>1
    <2>3. /\ es \in Seq(Entry(m)) /\ Parts(es) \in Seq(Samples(m)) /\ Part(Parts(es), v)
          /\ Range(Parts(es)) = PartsOf(es)
      BY <2>1, <2>2, DealtIs
    <2>4. QED
      BY <2>2, <2>3
  <1>10. PICK t \in Seq(Samples(made)) : t = Parts(es) /\ Part(t, v)
    BY <1>9
  <1>11. PICK E \in SUBSET Samples(made) : E = Range(v) \ Range(t)
    <2>1. Range(v) \ Range(t) \in SUBSET Samples(made)
      BY DEF Range
    <2>2. QED
      BY <2>1
  <1>12. Deliver(es) /\ Lose(E, "undealt")
    BY <1>4, <1>8, <1>9, <1>10, <1>11 DEF UaPoolConverts, PartsOf
  <1>13. sent' \in Seq(Entry(made)) /\ Given' = Given \o t /\ known' \subseteq Names
    BY <1>2, <1>9, <1>10, <1>12, EntriesGiven
  <1>14. PICK why \in Reasons : why = "undealt"
    BY DEF Reasons
  <1>15. /\ lost' \subseteq Loss(made) /\ Dropped' = Dropped \cup E
         /\ \A l \in lost' : l \in lost \/ (l.why = "undealt" /\ l.s \in E)
    BY <1>2, <1>12, <1>14, MoreLost
  <1>16. PICK q \in Seq(Seq(Samples(made))) : q = Without(b, i) /\ Keeps(q, b, i, <<>>)
    BY <1>2, <1>3, WhatIsKept
  <1>17. Train(FALSE, made, Dropped \cup E, Given \o t, q, <<>>, c)
    <2>1. <<>> \in Seq(Samples(made)) /\ Part(<<>>, b[i]) /\ Behind(FALSE, t, <<>>) /\ Gone(E, <<>>)
      BY NoneLeft, EmptyIs
    <2>2. Sorted(FALSE, v) /\ FALSE \in BOOLEAN
      BY <1>2, <1>3, <1>4 DEF Train, Rows, Batch
    <2>3. Gone(E, t)
      <3>1. E \subseteq Range(v) /\ E \cap Range(t) = {}
        BY <1>11
      <3>2. QED
        BY <1>2, <1>10, <2>2, <3>1, PartOf
    <2>4. Part(t, b[i]) /\ E \subseteq Range(b[i])
      BY <1>4, <1>10, <1>11
    <2>5. QED
      BY <1>2, <1>3, <1>16, <2>1, <2>2, <2>3, <2>4, BatchGiven
  <1>18. hand'.save = q /\ DOMAIN hand' = Workers
    BY <1>1, <1>2, <1>16 DEF World, Inner
  <1>19. Timely(Given') /\ TimelyRows(q)
    <2>1. Timely(Given) /\ TimelyRows(b) /\ Timely(v) /\ Given \in Seq(Samples(made))
      BY <1>2, <1>3, <1>4 DEF UaPolling, TimelyRows, Train, Batch
    <2>2. Timely(t)
      <3>1. Range(t) \subseteq Range(v)
        BY <1>10 DEF Part, Range
      <3>2. QED
        BY <2>1, <3>1, TimelyParts
    <2>3. Timely(Given')
      BY <1>2, <1>13, <2>1, <2>2, TimelyParts
    <2>4. TimelyRows(q)
      <3>1. \A k \in DOMAIN q : q[k] = <<>> \/ \E l \in DOMAIN b : q[k] = b[l]
        BY <1>16 DEF Keeps
      <3>2. QED
        BY <2>1, <3>1, TimelyParts DEF TimelyRows
    <2>5. QED
      BY <2>3, <2>4
  <1>20. World'
    BY <1>1, <1>13, <1>15, <1>18 DEF World, Inner, Outer
  <1>21. UaPolling'
    BY <1>1, <1>2, <1>13, <1>15, <1>17, <1>18, <1>19 DEF UaPolling, Excused
  <1>22. QED
    BY <1>1, <1>20, <1>21 DEF UaInv

LEMMA UaNotifiedOf ==
    ASSUME World, UaInv, NEW d \in Devices, UaNotified(d)
    PROVE  World' /\ UaInv' /\ kind' = kind
  <1>1. /\ own.subs /\ Produce(d, "convert") /\ UNCHANGED <<life, work, env, rpc>> /\ own' = own
        /\ session' \subseteq Devices /\ known' \subseteq Names
    BY DEF UaNotified, conn, World, Outer, Inner
  <1>2. UaSubscribes
    BY <1>1 DEF UaInv
  <1>3. "save" \in {"main", "save"} /\ "convert" \in {"convert", "save"}
    OBVIOUS
  <1>4. /\ World' /\ LinedUp("save", {"uncached"})' /\ kind' = kind
        /\ \A r \in Queues \ {"convert"} : queue'[r] = queue[r]
    BY <1>1, <1>2, <1>3, LineProduced DEF UaSubscribes
  <1>5. queue'["save"] = queue["save"]
    BY <1>4 DEF Queues
  <1>6. QED
    BY <1>1, <1>2, <1>4, <1>5 DEF UaInv, UaSubscribes

\* Only what UaInv does not speak of may have changed.
UaMoves(p, o) == UaOwn(p) /\ p.subs = o.subs

LEMMA UaOwnGoes ==
    ASSUME NEW o, UaOwn(o)
    PROVE  /\ UaMoves(Disconnected(o), o) /\ UaMoves(Forgotten(o), o)
           /\ \A c : UaMoves([o EXCEPT !.connected = c], o) /\ UaMoves([o EXCEPT !.recreate = TRUE, !.connected = c], o)
           /\ UaMoves([o EXCEPT !.recreate = TRUE], o)
           /\ \A n \in Seq(Devices) : UaMoves([o EXCEPT !.nodes = n], o)
           /\ \A S : UaMoves([o EXCEPT !.loaded = S], o)
           /\ \A S, T : UaMoves([o EXCEPT !.loaded = S, !.cache = T], o)
  <1>1. <<>> \in Seq(Devices)
    OBVIOUS
  <1>2. UaMoves(Disconnected(o), o)
    BY DEF UaOwn, UaMoves, Disconnected
  <1>3. UaMoves(Forgotten(o), o)
    BY <1>1 DEF UaOwn, UaMoves, Forgotten
  <1>4. /\ \A c : UaMoves([o EXCEPT !.connected = c], o) /\ UaMoves([o EXCEPT !.recreate = TRUE, !.connected = c], o)
        /\ UaMoves([o EXCEPT !.recreate = TRUE], o)
    BY DEF UaOwn, UaMoves
  <1>5. \A n \in Seq(Devices) : UaMoves([o EXCEPT !.nodes = n], o)
    BY DEF UaOwn, UaMoves
  <1>6. /\ \A S : UaMoves([o EXCEPT !.loaded = S], o)
        /\ \A S, T : UaMoves([o EXCEPT !.loaded = S, !.cache = T], o)
    BY DEF UaOwn, UaMoves
  <1>7. QED
    BY <1>2, <1>3, <1>4, <1>5, <1>6

\* A step of the event loop that leaves the readings alone.
UaLooks ==
    \/ UaConnects \/ UaScans \/ UaEmpties \/ UaLoads \/ UaScanned \/ UaLeaves \/ UaMonitors \/ UaClose

LEMMA UaLooksOnly ==
    ASSUME World, UaInv, UaLooks
    PROVE  /\ UaMoves(own', own)
           /\ UNCHANGED <<kind, queue, made, sent, lost, link, events, rpc>> /\ stopped' \in BOOLEAN
           /\ stopped => stopped'
           /\ hand'["save"] = hand["save"] /\ DOMAIN hand' = Workers
           /\ pc'["save"] = pc["save"] /\ pc' \in [Workers -> PCs]
           /\ session' \subseteq Devices /\ known' \subseteq Names
  <1>1. UaOwn(own)
    BY DEF UaInv
  <1>2. /\ "save" \in Workers /\ "main" \in Workers /\ DOMAIN hand = Workers /\ pc \in [Workers -> PCs]
        /\ stopped \in BOOLEAN
    BY DEF Workers, World, Inner, Outer
  <1>3. /\ \A p \in {"idle", "loop", "scan", "look", "ended"} :
             [pc EXCEPT !.main = p] \in [Workers -> PCs] /\ [pc EXCEPT !.main = p]["save"] = pc["save"]
        /\ \A h : DOMAIN [hand EXCEPT !.main = h] = Workers /\ [hand EXCEPT !.main = h]["save"] = hand["save"]
    BY <1>2 DEF PCs
  <1>4. session \subseteq Devices /\ known \subseteq Names /\ Devices \subseteq Devices /\ {} \subseteq Devices
        /\ \A S : known \ S \subseteq Names
    BY DEF World, Inner, Outer
  <1>5. CASE UaConnects
    <2>1. /\ \E o \in {own, Forgotten(own)} : own' = [o EXCEPT !.connected = TRUE] \/ own' = Disconnected(o)
          /\ known' = known \/ known' = known \ Range(own.nodes)
          /\ session' = Devices \/ session' = {}
          /\ pc' = pc \/ pc' = [pc EXCEPT !.main = "loop"]
          /\ UNCHANGED <<kind, stopped, hand, queue, made, sent, lost, link, events, rpc>>
      BY <1>5 DEF UaConnects, Connection, To, life, data, env
    <2>2. PICK o \in {own, Forgotten(own)} : own' = [o EXCEPT !.connected = TRUE] \/ own' = Disconnected(o)
      BY <2>1
    <2>5. UaMoves(o, own)
      <3>1. UaMoves(own, own)
        BY <1>1 DEF UaMoves
      <3>2. UaMoves(Forgotten(own), own)
        BY <1>1, UaOwnGoes
      <3>3. o = own \/ o = Forgotten(own)
        OBVIOUS
      <3>4. QED
        BY <3>1, <3>2, <3>3
    <2>6. UaMoves(own', o)
      <3>1. UaMoves([o EXCEPT !.connected = TRUE], o) /\ UaMoves(Disconnected(o), o)
        BY <2>5, UaOwnGoes DEF UaMoves
      <3>2. QED
        BY <2>2, <3>1
    <2>3. UaMoves(own', own)
      BY <2>5, <2>6 DEF UaMoves
    <2>4. QED
      BY <1>2, <1>3, <1>4, <2>1, <2>3
  <1>6. CASE UaScans
    <2>1. Created \in Seq(Devices)
      BY <1>1 DEF Created, FieldConnectorAssumption, Devices, UaOwn
    <2>2. /\ own' = [own EXCEPT !.nodes = Created] /\ pc' = [pc EXCEPT !.main = "scan"]
          /\ hand' = [hand EXCEPT !.main = Order]
          /\ UNCHANGED <<kind, stopped, queue, made, sent, lost, session, known, link, events, rpc>>
      BY <1>6 DEF UaScans, To, Hold, life, data, env
    <2>3. UaMoves(own', own)
      BY <1>1, <2>1, <2>2, UaOwnGoes
    <2>4. QED
      BY <1>2, <1>3, <1>4, <2>2, <2>3
  <1>7. CASE UaEmpties
    <2>1. /\ own' = [own EXCEPT !.loaded = @ \ {Head(hand.main)}] /\ pc' = [pc EXCEPT !.main = "look"]
          /\ UNCHANGED <<kind, stopped, hand, queue, made, sent, lost, session, known, link, events, rpc>>
      BY <1>7 DEF UaEmpties, To, life, data, env
    <2>3. UaMoves(own', own)
      BY <1>1, <2>1, UaOwnGoes
    <2>4. QED
      BY <1>2, <1>3, <1>4, <2>1, <2>3
  <1>8. CASE UaLoads
    <2>1. /\ UNCHANGED <<kind, stopped, queue, made, sent, lost, session, known, link, events, rpc>>
          /\ pc' = [pc EXCEPT !.main = "scan"] \/ pc' = [pc EXCEPT !.main = "idle"]
          /\ \E h : hand' = [hand EXCEPT !.main = h]
          /\ \/ own' = [own EXCEPT !.loaded = @ \cup {Head(hand.main)}, !.cache = Subscribed(Head(hand.main))]
             \/ own' = [Disconnected(own) EXCEPT !.recreate = TRUE]
      BY <1>8 DEF UaLoads, To, Hold, life, data, env
    <2>2. UaMoves(own', own)
      <3>1. CASE own' = [own EXCEPT !.loaded = @ \cup {Head(hand.main)}, !.cache = Subscribed(Head(hand.main))]
        BY <1>1, <3>1, UaOwnGoes
      <3>2. CASE own' = [Disconnected(own) EXCEPT !.recreate = TRUE]
        <4>1. UaMoves(Disconnected(own), own)
          BY <1>1, UaOwnGoes
        <4>2. UaMoves([Disconnected(own) EXCEPT !.recreate = TRUE], Disconnected(own))
          BY <4>1, UaOwnGoes DEF UaMoves
        <4>3. QED
          BY <3>2, <4>1, <4>2 DEF UaMoves
      <3>3. QED
        BY <2>1, <3>1, <3>2
    <2>3. QED
      BY <1>2, <1>3, <1>4, <2>1, <2>2
  <1>9. CASE UaScanned
    <2>1. /\ UNCHANGED <<kind, stopped, queue, made, sent, lost, session, known, own, link, events, rpc>>
          /\ pc' = [pc EXCEPT !.main = "loop"] /\ hand' = [hand EXCEPT !.main = <<>>]
      BY <1>9 DEF UaScanned, To, Hold, life, data, conn, env
    <2>2. UaMoves(own', own)
      BY <1>1, <2>1 DEF UaMoves
    <2>3. QED
      BY <1>2, <1>3, <1>4, <2>1, <2>2
  <1>10. CASE UaLeaves
    <2>1. /\ UNCHANGED <<kind, stopped, hand, queue, made, sent, lost, known, link, events, rpc>>
          /\ pc' = [pc EXCEPT !.main = "idle"] /\ session' = {} /\ own' = Disconnected(own)
      BY <1>10 DEF UaLeaves, To, life, data, env
    <2>2. UaMoves(own', own)
      BY <1>1, <2>1, UaOwnGoes
    <2>3. QED
      BY <1>2, <1>3, <1>4, <2>1, <2>2
  <1>11. CASE UaMonitors
    <2>1. /\ UNCHANGED <<kind, stopped, pc, hand, queue, made, sent, lost, known, link, events, rpc>>
          /\ session' = {}
      BY <1>11 DEF UaMonitors, life, work, data, env
    <2>2. PICK c \in BOOLEAN : own' = [own EXCEPT !.recreate = TRUE, !.connected = @ /\ c]
      BY <1>11 DEF UaMonitors
    <2>3. UaMoves(own', own)
      BY <1>1, <2>2, UaOwnGoes
    <2>4. QED
      BY <1>2, <1>4, <2>1, <2>3
  <1>12. CASE UaClose
    <2>1. /\ UNCHANGED <<kind, pc, hand, queue, made, sent, lost, link, events, rpc>>
          /\ session' = {} /\ known' = known \ Range(own.nodes) /\ stopped' = TRUE
          /\ own' = [own EXCEPT !.connected = FALSE]
      BY <1>12 DEF UaClose, work, data, env
    <2>2. UaMoves(own', own)
      BY <1>1, <2>1, UaOwnGoes
    <2>3. QED
      BY <1>2, <1>4, <2>1, <2>2
  <1>13. QED
    BY <1>5, <1>6, <1>7, <1>8, <1>9, <1>10, <1>11, <1>12 DEF UaLooks

LEMMA UaAnswered ==
    ASSUME NEW d
    PROVE  \A o \in UaRpc(d) : Replied(o)
  BY Returned DEF UaRpc

LEMMA UaKeeps ==
    ASSUME World, UaInv, UaStep
    PROVE  World' /\ UaInv' /\ kind' = kind
  <1> DEFINE w == "save"
  <1>1. w \in {"main", "save"} /\ w \in Workers /\ "main" \in Workers /\ "convert" \in Workers
    BY DEF Workers
  <1>2. CASE UaLooks
    <2>1. /\ UaMoves(own', own)
          /\ UNCHANGED <<kind, queue, made, sent, lost, link, events, rpc>> /\ stopped' \in BOOLEAN
          /\ stopped => stopped'
          /\ hand'["save"] = hand["save"] /\ DOMAIN hand' = Workers
          /\ pc'["save"] = pc["save"] /\ pc' \in [Workers -> PCs]
          /\ session' \subseteq Devices /\ known' \subseteq Names
      BY <1>2, UaLooksOnly
    <2>2. Resting("save")
      BY <2>1 DEF Resting, World, Inner, Outer
    <2>3. QED
      BY <2>1, <2>2, UaRests DEF UaMoves
  <1>3. ASSUME NEW v \in Workers, NEW at, "busy" \notin at, Ends(v, at) PROVE World' /\ UaInv' /\ kind' = kind
    <2>1. Resting(w) /\ UNCHANGED <<queue, own>>
      BY <1>1, <1>3, EndsRests
    <2>2. pc'[w] = "busy" => pc[w] = "busy"
      BY <1>1, <1>3 DEF Ends, To, World, Inner
    <2>3. UaMoves(own', own) /\ queue'.save = queue.save
      BY <2>1 DEF UaInv, UaMoves
    <2>4. QED
      BY <2>1, <2>2, <2>3, UaRests DEF UaMoves
  <1>4. CASE UaPolls
    BY <1>4, UaPolled
  <1>5. CASE \E i \in 1..MaxSamples + MaxPending : UaTask(i)
    BY <1>5, UaDealt DEF UaTask
  <1>6. CASE UaSubmits
    BY <1>6, UaSubmitted
  <1>7. CASE UaTakes
    BY <1>7, UaTaken
  <1>8. CASE UaConverts
    BY <1>8, UaConverted
  <1>9. CASE \E d \in Devices : UaField(d)
    BY <1>9, UaNotifiedOf DEF UaField
  <1>10. CASE RpcReturns(UaRpc(rpc.st)) \/ UpdateReturns(UaUpdate(rpc.st))
    <2>1. \A o \in UaRpc(rpc.st) : Replied(o)
      BY UaAnswered
    <2>2. Resting(w) /\ UNCHANGED <<queue, own, pc>>
      BY <1>1, <1>10, <2>1, HandlerRests
    <2>3. UaMoves(own', own) /\ queue'.save = queue.save
      BY <2>2 DEF UaInv, UaMoves
    <2>4. QED
      BY <2>2, <2>3, UaRests DEF UaMoves
  <1>11. CASE UaMain
    <2>1. CASE Ends("main", {"idle", "scan", "look", "loop"})
      BY <1>1, <1>3, <2>1
    <2>2. QED
      BY <1>2, <1>4, <1>11, <2>1 DEF UaMain, UaLooks
  <1>12. CASE UaConvert
    <2>1. CASE Ends("convert", {"idle"})
      BY <1>1, <1>3, <2>1
    <2>2. QED
      BY <1>6, <1>12, <2>1 DEF UaConvert
  <1>13. CASE UaSave
    <2>1. CASE Ends("save", {"idle"})
      BY <1>1, <1>3, <2>1
    <2>2. QED
      BY <1>7, <1>8, <1>13, <2>1 DEF UaSave
  <1>14. QED
    BY <1>2, <1>5, <1>9, <1>10, <1>11, <1>12, <1>13
       DEF UaStep, UaAside, UaGateway, UaHandler, UaLooks

(* MQTT: what was received before close() waits for the mapping, then for a *)
(* worker of the pool, in batches of one message each.                      *)
MqttStep ==
    \/ MqttMain \/ (\E i \in 1..MaxSamples + MaxPending : MqttTask(i)) \/ MqttAside \/ MqttConvert \/ MqttSave
    \/ (\E d \in Devices : MqttField(d)) \/ MqttGateway \/ MqttHandler
Mail(m) == [dev : Devices, what : {"data", "connect", "disconnect"}, x : Seq(Samples(m))]
Texts(p) == [k \in DOMAIN p |-> p[k].x]
Filled(b) == \A i \in DOMAIN b : b[i] # <<>>
\* A pool that never had two workers has one batch at a time.
MqttPool(o, b) ==
    /\ DOMAIN o = {"connected", "mapped", "filling", "workers", "grown", "capacity"}
    /\ o.grown \in BOOLEAN /\ o.workers \in Nat /\ (~o.grown => o.workers <= 1 /\ Len(b) <= 1)
MqttReasons == {"unmapped", "full", "batch"}
MqttInv ==
    /\ MqttPool(own, hand.save) /\ queue.poll \in Seq(Mail(made))
    /\ Train(~own.grown, made, Dropped, Given, hand.save, queue.convert, Texts(queue.poll))
    /\ Filled(hand.save) /\ TimelyRows(hand.save) /\ TimelyRows(Texts(queue.poll))
    /\ Timely(queue.convert) /\ Timely(Given) /\ OwnNames /\ Excused(MqttReasons) /\ BatchBad

LEMMA MailIs ==
    ASSUME NEW m, NEW p \in Seq(Mail(m))
    PROVE  /\ Texts(p) \in Seq(Seq(Samples(m)))
           /\ p # <<>> => /\ Texts(p) # <<>> /\ Texts(Tail(p)) = Tail(Texts(p)) /\ Head(Texts(p)) = Head(p).x
                          /\ Tail(p) \in Seq(Mail(m)) /\ Head(p) \in Mail(m)
           /\ \A z \in Mail(m) : Texts(Append(p, z)) = Append(Texts(p), z.x) /\ Append(p, z) \in Seq(Mail(m))
  <1>0. PICK T : T = Mail(m)
    OBVIOUS
  <1>1. DOMAIN p = 1..Len(p) /\ Len(p) \in Nat /\ p \in Seq(T) /\ \A z \in T : z.x \in Seq(Samples(m))
    BY <1>0 DEF Mail
  <1>2. PICK S : S = Seq(Samples(m))
    OBVIOUS
  <1>3. PICK t : t = Texts(p) /\ t = [k \in 1..Len(p) |-> p[k].x]
    BY <1>1 DEF Texts
  <1>4. t \in Seq(S) /\ DOMAIN t = 1..Len(p) /\ Len(t) = Len(p) /\ \A k \in 1..Len(p) : t[k] = p[k].x
    <2>1. \A k \in 1..Len(p) : p[k] \in T
      BY <1>1
    <2>2. \A k \in 1..Len(p) : p[k].x \in S
      BY <1>1, <1>2, <2>1
    <2>3. t \in Seq(S) /\ DOMAIN t = 1..Len(p) /\ \A k \in 1..Len(p) : t[k] = p[k].x
      BY <1>1, <1>3, <2>2, IsASeq
    <2>4. QED
      BY <1>1, <2>3
  <1>5. ASSUME p # <<>>
        PROVE  /\ t # <<>> /\ Texts(Tail(p)) = Tail(t) /\ Head(t) = Head(p).x
               /\ Tail(p) \in Seq(T) /\ Head(p) \in T
    <2>1. Len(p) # 0 /\ t # <<>> /\ Head(p) = p[1] /\ Head(t) = t[1] /\ 1 \in 1..Len(p) /\ Tail(p) \in Seq(T)
      BY <1>1, <1>4, <1>5
    <2>2. PICK q \in Seq(T) : q = Tail(p) /\ DOMAIN q = 1..Len(p) - 1 /\ \A k \in 1..Len(p) - 1 : q[k] = p[k + 1]
      <3>1. /\ Tail(p) \in Seq(T) /\ DOMAIN Tail(p) = 1..Len(p) - 1
            /\ \A k \in 1..Len(p) - 1 : Tail(p)[k] = p[k + 1]
        BY <1>1, <1>5, TailIs
      <3>2. QED
        BY <3>1
    <2>3. PICK u \in Seq(S) : u = Tail(t) /\ DOMAIN u = 1..Len(p) - 1 /\ \A k \in 1..Len(p) - 1 : u[k] = t[k + 1]
      <3>1. /\ Tail(t) \in Seq(S) /\ DOMAIN Tail(t) = 1..Len(t) - 1
            /\ \A k \in 1..Len(t) - 1 : Tail(t)[k] = t[k + 1]
        BY <1>4, <2>1, TailIs
      <3>2. QED
        BY <1>4, <3>1
    <2>4. \A k \in 1..Len(p) - 1 : k + 1 \in 1..Len(p)
      BY <1>1
    <2>5. \A k \in 1..Len(p) - 1 : u[k] = q[k].x
      BY <1>4, <2>2, <2>3, <2>4
    <2>6. Texts(q) = [k \in 1..Len(p) - 1 |-> u[k]]
      BY <2>2, <2>5 DEF Texts
    <2>7. u = [k \in 1..Len(p) - 1 |-> u[k]]
      <3>1. u = [k \in DOMAIN u |-> u[k]]
        OBVIOUS
      <3>2. QED
        BY <2>3, <3>1
    <2>8. Head(t) = Head(p).x /\ Texts(Tail(p)) = Tail(t)
      BY <1>4, <2>1, <2>2, <2>3, <2>6, <2>7
    <2>9. Head(p) \in T
      BY <1>1, <2>1
    <2>10. QED
      BY <2>1, <2>8, <2>9
  <1>6. ASSUME NEW z \in T
        PROVE  Texts(Append(p, z)) = Append(t, z.x) /\ Append(p, z) \in Seq(T)
    <2>1. z.x \in S
      BY <1>1, <1>2
    <2>2. PICK q \in Seq(T) :
            /\ q = Append(p, z) /\ DOMAIN q = 1..Len(p) + 1 /\ q[Len(p) + 1] = z
            /\ \A k \in 1..Len(p) : q[k] = p[k]
      <3>1. /\ Append(p, z) \in Seq(T) /\ DOMAIN Append(p, z) = 1..Len(p) + 1
            /\ Append(p, z)[Len(p) + 1] = z /\ \A k \in DOMAIN p : Append(p, z)[k] = p[k]
        BY <1>1, AppendIs
      <3>2. QED
        BY <1>1, <3>1
    <2>3. PICK u \in Seq(S) :
            /\ u = Append(t, z.x) /\ DOMAIN u = 1..Len(p) + 1 /\ u[Len(p) + 1] = z.x
            /\ \A k \in 1..Len(p) : u[k] = t[k]
      <3>1. PICK y \in S : y = z.x
        BY <2>1
      <3>2. /\ Append(t, y) \in Seq(S) /\ DOMAIN Append(t, y) = 1..Len(t) + 1
            /\ Append(t, y)[Len(t) + 1] = y /\ \A k \in DOMAIN t : Append(t, y)[k] = t[k]
        BY <1>4, AppendIs
      <3>3. QED
        BY <1>4, <3>1, <3>2
    <2>4. \A k \in 1..Len(p) + 1 : k \in 1..Len(p) \/ k = Len(p) + 1
      BY <1>1
    <2>5. \A k \in 1..Len(p) + 1 : u[k] = q[k].x
      BY <1>4, <2>2, <2>3, <2>4
    <2>6. Texts(q) = [k \in 1..Len(p) + 1 |-> u[k]]
      BY <2>2, <2>5 DEF Texts
    <2>7. u = [k \in 1..Len(p) + 1 |-> u[k]]
      <3>1. u = [k \in DOMAIN u |-> u[k]]
        OBVIOUS
      <3>2. QED
        BY <2>3, <3>1
    <2>8. QED
      BY <2>2, <2>3, <2>6, <2>7
  <1>7. QED
    BY <1>0, <1>2, <1>3, <1>4, <1>5, <1>6

LEMMA MqttRests ==
    ASSUME World, MqttInv, Resting("save"), queue'.poll = queue.poll, MqttPool(own', hand.save),
           own.grown => own'.grown
    PROVE  World' /\ MqttInv' /\ kind' = kind
  <1>1. World' /\ kind' = kind
    BY Rests DEF Resting
  <1>2. /\ UNCHANGED <<made, sent, lost>> /\ hand'["save"] = hand["save"] /\ queue'.convert = queue.convert
        /\ Given' = Given /\ Dropped' = Dropped
    BY DEF Resting, Given, Dropped
  <1>3. Train(~own'.grown, made, Dropped, Given, hand.save, queue.convert, Texts(queue.poll))
    <2>1. CASE own'.grown = own.grown
      BY <2>1 DEF MqttInv
    <2>2. CASE own'.grown /\ ~own.grown
      <3>1. ~own.grown = TRUE /\ ~own'.grown = FALSE
        BY <2>2
      <3>2. Train(TRUE, made, Dropped, Given, hand.save, queue.convert, Texts(queue.poll))
        BY <3>1 DEF MqttInv
      <3>3. QED
        BY <3>1, <3>2, TrainAnyhow
    <2>3. QED
      BY <2>1, <2>2 DEF MqttPool, MqttInv
  <1>4. QED
    BY <1>1, <1>2, <1>3 DEF MqttInv, OwnNames, Excused, BatchBad

(* A message is received.                                                   *)
LEMMA MqttReceived ==
    ASSUME World, MqttInv, NEW d \in Devices, MqttData(d) \/ MqttRequest(d)
    PROVE  World' /\ MqttInv' /\ kind' = kind
  <1>1. /\ UNCHANGED <<kind, stopped, pc, hand, sent, lost, session, known, own, link, rpc>>
        /\ events' \in 0..MaxEvents
    BY DEF MqttData, MqttRequest, life, work, conn, env, Happens, World, Outer, FieldConnectorAssumption
  <1>2. PICK p \in Seq(Mail(made)) : p = queue.poll
    BY DEF MqttInv
  <1>3. /\ made \in Nat /\ (~own.grown) \in BOOLEAN /\ DOMAIN queue = Queues
        /\ Train(~own.grown, made, Dropped, Given, hand.save, queue.convert, Texts(p))
    <2>1. made \in Nat /\ DOMAIN queue = Queues
      BY DEF World, Inner
    <2>2. Train(~own.grown, made, Dropped, Given, hand.save, queue.convert, Texts(p))
      BY <1>2 DEF MqttInv
    <2>3. (~own.grown) \in BOOLEAN
      OBVIOUS
    <2>4. QED
      BY <2>1, <2>2, <2>3
  <1> DEFINE Newest(s) == /\ Batch(~own.grown, made', Dropped, s) /\ Timely(s)
                          /\ \A r \in Seq(Samples(made)) : Behind(~own.grown, r, s)
  <1>4. /\ made' \in 0..MaxSamples /\ made <= made' /\ made' \in Nat
        /\ sent \in Seq(Entry(made')) /\ lost \subseteq Loss(made')
        /\ \E z \in Mail(made') : queue' = [queue EXCEPT !.poll = Append(p, z)] /\ Newest(z.x)
    <2>1. CASE MqttData(d)
      <3>1. PICK bad \in BOOLEAN : queue' = [queue EXCEPT !.poll = Append(p, Message(d, "data", <<Reading(d, 1, bad)>>))]
        BY <1>2, <2>1 DEF MqttData, Put
      <3>2. /\ made' = made + 1 /\ made' \in 0..MaxSamples /\ sent \in Seq(Entry(made')) /\ lost \subseteq Loss(made')
        BY <2>1, MadeGrows DEF MqttData
      <3>3. PICK x \in Samples(made + 1) : x = Reading(d, 1, bad) /\ x.n = made + 1 /\ x.late = stopped
        BY ReadingIs
      <3>4. /\ <<x>> \in Seq(Samples(made + 1)) /\ Sorted(~own.grown, <<x>>)
            /\ \A s \in Seq(Samples(made)) : Behind(~own.grown, s, <<x>>)
            /\ \A D \in SUBSET Samples(made) : Gone(D, <<x>>)
        BY <1>3, <3>3, NewIs
      <3>5. Gone(Dropped, <<x>>)
        BY <1>3, <3>4 DEF Train
      <3>6. Timely(<<x>>)
        <4>1. ~x.late
          BY <2>1, <3>3 DEF MqttData
        <4>2. DOMAIN <<x>> = {1} /\ <<x>>[1] = x
          OBVIOUS
        <4>3. QED
          BY <4>1, <4>2 DEF Timely
      <3>7. PICK s \in Seq(Samples(made')) :
              s = <<x>> /\ Newest(s)
        BY <3>2, <3>4, <3>5, <3>6 DEF Batch
      <3>8. PICK z : z = Message(d, "data", s)
        OBVIOUS
      <3>10. z \in Mail(made') /\ z.x = s
        BY <3>8 DEF Mail, Message
      <3>9. queue' = [queue EXCEPT !.poll = Append(p, z)] /\ Newest(z.x)
        <4> HIDE DEF Newest
        <4>1. QED
          BY <3>1, <3>3, <3>7, <3>8, <3>10
      <3>11. \E y \in Mail(made') : queue' = [queue EXCEPT !.poll = Append(p, y)] /\ Newest(y.x)
        <4> HIDE DEF Newest
        <4>1. QED
          BY <3>9, <3>10
      <3>12. made <= made' /\ made' \in Nat
        BY <1>3, <3>2
      <3>13. QED
        <4> HIDE DEF Newest
        <4>1. QED
          BY <3>2, <3>11, <3>12
    <2>2. CASE MqttRequest(d)
      <3>1. PICK what \in {"connect", "disconnect"} : queue' = [queue EXCEPT !.poll = Append(p, Message(d, what, <<>>))]
        BY <1>2, <2>2 DEF MqttRequest, Put
      <3>2. made' = made /\ sent \in Seq(Entry(made')) /\ lost \subseteq Loss(made')
        BY <2>2 DEF MqttRequest, World, Inner
      <3>3. PICK s \in Seq(Samples(made)) :
              s = <<>> /\ Newest(s)
        <4>1. <<>> \in Seq(Samples(made)) /\ Timely(<<>>)
          BY TimelyParts
        <4>2. Batch(~own.grown, made', Dropped, <<>>)
          BY <3>2, <4>1, EmptyIs DEF Batch
        <4>3. QED
          BY <4>1, <4>2, EmptyIs
      <3>4. PICK z : z = Message(d, what, s)
        OBVIOUS
      <3>6. z \in Mail(made') /\ z.x = s
        BY <3>2, <3>4 DEF Mail, Message
      <3>5. queue' = [queue EXCEPT !.poll = Append(p, z)] /\ Newest(z.x)
        <4> HIDE DEF Newest
        <4>1. QED
          BY <3>1, <3>3, <3>4, <3>6
      <3>7. made' \in 0..MaxSamples /\ made <= made'
        BY <1>3, <3>2 DEF World, Inner
      <3>8. QED
        <4> HIDE DEF Newest
        <4>1. QED
          BY <1>3, <3>2, <3>5, <3>6, <3>7
    <2>3. QED
      BY <2>1, <2>2
  <1>5. PICK z \in Mail(made') :
          /\ queue' = [queue EXCEPT !.poll = Append(p, z)]
          /\ Batch(~own.grown, made', Dropped, z.x) /\ Timely(z.x)
          /\ \A s \in Seq(Samples(made)) : Behind(~own.grown, s, z.x)
    BY <1>4
  <1>6. /\ queue'.poll = Append(p, z) /\ queue'.convert = queue.convert /\ queue'.save = queue.save /\ DOMAIN queue' = Queues
    <2>1. "poll" \in Queues /\ "convert" \in Queues /\ "save" \in Queues
      BY DEF Queues
    <2>2. QED
      BY <1>3, <1>5, <2>1
  <1>7. PICK k \in Nat : k = made' /\ made <= k
    BY <1>4
  <1>8. Samples(made) \subseteq Samples(k) /\ Seq(Samples(made)) \subseteq Seq(Samples(k))
    BY <1>3, <1>7, SamplesGrow
  <1>9. p \in Seq(Mail(k))
    <2>1. Mail(made) \subseteq Mail(k)
      <3>1. ASSUME NEW y \in Mail(made) PROVE y \in Mail(k)
        BY <1>8, <3>1 DEF Mail
      <3>2. QED
        BY <3>1
    <2>2. QED
      BY <2>1, SeqMonotonic
  <1>10. Texts(queue'.poll) = Append(Texts(p), z.x) /\ queue'.poll \in Seq(Mail(k)) /\ Texts(p) \in Seq(Seq(Samples(made)))
    <2>1. z \in Mail(k)
      BY <1>5, <1>7
    <2>2. Texts(Append(p, z)) = Append(Texts(p), z.x) /\ Append(p, z) \in Seq(Mail(k))
      BY <1>9, <2>1, MailIs
    <2>3. Texts(p) \in Seq(Seq(Samples(made)))
      BY <1>2, MailIs
    <2>4. QED
      BY <1>6, <2>2, <2>3
  <1>11. Train(~own.grown, k, Dropped, Given, hand.save, queue.convert, Append(Texts(p), z.x))
    <2>1. Train(~own.grown, k, Dropped, Given, hand.save, queue.convert, Texts(p))
      BY <1>3, <1>7, TrainGrows
    <2>2. /\ Given \in Seq(Samples(made)) /\ queue.convert \in Seq(Samples(made))
          /\ hand.save \in Seq(Seq(Samples(made)))
      BY <1>3 DEF Train, Batch, Rows
    <2>3. \A b \in Seq(Seq(Samples(made))) : Trails(~own.grown, b, z.x)
      BY <1>5 DEF Trails
    <2>4. Batch(~own.grown, k, Dropped, z.x)
      BY <1>5, <1>7
    <2>5. QED
      BY <1>5, <1>10, <2>1, <2>2, <2>3, <2>4, RowComes
  <1>12. TimelyRows(Append(Texts(p), z.x))
    <2>1. PICK b \in Seq(Seq(Samples(made))) : b = Texts(p) /\ TimelyRows(b)
      BY <1>2, <1>10 DEF MqttInv
    <2>2. PICK q : q = Append(b, z.x)
      OBVIOUS
    <2>3. z.x \in Seq(Samples(k))
      BY <1>5, <1>7 DEF Batch
    <2>4. b \in Seq(Seq(Samples(k)))
      BY <1>8, SeqMonotonic
    <2>5. \A i \in DOMAIN q : (i \in DOMAIN b /\ q[i] = b[i]) \/ q[i] = z.x
      BY <2>2, <2>3, <2>4, AppendIs
    <2>6. QED
      BY <1>5, <2>1, <2>2, <2>5 DEF TimelyRows
  <1>13. Given' = Given /\ Dropped' = Dropped
    BY <1>1 DEF Given, Dropped
  <1>14. World'
    BY <1>1, <1>4, <1>6 DEF World, Inner, Outer
  <1>15. MqttInv'
    BY <1>1, <1>6, <1>7, <1>10, <1>11, <1>12, <1>13 DEF MqttInv, OwnNames, Excused, BatchBad
  <1>16. QED
    BY <1>1, <1>14, <1>15

(* A message is passed on, or it is thrown away.                            *)
LEMMA MqttPassed ==
    ASSUME World, MqttInv, NEW p \in Seq(Mail(made)), p = queue.poll, p # <<>>,
           NEW why \in {"unmapped", "full"},
           NEW into, into = Head(p).x \/ into = <<>>,
           queue' = [queue EXCEPT !.poll = Tail(p), !.convert = @ \o into],
           Lose(Range(Head(p).x) \ Range(into), why), UNCHANGED <<kind, stopped, hand, made, sent, own, session, link, events, rpc>>,
           pc' \in [Workers -> PCs], known' \subseteq Names
    PROVE  World' /\ MqttInv' /\ kind' = kind
  <1>1. made \in Nat /\ DOMAIN queue = Queues /\ lost \subseteq Loss(made) /\ (~own.grown) \in BOOLEAN
    BY DEF World, Inner
  <1>2. /\ queue'.poll = Tail(p) /\ queue'.convert = queue.convert \o into /\ queue'.save = queue.save
        /\ DOMAIN queue' = Queues
    <2>1. "poll" \in Queues /\ "convert" \in Queues /\ "save" \in Queues
      BY DEF Queues
    <2>2. QED
      BY <1>1, <2>1
  <1>3. /\ Texts(p) \in Seq(Seq(Samples(made))) /\ Texts(p) # <<>> /\ Texts(Tail(p)) = Tail(Texts(p))
        /\ Head(Texts(p)) = Head(p).x /\ Tail(p) \in Seq(Mail(made)) /\ Head(p) \in Mail(made)
    BY MailIs
  <1>4. PICK c \in Seq(Seq(Samples(made))) : c = Texts(p) /\ c # <<>>
    BY <1>3
  <1>5. PICK x \in Seq(Samples(made)) : x = Head(p).x /\ x = Head(c)
    BY <1>3, <1>4 DEF Mail
  <1>6. Train(~own.grown, made, Dropped, Given, hand.save, queue.convert, c)
    BY <1>4 DEF MqttInv
  <1>7. /\ into \in Seq(Samples(made)) /\ Part(into, x) /\ Range(into) \subseteq Range(x)
    <2>1. Part(x, x)
      <3>1. PICK f \in [DOMAIN x -> DOMAIN x] : \A k \in DOMAIN x : f[k] = k
        <4>1. [k \in DOMAIN x |-> k] \in [DOMAIN x -> DOMAIN x] /\ \A k \in DOMAIN x : [l \in DOMAIN x |-> l][k] = k
          OBVIOUS
        <4>2. QED
          BY <4>1
      <3>2. QED
        BY <3>1 DEF Part
    <2>2. <<>> \in Seq(Samples(made)) /\ Part(<<>>, x)
      BY NoneLeft
    <2>3. into \in Seq(Samples(made)) /\ Part(into, x) /\ Range(into) \subseteq Range(x)
      <3>1. into \in Seq(Samples(made)) /\ Part(into, x)
        <4>1. into = x \/ into = <<>>
          BY <1>5
        <4>2. CASE into = x
          BY <2>1, <4>2
        <4>3. CASE into = <<>>
          BY <2>2, <4>3
        <4>4. QED
          BY <4>1, <4>2, <4>3
      <3>2. PICK f \in [DOMAIN into -> DOMAIN x] : \A k \in DOMAIN into : into[k] = x[f[k]]
        BY <3>1 DEF Part
      <3>3. ASSUME NEW y \in Range(into) PROVE y \in Range(x)
        <4>1. PICK k \in DOMAIN into : into[k] = y
          BY DEF Range
        <4>2. f[k] \in DOMAIN x /\ x[f[k]] = y
          BY <3>2, <4>1
        <4>3. QED
          BY <4>2 DEF Range
      <3>4. QED
        BY <3>1, <3>3
    <2>4. QED
      BY <2>3
  <1>8. PICK E \in SUBSET Samples(made) : E = Range(x) \ Range(into)
    <2>1. Range(x) \ Range(into) \in SUBSET Samples(made)
      BY DEF Range
    <2>2. QED
      BY <2>1
  <1>9. why \in Reasons /\ why \in MqttReasons
    BY DEF Reasons, MqttReasons
  <1>10. Lose(E, why)
    BY <1>5, <1>8
  <1>11. /\ lost' \subseteq Loss(made) /\ Dropped' = Dropped \cup E
         /\ \A l \in lost' : l \in lost \/ (l.why = why /\ l.s \in E)
    BY <1>1, <1>9, <1>10, MoreLost
  <1>12. Train(~own.grown, made, Dropped \cup E, Given, hand.save, queue.convert \o into, Tail(c))
    <2>1. E \subseteq Range(Head(c)) /\ E \cap Range(into) = {} /\ Part(into, Head(c))
      BY <1>5, <1>7, <1>8
    <2>2. QED
      BY <1>1, <1>4, <1>6, <1>7, <2>1, FirstPassed
  <1>13. Given' = Given
    BY DEF Given
  <1>14. TimelyRows(c) /\ Timely(x)
    <2>1. TimelyRows(c)
      BY <1>4 DEF MqttInv
    <2>2. x = c[1] /\ 1 \in DOMAIN c
      BY <1>4, <1>5, HeadTailIs
    <2>3. QED
      BY <2>1, <2>2 DEF TimelyRows
  <1>15. TimelyRows(Tail(c))
    <2>1. PICK q \in Seq(Seq(Samples(made))) : q = Tail(c) /\ Keeps(q, c, 1, <<>>)
      <3>1. 1 \in DOMAIN c
        BY <1>4, HeadTailIs
      <3>2. QED
        BY <1>4, <3>1, WhatIsKept
    <2>2. \A k \in DOMAIN q : q[k] = <<>> \/ \E l \in DOMAIN c : q[k] = c[l]
      BY <2>1 DEF Keeps
    <2>3. TimelyRows(q)
      BY <1>14, <2>2, TimelyParts DEF TimelyRows
    <2>4. QED
      BY <2>1, <2>3
  <1>16. Timely(queue.convert \o into)
    <2>1. Timely(into)
      BY <1>7, <1>14, TimelyParts
    <2>2. queue.convert \in Seq(Samples(made)) /\ Timely(queue.convert)
      BY <1>6 DEF MqttInv, Train, Batch
    <2>3. QED
      BY <1>1, <1>7, <2>1, <2>2, TimelyParts
  <1>17. Excused(MqttReasons)' /\ BatchBad'
    <2>1. Excused(MqttReasons)'
      BY <1>9, <1>11 DEF MqttInv, Excused
    <2>2. lost \subseteq lost' /\ \A l \in lost' : l \in lost \/ l.why # "batch"
      BY <1>10, <1>11 DEF Lose
    <2>3. QED
      BY <2>1, <2>2 DEF MqttInv, BatchBad
  <1>18. World'
    BY <1>2, <1>11 DEF World, Inner, Outer
  <1>19. Train(~own.grown, made, Dropped, Given, hand.save, queue.convert, Texts(queue.poll))'
    <2>1. Texts(queue'.poll) = Tail(c)
      BY <1>2, <1>3, <1>4
    <2>2. QED
      BY <1>2, <1>11, <1>12, <1>13, <2>1
  <1>20. queue'.poll \in Seq(Mail(made)) /\ TimelyRows(Texts(queue'.poll)) /\ Timely(queue'.convert)
    BY <1>2, <1>3, <1>4, <1>15, <1>16
  <1>21. MqttInv'
    BY <1>13, <1>17, <1>19, <1>20 DEF MqttInv, OwnNames
  <1>22. QED
    BY <1>18, <1>21

LEMMA MqttProcessed ==
    ASSUME World, MqttInv, MqttProcesses \/ MqttDies
    PROVE  World' /\ MqttInv' /\ kind' = kind
  <1>1. PICK p \in Seq(Mail(made)) : p = queue.poll
    BY DEF MqttInv
  <1>2. p # <<>> /\ UNCHANGED <<kind, stopped, hand, made, sent, own, session, link, events, rpc>>
    BY <1>1 DEF MqttProcesses, MqttDies, life, work, conn, env
  <1>3. PICK m \in Mail(made) : m = Head(p) /\ m = Head(queue.poll) /\ m.dev \in Devices
    <2>1. Head(p) \in Mail(made)
      BY <1>2, MailIs
    <2>2. QED
      BY <1>1, <2>1 DEF Mail
  <1>4. CASE MqttProcesses
    <2>1. PICK into : into = IF Accepted(m) THEN m.x ELSE <<>>
      OBVIOUS
    <2>2. PICK why \in {"unmapped", "full"} : why = Refusal(m)
      BY DEF Refusal
    <2>3. /\ queue' = [queue EXCEPT !.poll = Tail(@), !.convert = @ \o into]
          /\ Lose(Range(m.x) \ Range(into), why)
          /\ known' = known \cup {m.dev} \/ known' = known \ {m.dev} \/ known' = known
          /\ pc' = pc
      BY <1>3, <1>4, <2>1, <2>2 DEF MqttProcesses, work
    <2>4. known' \subseteq Names /\ pc' \in [Workers -> PCs]
      BY <1>3, <2>3 DEF World, Inner, Names
    <2>5. into = Head(p).x \/ into = <<>>
      BY <1>3, <2>1
    <2>6. queue' = [queue EXCEPT !.poll = Tail(p), !.convert = @ \o into]
      BY <1>1, <2>3
    <2>7. QED
      BY <1>1, <1>2, <1>3, <2>3, <2>4, <2>5, <2>6, MqttPassed
  <1>5. CASE MqttDies
    <2>1. /\ queue' = [queue EXCEPT !.poll = Tail(@)] /\ Lose(Range(m.x), "unmapped")
          /\ known' = known /\ pc' = [pc EXCEPT !.convert = "ended"]
      BY <1>3, <1>5 DEF MqttDies, conn, To
    <2>2. known' \subseteq Names /\ pc' \in [Workers -> PCs]
      BY <2>1 DEF World, Inner, PCs
    <2>3. PICK into : into = <<>>
      OBVIOUS
    <2>4. Range(m.x) \ Range(into) = Range(m.x)
      BY <2>3 DEF Range
    <2>5. queue' = [queue EXCEPT !.poll = Tail(p), !.convert = @ \o into]
      <3>1. queue.convert \in Seq(Samples(made)) /\ DOMAIN queue = Queues
        BY DEF MqttInv, Train, Batch, World, Inner
      <3>2. queue.convert \o into = queue.convert
        BY <2>3, <3>1
      <3>3. PICK z : z = queue.convert \o into /\ z = queue.convert
        BY <3>2
      <3>4. [queue EXCEPT !.poll = Tail(p)] = [queue EXCEPT !.poll = Tail(p), !.convert = z]
        BY <3>3
      <3>5. QED
        BY <1>1, <2>1, <3>3, <3>4
    <2>6. Lose(Range(Head(p).x) \ Range(into), "unmapped")
      BY <1>3, <2>1, <2>4
    <2>7. QED
      BY <1>1, <1>2, <2>2, <2>3, <2>5, <2>6, MqttPassed
  <1>6. QED
    BY <1>4, <1>5

LEMMA SingleHead ==
    ASSUME NEW m \in Nat, NEW o \in BOOLEAN, NEW s \in Seq(Samples(m)), s # <<>>, Sorted(o, s)
    PROVE  /\ Head(s) \in Samples(m) /\ <<Head(s)>> \in Seq(Samples(m)) /\ Tail(s) \in Seq(Samples(m))
           /\ Part(<<Head(s)>>, s) /\ Part(Tail(s), s) /\ Behind(o, <<Head(s)>>, Tail(s)) /\ Head(s) \in Range(s)
  <1>1. /\ SubSeq(s, 1, 1) = <<Head(s)>> /\ SubSeq(s, 2, Len(s)) = Tail(s) /\ 1 \in 1..Len(s)
        /\ Head(s) = s[1] /\ s[1] \in Samples(m) /\ DOMAIN s = 1..Len(s)
    BY HeadTailIs
  <1>2. PICK n \in 1..Len(s) : n = 1 /\ n + 1 = 2
    BY <1>1
  <1>3. /\ SubSeq(s, 1, n) \in Seq(Samples(m)) /\ SubSeq(s, n + 1, Len(s)) \in Seq(Samples(m))
        /\ Behind(o, SubSeq(s, 1, n), SubSeq(s, n + 1, Len(s)))
    BY PrefixAndRest
  <1>4. PICK u, v : IsPiece(u, s, 1, 1) /\ IsPiece(v, s, 2, Len(s)) /\ u = <<Head(s)>> /\ v = Tail(s)
    BY <1>1 DEF IsPiece
  <1>5. Len(s) \in Nat /\ 1 <= Len(s) /\ Len(s) <= Len(s)
    BY <1>1
  <1>6. Part(u, s)
    BY <1>4, <1>5, Piece
  <1>7. Part(v, s)
    <2>1. 2 \in Nat \ {0} /\ IsPiece(v, s, 2, Len(s))
      BY <1>4
    <2>2. QED
      BY <1>5, <2>1, Piece
  <1>8. QED
    BY <1>1, <1>2, <1>3, <1>4, <1>6, <1>7 DEF Range

(* A worker takes a batch.                                                  *)
LEMMA MqttTaken ==
    ASSUME World, MqttInv, MqttTakes
    PROVE  World' /\ MqttInv' /\ kind' = kind
  <1> DEFINE b == hand.save
             o == ~own.grown
  <1>1. PICK e \in Seq(Samples(made)) : e = queue.convert
    BY DEF MqttInv, Train, Batch
  <1>2. PICK n \in 1..Len(e) : /\ hand' = [hand EXCEPT !.save = Append(b, SubSeq(e, 1, n))]
                               /\ queue' = [queue EXCEPT !.convert = SubSeq(e, n + 1, Len(e))]
    BY <1>1 DEF MqttTakes, Hold, After
  <1>3. /\ Len(b) < own.workers
        /\ UNCHANGED <<kind, stopped, pc, made, sent, lost, session, known, own, link, events, rpc>>
    BY DEF MqttTakes, life, conn, env
  <1>4. /\ made \in Nat /\ o \in BOOLEAN /\ DOMAIN queue = Queues /\ DOMAIN hand = Workers
        /\ "save" \in Workers /\ "convert" \in Queues /\ "poll" \in Queues /\ "save" \in Queues
    BY DEF World, Inner, Workers, Queues
  <1>5. /\ Train(o, made, Dropped, Given, b, e, Texts(queue.poll)) /\ b \in Seq(Seq(Samples(made)))
        /\ Sorted(o, e)
    <2>1. Train(o, made, Dropped, Given, b, e, Texts(queue.poll))
      BY <1>1 DEF MqttInv
    <2>2. QED
      BY <2>1 DEF Train, Rows, Batch
  <1>6. PICK s \in Seq(Samples(made)), r \in Seq(Samples(made)) :
          s = SubSeq(e, 1, n) /\ r = SubSeq(e, n + 1, Len(e)) /\ s # <<>> /\ Range(s) \subseteq Range(e) /\ Range(r) \subseteq Range(e)
    <2>1. SubSeq(e, 1, n) \in Seq(Samples(made)) /\ SubSeq(e, n + 1, Len(e)) \in Seq(Samples(made))
      BY <1>4, <1>5, PrefixAndRest
    <2>2. Range(SubSeq(e, 1, n)) \subseteq Range(e) /\ Range(SubSeq(e, n + 1, Len(e))) \subseteq Range(e)
      BY PartlyRange
    <2>3. SubSeq(e, 1, n) # <<>>
      <3>1. Len(SubSeq(e, 1, n)) = n /\ n # 0
        OBVIOUS
      <3>2. Len(<<>>) = 0
        OBVIOUS
      <3>3. QED
        BY <3>1, <3>2
    <2>4. QED
      BY <2>1, <2>2, <2>3
  <1>7. Train(o, made, Dropped, Given, Append(b, s), r, Texts(queue.poll))
    BY <1>4, <1>5, <1>6, BatchTaken
  <1>8. PICK q : q = Append(b, s)
    OBVIOUS
  <1>9. /\ \A i \in DOMAIN q : (i \in DOMAIN b /\ q[i] = b[i]) \/ q[i] = s
        /\ Len(q) = Len(b) + 1 /\ Len(b) \in Nat
    BY <1>5, <1>8, AppendIs
  <1>10. Timely(s) /\ Timely(r)
    BY <1>1, <1>6, TimelyParts DEF MqttInv
  <1>11. Filled(q) /\ TimelyRows(q)
    BY <1>6, <1>9, <1>10 DEF MqttInv, Filled, TimelyRows
  <1>12. hand'.save = q /\ DOMAIN hand' = Workers /\ queue'.convert = r /\ queue'.poll = queue.poll /\ DOMAIN queue' = Queues
    BY <1>2, <1>4, <1>6, <1>8
  <1>13. MqttPool(own', hand'.save)
    <2>1. own.workers <= 1 => Len(q) <= 1
      BY <1>3, <1>9 DEF MqttInv, MqttPool
    <2>2. QED
      BY <1>3, <1>12, <2>1 DEF MqttInv, MqttPool
  <1>14. Given' = Given /\ Dropped' = Dropped
    BY <1>3 DEF Given, Dropped
  <1>15. World'
    BY <1>3, <1>12 DEF World, Inner, Outer
  <1>16. MqttInv'
    BY <1>3, <1>7, <1>8, <1>10, <1>11, <1>12, <1>13, <1>14 DEF MqttInv, OwnNames, Excused, BatchBad
  <1>17. QED
    BY <1>3, <1>15, <1>16

(* It converts one message of the batch after the other.                    *)
LEMMA MqttConverted ==
    ASSUME World, MqttInv, NEW i \in 1..MaxSamples + MaxPending, i <= Len(hand.save), MqttConverts(i)
    PROVE  World' /\ MqttInv' /\ kind' = kind
  <1> DEFINE o == ~own.grown
  <1>1. UNCHANGED <<kind, stopped, pc, queue, made, session, own, link, events, rpc>>
    BY DEF MqttConverts, life, env
  <1>2. PICK b \in Seq(Seq(Samples(made))) : b = hand.save
    BY DEF MqttInv, Train, Rows
  <1>3. /\ made \in Nat /\ o \in BOOLEAN /\ DOMAIN hand = Workers /\ "save" \in Workers /\ i \in DOMAIN b
        /\ Len(b) \in Nat /\ DOMAIN b = 1..Len(b) /\ i \in Nat
        /\ sent \in Seq(Entry(made)) /\ lost \subseteq Loss(made) /\ known \subseteq Names
    <2>1. made \in Nat /\ DOMAIN hand = Workers /\ "save" \in Workers
          /\ sent \in Seq(Entry(made)) /\ lost \subseteq Loss(made) /\ known \subseteq Names
      BY DEF World, Inner, Workers
    <2>2. i \in Nat /\ Len(b) \in Nat /\ DOMAIN b = 1..Len(b) /\ i \in DOMAIN b
      BY <1>2
    <2>3. o \in BOOLEAN
      OBVIOUS
    <2>4. QED
      BY <2>1, <2>2, <2>3
  <1>4. Train(o, made, Dropped, Given, b, queue.convert, Texts(queue.poll))
    BY <1>2 DEF MqttInv
  <1>5. PICK s \in Seq(Samples(made)) : s = b[i] /\ Sorted(o, s) /\ Timely(s) /\ s # <<>>
    <2>1. Batch(o, made, Dropped, b[i])
      BY <1>3, <1>4 DEF Train, Rows
    <2>2. b[i] # <<>> /\ Timely(b[i])
      BY <1>2, <1>3 DEF MqttInv, Filled, TimelyRows
    <2>3. QED
      BY <2>1, <2>2 DEF Batch
  <1>6. PICK x \in Samples(made) : x = Head(s) /\ x \in Range(s)
    BY <1>3, <1>5, SingleHead
  <1>7. PICK r : r = IF x.bad THEN <<>> ELSE Tail(s)
    OBVIOUS
  <1>8. /\ r \in Seq(Samples(made)) /\ Part(r, s) /\ Behind(o, <<x>>, r) /\ Part(<<x>>, s) /\ <<x>> \in Seq(Samples(made))
    <2>1. /\ <<x>> \in Seq(Samples(made)) /\ Tail(s) \in Seq(Samples(made))
          /\ Part(<<x>>, s) /\ Part(Tail(s), s) /\ Behind(o, <<x>>, Tail(s))
      BY <1>3, <1>5, <1>6, SingleHead
    <2>2. <<>> \in Seq(Samples(made)) /\ Part(<<>>, s) /\ Behind(o, <<x>>, <<>>)
      BY NoneLeft, EmptyIs
    <2>3. QED
      BY <1>7, <2>1, <2>2
  <1>9. PICK t \in Seq(Samples(made)) :
          t = Good(<<x>>) /\ Part(t, <<x>>) /\ Part(t, s) /\ Behind(o, t, r) /\ (x.bad => DOMAIN t = {}) /\ Range(t) \subseteq Range(s)
    <2>1. PICK u \in Seq(Samples(made)) : u = <<x>> /\ DOMAIN u = {1} /\ u[1] = x
      <3>1. DOMAIN <<x>> = {1} /\ <<x>>[1] = x
        OBVIOUS
      <3>2. QED
        BY <1>8, <3>1
    <2>2. PICK t \in Seq(Samples(made)) : t = Good(u) /\ Part(t, u) /\ \A y \in Range(t) : ~y.bad /\ y \in Range(u)
      BY <1>3, GoodOnes
    <2>3. Part(t, s)
      BY <1>8, <2>1, <2>2, PartOfPart
    <2>4. Behind(o, t, r)
      <3>1. Sorted(o, u)
        BY <2>1 DEF Sorted
      <3>2. Behind(o, u, r)
        BY <1>8, <2>1
      <3>3. QED
        BY <1>3, <2>2, <3>1, <3>2, PartOf
    <2>5. x.bad => DOMAIN t = {}
      <3>1. \A y \in Range(u) : y = x
        BY <2>1 DEF Range
      <3>2. \A k \in DOMAIN t : t[k] \in Range(t)
        BY DEF Range
      <3>3. QED
        BY <2>2, <3>1, <3>2
    <2>6. Range(t) \subseteq Range(s)
      <3>1. \A y \in Range(u) : y = x
        BY <2>1 DEF Range
      <3>2. QED
        BY <1>6, <2>2, <3>1
    <2>7. QED
      BY <2>1, <2>2, <2>3, <2>4, <2>5, <2>6
  <1>10. PICK q \in Seq(Seq(Samples(made))) :
           /\ hand' = [hand EXCEPT !.save = q] /\ Keeps(q, b, i, r)
           /\ \A k \in DOMAIN q : q[k] # <<>> /\ (q[k] = r \/ \E l \in DOMAIN b : q[k] = b[l])
    <2>1. hand' = [hand EXCEPT !.save = IF r = <<>> THEN Without(b, i) ELSE [b EXCEPT ![i] = r]]
      BY <1>2, <1>5, <1>6, <1>7 DEF MqttConverts, Hold
    <2>2. \A l \in DOMAIN b : b[l] # <<>>
      BY <1>2 DEF MqttInv, Filled
    <2>3. CASE r = <<>>
      <3>1. PICK q \in Seq(Seq(Samples(made))) : q = Without(b, i) /\ Keeps(q, b, i, r) /\ Keeps(q, b, i, s)
        BY <1>3, WhatIsKept
      <3>5. PICK f \in [DOMAIN q -> DOMAIN b] : \A k \in DOMAIN q : q[k] = IF f[k] = i THEN s ELSE b[f[k]]
        BY <3>1 DEF Keeps
      <3>6. \A k \in DOMAIN q : f[k] \in DOMAIN b /\ q[k] = b[f[k]]
        BY <1>5, <3>5
      <3>2. \A k \in DOMAIN q : q[k] # <<>> /\ \E l \in DOMAIN b : q[k] = b[l]
        BY <2>2, <3>6
      <3>3. hand' = [hand EXCEPT !.save = q]
        BY <2>1, <2>3, <3>1
      <3>4. QED
        BY <3>1, <3>2, <3>3
    <2>4. CASE r # <<>>
      <3>1. PICK q \in Seq(Seq(Samples(made))) : q = [b EXCEPT ![i] = r] /\ Keeps(q, b, i, r)
        BY <1>3, <1>8, WhatIsKept
      <3>2. \A k \in DOMAIN q : q[k] = r \/ \E l \in DOMAIN b : q[k] = b[l]
        BY <3>1 DEF Keeps
      <3>3. hand' = [hand EXCEPT !.save = q]
        BY <2>1, <2>4, <3>1
      <3>4. QED
        BY <2>2, <2>4, <3>1, <3>2, <3>3
    <2>5. QED
      BY <2>3, <2>4
  <1>11. Deliver(Own(t))
    BY <1>2, <1>5, <1>6, <1>9 DEF MqttConverts
  <1>12. sent' \in Seq(Entry(made)) /\ Given' = Given \o t /\ known' \subseteq Names /\ OwnNames'
    BY <1>3, <1>11, OwnGiven DEF MqttInv
  <1>13. PICK E \in SUBSET Samples(made) : E = (IF x.bad THEN Range(s) ELSE {}) /\ E \subseteq Range(s)
    <2>1. Range(s) \in SUBSET Samples(made)
      BY DEF Range
    <2>2. QED
      BY <2>1
  <1>14. Lose(E, "batch")
    <2>1. lost' = IF x.bad THEN lost \cup {[s |-> y, why |-> "batch"] : y \in Range(s)} ELSE lost
      BY <1>2, <1>5, <1>6 DEF MqttConverts
    <2>2. CASE x.bad
      BY <1>13, <2>1, <2>2 DEF Lose
    <2>3. CASE ~x.bad
      BY <1>13, <2>1, <2>3 DEF Lose
    <2>4. QED
      BY <2>2, <2>3
  <1>15. PICK why \in Reasons : why = "batch" /\ why \in MqttReasons
    BY DEF Reasons, MqttReasons
  <1>16. /\ lost' \subseteq Loss(made) /\ Dropped' = Dropped \cup E
         /\ \A l \in lost' : l \in lost \/ (l.why = why /\ l.s \in E)
    BY <1>3, <1>14, <1>15, MoreLost
  <1>17. Train(o, made, Dropped \cup E, Given \o t, q, queue.convert, Texts(queue.poll))
    <2>1. o => i = 1 /\ Len(b) = 1
      <3>1. o => Len(b) <= 1
        BY <1>2 DEF MqttInv, MqttPool
      <3>2. i \in 1..Len(b) /\ Len(b) \in Nat
        BY <1>3
      <3>3. Len(b) <= 1 => i = 1 /\ Len(b) = 1
        <4>1. \A n \in Nat : \A j \in 1..n : n <= 1 => j = 1 /\ n = 1
          OBVIOUS
        <4>2. PICK n \in Nat : n = Len(b)
          BY <3>2
        <4>3. i \in 1..n
          BY <3>2, <4>2
        <4>4. QED
          BY <4>1, <4>2, <4>3
      <3>4. QED
        BY <3>1, <3>3
    <2>2. Gone(E, t)
      BY <1>9, <1>13 DEF Gone
    <2>3. Gone(E, r)
      <3>1. CASE x.bad
        BY <1>7, <3>1, EmptyIs
      <3>2. CASE ~x.bad
        BY <1>13, <3>2 DEF Gone
      <3>3. QED
        BY <3>1, <3>2
    <2>4. Part(t, b[i]) /\ Part(r, b[i]) /\ E \subseteq Range(b[i])
      BY <1>5, <1>8, <1>9, <1>13
    <2>5. QED
      BY <1>3, <1>4, <1>8, <1>9, <1>10, <2>1, <2>2, <2>3, <2>4, BatchGiven
  <1>18. hand'.save = q /\ DOMAIN hand' = Workers
    BY <1>3, <1>10
  <1>19. MqttPool(own', q)
    <2>1. ASSUME Len(b) <= 1 PROVE Len(q) <= 1
      <3>1. PICK f \in [DOMAIN q -> DOMAIN b] : \A j, k \in DOMAIN q : j < k => f[j] < f[k]
        BY <1>10 DEF Keeps
      <3>2. DOMAIN q = 1..Len(q) /\ Len(q) \in Nat
        BY <1>10
      <3>3. \A k \in DOMAIN b : k = 1
        BY <1>3, <2>1
      <3>4. ~(1 \in DOMAIN q /\ 2 \in DOMAIN q)
        <4>1. SUFFICES ASSUME 1 \in DOMAIN q, 2 \in DOMAIN q PROVE FALSE
          OBVIOUS
        <4>2. f[1] < f[2]
          BY <3>1, <4>1
        <4>3. f[1] \in DOMAIN b /\ f[2] \in DOMAIN b
          BY <4>1
        <4>4. f[1] = 1 /\ f[2] = 1
          BY <3>3, <4>3
        <4>5. QED
          BY <4>2, <4>4
      <3>5. QED
        BY <3>2, <3>4
    <2>2. QED
      BY <1>1, <1>2, <2>1 DEF MqttInv, MqttPool
  <1>20. Timely(Given') /\ TimelyRows(q) /\ Filled(q)
    <2>1. Timely(Given) /\ Given \in Seq(Samples(made)) /\ TimelyRows(b)
      BY <1>2, <1>4 DEF MqttInv, Train, Batch
    <2>2. Timely(t) /\ Timely(r)
      <3>1. Range(r) \subseteq Range(s)
        <4>1. PICK f \in [DOMAIN r -> DOMAIN s] : \A k \in DOMAIN r : r[k] = s[f[k]]
          BY <1>8 DEF Part
        <4>2. QED
          BY <4>1 DEF Range
      <3>2. QED
        BY <1>5, <1>9, <3>1, TimelyParts
    <2>3. Timely(Given')
      BY <1>3, <1>9, <1>12, <2>1, <2>2, TimelyParts
    <2>4. QED
      BY <1>10, <2>1, <2>2, <2>3 DEF TimelyRows, Filled
  <1>21. BatchBad' /\ Excused(MqttReasons)'
    <2>1. Excused(MqttReasons)'
      BY <1>15, <1>16 DEF MqttInv, Excused
    <2>2. CASE E = {}
      <3>1. lost' = lost
        BY <1>14, <2>2 DEF Lose
      <3>2. QED
        BY <2>1, <3>1 DEF MqttInv, BatchBad
    <2>3. CASE E # {}
      <3>1. x.bad /\ x \in E
        BY <1>6, <1>13, <2>3
      <3>2. [s |-> x, why |-> "batch"] \in lost' /\ [s |-> x, why |-> "batch"].s = x
        BY <1>14, <3>1 DEF Lose
      <3>3. \E m \in lost' : m.s.bad
        BY <3>1, <3>2
      <3>4. QED
        BY <2>1, <3>3 DEF BatchBad
    <2>4. QED
      BY <2>2, <2>3
  <1>22. World'
    BY <1>1, <1>12, <1>16, <1>18 DEF World, Inner, Outer
  <1>23. MqttInv'
    BY <1>1, <1>12, <1>16, <1>17, <1>18, <1>19, <1>20, <1>21 DEF MqttInv
  <1>24. QED
    BY <1>1, <1>22, <1>23

LEMMA MqttKeeps ==
    ASSUME World, MqttInv, MqttStep
    PROVE  World' /\ MqttInv' /\ kind' = kind
  <1> DEFINE w == "save"
  <1>1. w \in {"main", "save"} /\ w \in Workers /\ "main" \in Workers /\ "convert" \in Workers
    BY DEF Workers
  <1>2. ASSUME NEW v \in Workers, NEW at, "busy" \notin at, Ends(v, at) PROVE World' /\ MqttInv' /\ kind' = kind
    <2>1. Resting(w) /\ UNCHANGED <<queue, own>>
      BY <1>1, <1>2, EndsRests
    <2>2. MqttPool(own', hand.save) /\ (own.grown => own'.grown) /\ queue'.poll = queue.poll
      BY <2>1 DEF MqttInv
    <2>3. QED
      BY <2>1, <2>2, MqttRests
  <1>3. ASSUME UNCHANGED <<kind, made, sent, lost, pc, hand, queue, known, link, events, rpc>>,
               stopped' \in BOOLEAN, stopped => stopped', session' \subseteq Devices,
               MqttPool(own', hand.save), own.grown => own'.grown
        PROVE  World' /\ MqttInv' /\ kind' = kind
    <2>1. Resting(w)
      BY <1>3 DEF Resting, World, Inner, Outer
    <2>2. QED
      BY <1>3, <2>1, MqttRests
  <1>4. MqttPool(own, hand.save) /\ session \subseteq Devices /\ stopped \in BOOLEAN
    BY DEF MqttInv, World, Outer
  <1>5. CASE MqttConnects
    <2>1. /\ UNCHANGED <<kind, made, sent, lost, pc, hand, queue, known, link, events, rpc, stopped>>
          /\ session' = Devices /\ own' = [own EXCEPT !.connected = TRUE, !.mapped = {}, !.filling = Order]
      BY <1>5 DEF MqttConnects, life, work, data, env
    <2>2. MqttPool(own', hand.save) /\ own'.grown = own.grown
      BY <1>4, <2>1 DEF MqttPool
    <2>3. QED
      BY <1>3, <1>4, <2>1, <2>2
  <1>6. CASE MqttMaps
    <2>1. /\ UNCHANGED <<kind, made, sent, lost, pc, hand, queue, known, link, events, rpc, stopped, session>>
          /\ own' = [own EXCEPT !.mapped = @ \cup {Head(own.filling)}, !.filling = Tail(@)]
      BY <1>6 DEF MqttMaps, life, work, data, env
    <2>2. MqttPool(own', hand.save) /\ own'.grown = own.grown
      BY <1>4, <2>1 DEF MqttPool
    <2>3. QED
      BY <1>3, <1>4, <2>1, <2>2
  <1>7. CASE MqttDisconnected
    <2>1. /\ UNCHANGED <<kind, made, sent, lost, pc, hand, queue, known, link, events, rpc, stopped>>
          /\ session' = {} /\ own' = [own EXCEPT !.connected = FALSE]
      BY <1>7 DEF MqttDisconnected, life, work, data, env
    <2>2. MqttPool(own', hand.save) /\ own'.grown = own.grown
      BY <1>4, <2>1 DEF MqttPool
    <2>3. QED
      BY <1>3, <1>4, <2>1, <2>2
  <1>8. CASE MqttManages
    <2>1. /\ UNCHANGED <<kind, made, sent, lost, pc, hand, queue, known, link, events, rpc, stopped, session>>
      BY <1>8 DEF MqttManages, life, work, data, env
    <2>2. \/ own' = [own EXCEPT !.workers = 1]
          \/ own' = [own EXCEPT !.workers = own.workers + 1, !.grown = TRUE]
          \/ own' = [own EXCEPT !.workers = own.workers - 1] /\ own.workers > 1
      BY <1>8 DEF MqttManages
    <2>3. own.workers \in Nat
      BY <1>4 DEF MqttPool
    <2>4. MqttPool(own', hand.save) /\ (own.grown => own'.grown)
      <3>1. CASE own' = [own EXCEPT !.workers = 1]
        BY <1>4, <3>1 DEF MqttPool
      <3>2. CASE own' = [own EXCEPT !.workers = own.workers + 1, !.grown = TRUE]
        BY <1>4, <2>3, <3>2 DEF MqttPool
      <3>3. CASE own' = [own EXCEPT !.workers = own.workers - 1] /\ own.workers > 1
        BY <1>4, <2>3, <3>3 DEF MqttPool
      <3>4. QED
        BY <2>2, <3>1, <3>2, <3>3
    <2>5. QED
      BY <1>3, <1>4, <2>1, <2>4
  <1>9. CASE MqttClose
    <2>1. /\ UNCHANGED <<kind, made, sent, lost, pc, hand, queue, known, link, events, rpc, session, own>>
          /\ stopped' = TRUE
      BY <1>9 DEF MqttClose, work, data, conn, env
    <2>2. QED
      BY <1>3, <1>4, <2>1
  <1>10. CASE \E i \in 1..MaxSamples + MaxPending : MqttTask(i)
    BY <1>10, MqttConverted DEF MqttTask
  <1>11. CASE \E d \in Devices : MqttField(d)
    BY <1>11, MqttReceived DEF MqttField
  <1>12. CASE MqttHandler
    <2>1. \A o \in MqttRpc(rpc.st) : Replied(o)
      BY Returned DEF MqttRpc
    <2>2. Resting(w) /\ UNCHANGED <<queue, own>>
      BY <1>1, <1>12, <2>1, HandlerRests DEF MqttHandler
    <2>3. MqttPool(own', hand.save) /\ (own.grown => own'.grown) /\ queue'.poll = queue.poll
      BY <2>2 DEF MqttInv
    <2>4. QED
      BY <2>2, <2>3, MqttRests
  <1>13. CASE MqttMain
    <2>1. CASE Ends("main", {"idle"})
      BY <1>1, <1>2, <2>1
    <2>2. QED
      BY <1>5, <1>8, <1>13, <2>1 DEF MqttMain
  <1>14. CASE MqttConvert
    <2>1. CASE Ends("convert", {"idle"})
      BY <1>1, <1>2, <2>1
    <2>2. QED
      BY <1>14, <2>1, MqttProcessed DEF MqttConvert
  <1>15. CASE MqttSave
    <2>1. CASE Ends("save", {"idle"})
      BY <1>1, <1>2, <2>1
    <2>2. QED
      BY <1>15, <2>1, MqttTaken DEF MqttSave
  <1>16. QED
    BY <1>6, <1>7, <1>9, <1>10, <1>11, <1>12, <1>13, <1>14, <1>15
       DEF MqttStep, MqttAside, MqttGateway

(* Socket: what a device sent is in its buffer, then in a chunk.            *)
SocketStep ==
    \/ SocketMain \/ SocketConvert \/ (\E d \in Devices : SocketDevice(d)) \/ (\E d \in Devices : SocketField(d))
    \/ SocketGateway \/ SocketHandler
Stream(m, D, g, c, s, d) ==
    /\ Batch(TRUE, m, D, s) /\ Behind(TRUE, g, s) /\ Trails(TRUE, c, s) /\ \A k \in DOMAIN s : s[k].dev = d
Streams(m, D, g, c, b) ==
    /\ b \in [Devices -> Seq(Samples(m))] /\ \A d \in Devices : Stream(m, D, g, c, b[d], d)
    /\ \A d, e \in Devices : d # e => Behind(TRUE, b[d], b[e])
SocketOwn(o) == DOMAIN o = {"tcp", "attrs", "buffer"} /\ o.tcp \in BOOLEAN
SocketReasons(tcp) == IF tcp THEN {"merged", "connection"} ELSE {}
\* A datagram is one chunk.
Chunked(tcp, c) == \A k \in DOMAIN c : c[k] # <<>> /\ (tcp \/ Len(c[k]) = 1)
SocketInv ==
    /\ SocketOwn(own) /\ Train(TRUE, made, Dropped, Given, <<>>, <<>>, queue.convert)
    /\ Streams(made, Dropped, Given, queue.convert, own.buffer) /\ Chunked(own.tcp, queue.convert)
    /\ Timely(Given) /\ TimelyRows(queue.convert) /\ (~stopped => \A d \in Devices : Timely(own.buffer[d]))
    /\ OwnNames /\ Excused(SocketReasons(own.tcp))

LEMMA SocketRests ==
    ASSUME World, SocketInv, Resting("save"), own' = own
    PROVE  World' /\ SocketInv' /\ kind' = kind
  <1>1. World' /\ kind' = kind
    BY Rests DEF Resting
  <1>2. /\ UNCHANGED <<made, sent, lost>> /\ queue'.convert = queue.convert /\ (~stopped' => ~stopped)
        /\ Given' = Given /\ Dropped' = Dropped
    BY DEF Resting, Given, Dropped
  <1>3. QED
    BY <1>1, <1>2 DEF SocketInv, OwnNames, Excused

LEMMA StreamsGrow ==
    ASSUME NEW m \in Nat, NEW k \in Nat, m <= k, NEW D, NEW g, NEW c, NEW b, Streams(m, D, g, c, b)
    PROVE  Streams(k, D, g, c, b)
  <1>1. Samples(m) \subseteq Samples(k) /\ Seq(Samples(m)) \subseteq Seq(Samples(k))
    BY SamplesGrow
  <1>2. QED
    BY <1>1 DEF Streams, Stream, Batch

(* A device sends: its reading is the newest.                               *)
LEMMA StreamGets ==
    ASSUME NEW m \in Nat, NEW D \in SUBSET Samples(m), NEW g \in Seq(Samples(m)), NEW c \in Seq(Seq(Samples(m))), NEW b,
           Streams(m, D, g, c, b), NEW d \in Devices, NEW x \in Samples(m + 1), x.n = m + 1, x.dev = d
    PROVE  Streams(m + 1, D, g, c, [b EXCEPT ![d] = Append(b[d], x)])
  <1>1. /\ Streams(m + 1, D, g, c, b) /\ m + 1 \in Nat
        /\ Seq(Samples(m)) \subseteq Seq(Samples(m + 1))
    BY StreamsGrow, SamplesGrow
  <1>2. /\ <<x>> \in Seq(Samples(m + 1)) /\ Sorted(TRUE, <<x>>)
        /\ (\A s \in Seq(Samples(m)) : Behind(TRUE, s, <<x>>)) /\ Gone(D, <<x>>)
    BY NewIs
  <1>3. PICK s \in Seq(Samples(m + 1)) : s = b[d] /\ s \in Seq(Samples(m))
    BY <1>1 DEF Streams
  <1>4. Append(s, x) = s \o <<x>> /\ Stream(m + 1, D, g, c, s, d)
    BY <1>1, <1>3 DEF Streams
  <1>5. PICK q \in Seq(Samples(m + 1)) : /\ q = Append(s, x) /\ q = s \o <<x>>
                                         /\ \A k \in DOMAIN q : (k \in DOMAIN s /\ q[k] = s[k]) \/ q[k] = x
    <2>1. Append(s, x) \in Seq(Samples(m + 1))
      BY <1>3
    <2>2. \A k \in DOMAIN Append(s, x) : (k \in DOMAIN s /\ Append(s, x)[k] = s[k]) \/ Append(s, x)[k] = x
      BY <1>3, AppendIs
    <2>3. QED
      BY <1>4, <2>1, <2>2
  <1>6. /\ Sorted(TRUE, q) /\ Gone(D, q) /\ Behind(TRUE, g, q)
        /\ (\A r : Behind(TRUE, s, r) /\ Behind(TRUE, <<x>>, r) => Behind(TRUE, q, r))
        /\ (\A r : Behind(TRUE, r, s) /\ Behind(TRUE, r, <<x>>) => Behind(TRUE, r, q))
    <2>1. /\ Sorted(TRUE, s) /\ Sorted(TRUE, <<x>>) /\ Behind(TRUE, s, <<x>>) => Sorted(TRUE, s \o <<x>>)
          /\ \A r : Behind(TRUE, s, r) /\ Behind(TRUE, <<x>>, r) => Behind(TRUE, s \o <<x>>, r)
          /\ \A r : Behind(TRUE, r, s) /\ Behind(TRUE, r, <<x>>) => Behind(TRUE, r, s \o <<x>>)
          /\ Gone(D, s) /\ Gone(D, <<x>>) => Gone(D, s \o <<x>>)
      BY <1>1, <1>2, <1>3, Joined
    <2>2. Sorted(TRUE, s) /\ Gone(D, s) /\ Behind(TRUE, g, s)
      BY <1>4 DEF Stream, Batch
    <2>3. Behind(TRUE, s, <<x>>) /\ Behind(TRUE, g, <<x>>)
      BY <1>2, <1>3
    <2>4. QED
      BY <1>2, <1>5, <2>1, <2>2, <2>3
  <1>7. Trails(TRUE, c, q)
    <2>1. SUFFICES ASSUME NEW i \in DOMAIN c PROVE Behind(TRUE, c[i], q)
      BY DEF Trails
    <2>2. c[i] \in Seq(Samples(m)) /\ Behind(TRUE, c[i], s)
      <3>1. c[i] \in Seq(Samples(m))
        OBVIOUS
      <3>2. QED
        BY <1>4, <3>1 DEF Stream, Trails
    <2>3. QED
      BY <1>2, <1>6, <2>2
  <1>8. Stream(m + 1, D, g, c, q, d)
    BY <1>4, <1>5, <1>6, <1>7 DEF Stream, Batch
  <1>9. ASSUME NEW e \in Devices, e # d PROVE Behind(TRUE, q, b[e]) /\ Behind(TRUE, b[e], q)
    <2>1. PICK t \in Seq(Samples(m)) : t = b[e] /\ \A k \in DOMAIN t : t[k].dev = e
      <3>1. b[e] \in Seq(Samples(m)) /\ Stream(m, D, g, c, b[e], e)
        BY DEF Streams
      <3>2. QED
        BY <3>1 DEF Stream
    <2>2. Behind(TRUE, s, t) /\ Behind(TRUE, t, s)
      BY <1>3, <1>9, <2>1 DEF Streams
    <2>3. Behind(TRUE, t, <<x>>)
      BY <1>2
    <2>4. Behind(TRUE, <<x>>, t)
      <3>1. DOMAIN <<x>> = {1} /\ <<x>>[1] = x
        OBVIOUS
      <3>2. \A k \in DOMAIN t : Earlier(TRUE, t[k], x)
        BY <2>3, <3>1 DEF Behind
      <3>3. \A k \in DOMAIN t : Earlier(TRUE, x, t[k])
        BY <1>9, <2>1, <3>2 DEF Earlier
      <3>4. QED
        BY <3>1, <3>3 DEF Behind
    <2>5. QED
      BY <1>6, <2>1, <2>2, <2>3, <2>4
  <1>10. PICK f : f = [b EXCEPT ![d] = q]
    OBVIOUS
  <1>11. /\ f \in [Devices -> Seq(Samples(m + 1))] /\ f[d] = q
         /\ \A e \in Devices \ {d} : f[e] = b[e]
    BY <1>1, <1>10 DEF Streams
  <1>12. Streams(m + 1, D, g, c, f)
    BY <1>1, <1>8, <1>9, <1>11 DEF Streams
  <1>13. QED
    BY <1>3, <1>5, <1>10, <1>12
(* A device's data become a chunk.                                          *)
LEMMA StreamReceived ==
    ASSUME NEW m \in Nat, NEW D, NEW g, NEW c, NEW b, Streams(m, D, g, c, b), Train(TRUE, m, D, g, <<>>, <<>>, c),
           NEW d \in Devices, NEW n \in 1..Len(b[d])
    PROVE  /\ Train(TRUE, m, D, g, <<>>, <<>>, Append(c, SubSeq(b[d], 1, n)))
           /\ Streams(m, D, g, Append(c, SubSeq(b[d], 1, n)), [b EXCEPT ![d] = SubSeq(b[d], n + 1, Len(b[d]))])
  <1>1. PICK s \in Seq(Samples(m)) : s = b[d] /\ n \in 1..Len(s) /\ Stream(m, D, g, c, s, d)
    <2>1. b[d] \in Seq(Samples(m)) /\ Stream(m, D, g, c, b[d], d)
      BY DEF Streams
    <2>2. QED
      BY <2>1
  <1>2. Sorted(TRUE, s) /\ Gone(D, s) /\ Behind(TRUE, g, s) /\ Trails(TRUE, c, s) /\ \A k \in DOMAIN s : s[k].dev = d
    BY <1>1 DEF Stream, Batch
  <1>3. PICK p \in Seq(Samples(m)), r \in Seq(Samples(m)) :
          /\ p = SubSeq(s, 1, n) /\ r = SubSeq(s, n + 1, Len(s))
          /\ Sorted(TRUE, p) /\ Sorted(TRUE, r) /\ Behind(TRUE, p, r) /\ Gone(D, p) /\ Gone(D, r)
          /\ (\A t : Behind(TRUE, t, s) => Behind(TRUE, t, p) /\ Behind(TRUE, t, r))
          /\ (\A t : Behind(TRUE, s, t) => Behind(TRUE, p, t) /\ Behind(TRUE, r, t))
          /\ \A k \in DOMAIN r : r[k].dev = d
    <2>1. Range(SubSeq(s, n + 1, Len(s))) \subseteq Range(s)
      BY <1>1, PartlyRange
    <2>2. \A y \in Range(s) : y.dev = d
      BY <1>2 DEF Range
    <2>3. \A r : Range(r) \subseteq Range(s) => \A k \in DOMAIN r : r[k].dev = d
      BY <2>2 DEF Range
    <2>4. \A k \in DOMAIN SubSeq(s, n + 1, Len(s)) : SubSeq(s, n + 1, Len(s))[k].dev = d
      BY <2>1, <2>3
    <2>5. /\ SubSeq(s, 1, n) \in Seq(Samples(m)) /\ SubSeq(s, n + 1, Len(s)) \in Seq(Samples(m))
          /\ Sorted(TRUE, SubSeq(s, 1, n)) /\ Sorted(TRUE, SubSeq(s, n + 1, Len(s)))
          /\ Behind(TRUE, SubSeq(s, 1, n), SubSeq(s, n + 1, Len(s)))
          /\ (\A r : Behind(TRUE, r, s) => Behind(TRUE, r, SubSeq(s, 1, n)) /\ Behind(TRUE, r, SubSeq(s, n + 1, Len(s))))
          /\ (\A r : Behind(TRUE, s, r) => Behind(TRUE, SubSeq(s, 1, n), r) /\ Behind(TRUE, SubSeq(s, n + 1, Len(s)), r))
          /\ (\A F : Gone(F, s) => Gone(F, SubSeq(s, 1, n)) /\ Gone(F, SubSeq(s, n + 1, Len(s))))
      BY <1>1, <1>2, PrefixAndRest
    <2>6. QED
      BY <1>2, <2>4, <2>5
  <1>4. Batch(TRUE, m, D, p) /\ Batch(TRUE, m, D, r) /\ Behind(TRUE, g, p) /\ Behind(TRUE, g, r)
        /\ Trails(TRUE, c, p) /\ Trails(TRUE, c, r)
    BY <1>2, <1>3 DEF Batch, Trails
  <1>5. Train(TRUE, m, D, g, <<>>, <<>>, Append(c, p))
    <2>1. Behind(TRUE, <<>>, p) /\ Trails(TRUE, <<>>, p)
      <3>1. DOMAIN <<>> = {}
        OBVIOUS
      <3>2. QED
        BY <3>1, EmptyIs DEF Trails
    <2>2. QED
      BY <1>4, <2>1, RowComes
  <1>6. \A t : Trails(TRUE, c, t) /\ Behind(TRUE, p, t) => Trails(TRUE, Append(c, p), t)
    <2>1. Rows(TRUE, m, D, c)
      BY DEF Train
    <2>2. QED
      BY <1>4, <2>1, RowAdded
  <1>7. Stream(m, D, g, Append(c, p), r, d)
    BY <1>3, <1>4, <1>6 DEF Stream
  <1>8. ASSUME NEW e \in Devices, e # d
        PROVE  /\ Stream(m, D, g, Append(c, p), b[e], e) /\ Behind(TRUE, r, b[e]) /\ Behind(TRUE, b[e], r)
    <2>1. Behind(TRUE, s, b[e]) /\ Behind(TRUE, b[e], s) /\ Stream(m, D, g, c, b[e], e)
      BY <1>1, <1>8 DEF Streams
    <2>2. Behind(TRUE, p, b[e]) /\ Behind(TRUE, r, b[e]) /\ Behind(TRUE, b[e], r)
      BY <1>3, <2>1
    <2>3. QED
      BY <1>6, <2>1, <2>2 DEF Stream
  <1>9. PICK f : f = [b EXCEPT ![d] = r]
    OBVIOUS
  <1>10. f \in [Devices -> Seq(Samples(m))] /\ f[d] = r /\ \A e \in Devices \ {d} : f[e] = b[e]
    BY <1>9 DEF Streams
  <1>11. \A e, h \in Devices : e # h => Behind(TRUE, f[e], f[h])
    BY <1>8, <1>10 DEF Streams
  <1>12. Streams(m, D, g, Append(c, p), f)
    BY <1>7, <1>8, <1>10, <1>11 DEF Streams
  <1>13. QED
    BY <1>1, <1>3, <1>5, <1>9, <1>12

(* A connection breaks: what was not received is lost.                      *)
LEMMA StreamBroken ==
    ASSUME NEW m \in Nat, NEW D, NEW g, NEW c, NEW b, Streams(m, D, g, c, b), Train(TRUE, m, D, g, <<>>, <<>>, c),
           NEW d \in Devices
    PROVE  /\ Train(TRUE, m, D \cup Range(b[d]), g, <<>>, <<>>, c)
           /\ Streams(m, D \cup Range(b[d]), g, c, [b EXCEPT ![d] = <<>>])
           /\ Range(b[d]) \subseteq Samples(m)
  <1>1. PICK s \in Seq(Samples(m)) : s = b[d] /\ Stream(m, D, g, c, s, d)
    <2>1. b[d] \in Seq(Samples(m)) /\ Stream(m, D, g, c, b[d], d)
      BY DEF Streams
    <2>2. QED
      BY <2>1
  <1>2. PICK E \in SUBSET Samples(m) : E = Range(s)
    <2>1. Range(s) \in SUBSET Samples(m)
      BY DEF Range
    <2>2. QED
      BY <2>1
  <1>3. Behind(TRUE, g, s) /\ Trails(TRUE, c, s)
    BY <1>1 DEF Stream
  <1>4. Gone(E, g) /\ (\A i \in DOMAIN c : Gone(E, c[i])) /\ Gone(E, <<>>)
    <2>1. E \subseteq Range(s)
      BY <1>2
    <2>2. QED
      BY <1>3, <2>1, RowGoes, EmptyIs
  <1>5. Train(TRUE, m, D \cup E, g, <<>>, <<>>, c)
    <2>1. /\ D \subseteq Samples(m) /\ Batch(TRUE, m, D, g) /\ Rows(TRUE, m, D, <<>>) /\ Batch(TRUE, m, D, <<>>)
          /\ Rows(TRUE, m, D, c)
      BY DEF Train
    <2>2. \A i \in DOMAIN <<>> : Gone(E, <<>>[i])
      <3>1. DOMAIN <<>> = {}
        OBVIOUS
      <3>2. QED
        BY <3>1
    <2>3. /\ Batch(TRUE, m, D \cup E, g) /\ Batch(TRUE, m, D \cup E, <<>>) /\ Rows(TRUE, m, D \cup E, c)
      BY <1>4, <2>1, RowsThrown
    <2>4. Rows(TRUE, m, D \cup E, <<>>)
      BY <2>1, <2>2, RowsThrown
    <2>5. QED
      BY <2>1, <2>3, <2>4 DEF Train
  <1>6. Stream(m, D \cup E, g, c, <<>>, d)
    <2>1. DOMAIN <<>> = {}
      OBVIOUS
    <2>2. QED
      BY <2>1, EmptyIs DEF Stream, Batch, Trails
  <1>7. ASSUME NEW e \in Devices, e # d PROVE Stream(m, D \cup E, g, c, b[e], e)
    <2>1. Behind(TRUE, s, b[e]) /\ Stream(m, D, g, c, b[e], e)
      BY <1>1, <1>7 DEF Streams
    <2>2. Gone(E, b[e])
      BY <1>2, <2>1, RowGoes
    <2>3. QED
      BY <2>1, <2>2, RowsThrown DEF Stream
  <1>8. PICK f : f = [b EXCEPT ![d] = <<>>]
    OBVIOUS
  <1>9. f \in [Devices -> Seq(Samples(m))] /\ f[d] = <<>> /\ \A e \in Devices \ {d} : f[e] = b[e]
    <2>1. PICK n \in Seq(Samples(m)) : n = <<>>
      <3>1. <<>> \in Seq(Samples(m))
        BY NoneLeft
      <3>2. QED
        BY <3>1
    <2>2. f = [b EXCEPT ![d] = n]
      BY <1>8, <2>1
    <2>3. QED
      BY <2>1, <2>2 DEF Streams
  <1>10. \A e, h \in Devices : e # h => Behind(TRUE, f[e], f[h])
    <2>1. \A r : Behind(TRUE, f[d], r) /\ Behind(TRUE, r, f[d])
      BY <1>9, EmptyIs
    <2>2. QED
      BY <1>9, <2>1 DEF Streams
  <1>11. Streams(m, D \cup E, g, c, f)
    BY <1>6, <1>7, <1>9, <1>10 DEF Streams
  <1>12. QED
    BY <1>1, <1>2, <1>5, <1>8, <1>11

(* A chunk is converted: a part of it is given, the rest thrown away.       *)
LEMMA StreamGiven ==
    ASSUME NEW m \in Nat, NEW D, NEW g, NEW c, NEW b, Streams(m, D, g, c, b), Train(TRUE, m, D, g, <<>>, <<>>, c), c # <<>>,
           NEW t \in Seq(Samples(m)), Part(t, Head(c)), NEW E, E \subseteq Range(Head(c)), E \cap Range(t) = {}
    PROVE  /\ Train(TRUE, m, D \cup E, g \o t, <<>>, <<>>, Tail(c)) /\ Streams(m, D \cup E, g \o t, Tail(c), b)
  <1>1. Train(TRUE, m, D \cup E, g \o t, <<>>, <<>>, Tail(c))
    <2>1. TRUE \in BOOLEAN
      OBVIOUS
    <2>2. QED
      BY <2>1, FirstGiven
  <1>2. Rows(TRUE, m, D, c) /\ g \in Seq(Samples(m)) /\ c \in Seq(Seq(Samples(m)))
    BY DEF Train, Batch, Rows
  <1>3. PICK h \in Seq(Samples(m)) : h = Head(c) /\ h = c[1] /\ 1 \in DOMAIN c /\ Sorted(TRUE, h)
    <2>1. Head(c) = c[1] /\ 1 \in DOMAIN c
      BY <1>2, HeadTailIs
    <2>2. QED
      BY <1>2, <2>1 DEF Rows, Batch
  <1>4. ASSUME NEW d \in Devices PROVE Stream(m, D \cup E, g \o t, Tail(c), b[d], d)
    <2>1. Stream(m, D, g, c, b[d], d)
      BY DEF Streams
    <2>2. Behind(TRUE, g, b[d]) /\ Trails(TRUE, c, b[d]) /\ Behind(TRUE, h, b[d])
      BY <1>3, <2>1 DEF Stream, Trails
    <2>3. Gone(E, b[d])
      BY <1>3, <2>2, RowGoes
    <2>4. Batch(TRUE, m, D \cup E, b[d])
      BY <2>1, <2>3, RowsThrown DEF Stream
    <2>5. Behind(TRUE, t, b[d])
      <3>1. TRUE \in BOOLEAN /\ Part(t, h)
        BY <1>3
      <3>2. QED
        BY <1>3, <2>2, <3>1, PartOf
    <2>6. Behind(TRUE, g \o t, b[d])
      BY <1>2, <2>2, <2>5, Joined
    <2>7. Trails(TRUE, Tail(c), b[d])
      <3>1. PICK q \in Seq(Seq(Samples(m))) : q = Tail(c) /\ Keeps(q, c, 1, <<>>)
        BY <1>2, <1>3, WhatIsKept
      <3>2. <<>> \in Seq(Samples(m)) /\ Part(<<>>, c[1]) /\ TRUE \in BOOLEAN
        BY NoneLeft
      <3>3. Trails(TRUE, q, b[d])
        BY <1>2, <1>3, <2>2, <3>1, <3>2, RowsKept
      <3>4. QED
        BY <3>1, <3>3
    <2>8. QED
      BY <2>1, <2>4, <2>6, <2>7 DEF Stream
  <1>5. QED
    BY <1>1, <1>4 DEF Streams

LEMMA SocketSentOne ==
    ASSUME World, SocketInv, NEW d \in Devices, SocketSent(d)
    PROVE  World' /\ SocketInv' /\ kind' = kind
  <1>1. UNCHANGED <<kind, stopped, pc, hand, queue, sent, lost, session, known, link, events, rpc>> /\ Reads(1)
    BY DEF SocketSent, life, work, env
  <1>2. PICK b \in [Devices -> Seq(Samples(made))] : b = own.buffer /\ Streams(made, Dropped, Given, queue.convert, b)
    BY DEF SocketInv, Streams
  <1>3. PICK bad \in BOOLEAN : own' = [own EXCEPT !.buffer[d] = Append(@, Reading(d, 1, bad))]
    BY DEF SocketSent
  <1>4. /\ made' = made + 1 /\ made' \in 0..MaxSamples /\ sent \in Seq(Entry(made')) /\ lost \subseteq Loss(made')
        /\ made \in Nat
    BY <1>1, MadeGrows, ReadingIs
  <1>5. PICK x \in Samples(made + 1) : x = Reading(d, 1, bad) /\ x.n = made + 1 /\ x.dev = d /\ x.late = stopped
    BY ReadingIs
  <1>6. PICK f : f = [b EXCEPT ![d] = Append(b[d], x)]
    OBVIOUS
  <1>7. own' = [own EXCEPT !.buffer = f] /\ own'.buffer = f /\ own'.tcp = own.tcp /\ SocketOwn(own')
    <2>1. own' = [own EXCEPT !.buffer = f]
      BY <1>2, <1>3, <1>5, <1>6
    <2>2. QED
      BY <2>1 DEF SocketInv, SocketOwn
  <1>8. Train(TRUE, made, Dropped, Given, <<>>, <<>>, queue.convert)
    BY DEF SocketInv
  <1>9. Streams(made + 1, Dropped, Given, queue.convert, f)
    <2>1. Dropped \in SUBSET Samples(made) /\ Given \in Seq(Samples(made)) /\ queue.convert \in Seq(Seq(Samples(made)))
      BY <1>8 DEF Train, Batch, Rows
    <2>2. QED
      BY <1>2, <1>4, <1>5, <1>6, <2>1, StreamGets
  <1>10. Train(TRUE, made + 1, Dropped, Given, <<>>, <<>>, queue.convert)
    <2>1. made + 1 \in Nat /\ made <= made + 1
      BY <1>4
    <2>2. QED
      BY <1>4, <1>8, <2>1, TrainGrows
  <1>11. Given' = Given /\ Dropped' = Dropped
    BY <1>1 DEF Given, Dropped
  <1>12. ~stopped => \A e \in Devices : Timely(f[e])
    <2>1. SUFFICES ASSUME ~stopped, NEW e \in Devices PROVE Timely(f[e])
      OBVIOUS
    <2>2. Timely(b[e]) /\ Timely(b[d]) /\ b[d] \in Seq(Samples(made))
      BY <1>2, <2>1 DEF SocketInv
    <2>3. Timely(Append(b[d], x))
      BY <1>4, <1>5, <2>1, <2>2, TimelyParts
    <2>4. QED
      BY <1>2, <1>6, <2>2, <2>3
  <1>13. World'
    BY <1>1, <1>4 DEF World, Inner, Outer
  <1>14. SocketInv'
    BY <1>1, <1>4, <1>7, <1>9, <1>10, <1>11, <1>12 DEF SocketInv, OwnNames, Excused
  <1>15. QED
    BY <1>1, <1>13, <1>14

LEMMA SocketReceived ==
    ASSUME World, SocketInv, NEW d \in Devices, SocketReceives(d)
    PROVE  World' /\ SocketInv' /\ kind' = kind
  <1>1. ~stopped /\ UNCHANGED <<kind, stopped, pc, hand, made, sent, lost, session, known, link, events, rpc>>
    BY DEF SocketReceives, life, work, env
  <1>2. PICK b \in [Devices -> Seq(Samples(made))] : b = own.buffer /\ Streams(made, Dropped, Given, queue.convert, b)
    BY DEF SocketInv, Streams
  <1>3. PICK n \in Received(d) : /\ queue' = [queue EXCEPT !.convert = Append(@, SubSeq(b[d], 1, n))]
                                 /\ own' = [own EXCEPT !.buffer[d] = SubSeq(@, n + 1, Len(@))]
    BY <1>2 DEF SocketReceives, Put
  <1>4. PICK s \in Seq(Samples(made)) : s = b[d] /\ s # <<>>
    BY <1>2 DEF SocketReceives
  <1>5. n \in 1..Len(s) /\ (own.tcp \/ n = 1)
    <2>1. Len(s) \in Nat \ {0}
      BY <1>4
    <2>2. n \in IF own.tcp THEN 1..Len(s) ELSE {1}
      BY <1>2, <1>3, <1>4 DEF Received
    <2>3. QED
      BY <2>1, <2>2
  <1>6. PICK c \in Seq(Seq(Samples(made))) : c = queue.convert /\ Train(TRUE, made, Dropped, Given, <<>>, <<>>, c)
    BY DEF SocketInv, Train, Rows
  <1>7. PICK p, r : p = SubSeq(s, 1, n) /\ r = SubSeq(s, n + 1, Len(s))
    OBVIOUS
  <1>8. PICK f : f = [b EXCEPT ![d] = r]
    OBVIOUS
  <1>9. Train(TRUE, made, Dropped, Given, <<>>, <<>>, Append(c, p)) /\ Streams(made, Dropped, Given, Append(c, p), f)
    <2>1. n \in 1..Len(b[d]) /\ made \in Nat /\ p = SubSeq(b[d], 1, n) /\ r = SubSeq(b[d], n + 1, Len(b[d]))
      BY <1>4, <1>5, <1>7 DEF World, Inner
    <2>2. Streams(made, Dropped, Given, c, b)
      BY <1>2, <1>6
    <2>3. /\ Train(TRUE, made, Dropped, Given, <<>>, <<>>, Append(c, SubSeq(b[d], 1, n)))
          /\ Streams(made, Dropped, Given, Append(c, SubSeq(b[d], 1, n)), [b EXCEPT ![d] = SubSeq(b[d], n + 1, Len(b[d]))])
      BY <1>6, <2>1, <2>2, StreamReceived
    <2>4. QED
      BY <1>8, <2>1, <2>3
  <1>10. own'.buffer = f /\ own'.tcp = own.tcp /\ SocketOwn(own')
    <2>1. own' = [own EXCEPT !.buffer = f]
      BY <1>2, <1>3, <1>4, <1>7, <1>8
    <2>2. QED
      BY <2>1 DEF SocketInv, SocketOwn
  <1>11. queue'.convert = Append(c, p) /\ DOMAIN queue' = Queues
    <2>1. DOMAIN queue = Queues /\ "convert" \in Queues
      BY DEF World, Inner, Queues
    <2>2. QED
      BY <1>3, <1>4, <1>6, <1>7, <2>1
  <1>12. /\ p \in Seq(Samples(made)) /\ p # <<>> /\ (own.tcp \/ Len(p) = 1)
         /\ Range(p) \subseteq Range(s) /\ Range(r) \subseteq Range(s)
    <2>1. Len(p) = n /\ n # 0 /\ p \in Seq(Samples(made))
      BY <1>5, <1>7
    <2>2. p # <<>>
      <3>1. Len(<<>>) = 0
        OBVIOUS
      <3>2. QED
        BY <2>1, <3>1
    <2>3. QED
      BY <1>5, <1>7, <2>1, <2>2, PartlyRange
  <1>13. Timely(p) /\ Timely(r)
    <2>1. Timely(s)
      BY <1>1, <1>2, <1>4 DEF SocketInv
    <2>2. QED
      BY <1>12, <2>1, TimelyParts
  <1>14. PICK q : q = Append(c, p)
    OBVIOUS
  <1>15. \A i \in DOMAIN q : (i \in DOMAIN c /\ q[i] = c[i]) \/ q[i] = p
    BY <1>12, <1>14, AppendIs
  <1>16. TimelyRows(q) /\ Chunked(own.tcp, q)
    BY <1>6, <1>12, <1>13, <1>15 DEF SocketInv, TimelyRows, Chunked
  <1>17. \A e \in Devices : Timely(f[e])
    BY <1>1, <1>2, <1>8, <1>13 DEF SocketInv
  <1>18. Given' = Given /\ Dropped' = Dropped
    BY <1>1 DEF Given, Dropped
  <1>19. World'
    BY <1>1, <1>11 DEF World, Inner, Outer
  <1>20. SocketInv'
    BY <1>1, <1>9, <1>10, <1>11, <1>14, <1>16, <1>17, <1>18 DEF SocketInv, OwnNames, Excused
  <1>21. QED
    BY <1>1, <1>19, <1>20

LEMMA SocketBroken ==
    ASSUME World, SocketInv, NEW d \in Devices, SocketBreaks(d)
    PROVE  World' /\ SocketInv' /\ kind' = kind
  <1>1. /\ own.tcp /\ session' = session \ {d} /\ own' = [own EXCEPT !.buffer[d] = <<>>]
        /\ UNCHANGED <<kind, stopped, pc, hand, queue, made, sent, known, link, events, rpc>>
    BY DEF SocketBreaks, life, work, env
  <1>2. PICK b \in [Devices -> Seq(Samples(made))] : b = own.buffer /\ Streams(made, Dropped, Given, queue.convert, b)
    BY DEF SocketInv, Streams
  <1>3. Train(TRUE, made, Dropped, Given, <<>>, <<>>, queue.convert) /\ made \in Nat /\ lost \subseteq Loss(made)
    <2>1. made \in Nat /\ lost \subseteq Loss(made)
      BY DEF World, Inner
    <2>2. QED
      BY <2>1 DEF SocketInv
  <1>4. PICK f : f = [b EXCEPT ![d] = <<>>]
    OBVIOUS
  <1>5. PICK E \in SUBSET Samples(made) :
          /\ E = Range(b[d]) /\ Train(TRUE, made, Dropped \cup E, Given, <<>>, <<>>, queue.convert)
          /\ Streams(made, Dropped \cup E, Given, queue.convert, f)
    BY <1>2, <1>3, <1>4, StreamBroken
  <1>6. PICK why \in Reasons : why = "connection"
    BY DEF Reasons
  <1>7. /\ lost' \subseteq Loss(made) /\ Dropped' = Dropped \cup E
        /\ \A l \in lost' : l \in lost \/ l.why = "connection"
    <2>1. Lose(E, why)
      BY <1>2, <1>5, <1>6 DEF SocketBreaks
    <2>2. /\ lost' \subseteq Loss(made) /\ Dropped' = Dropped \cup E
          /\ \A l \in lost' : l \in lost \/ (l.why = why /\ l.s \in E)
      BY <1>3, <2>1, MoreLost
    <2>3. QED
      BY <1>6, <2>2
  <1>8. own'.buffer = f /\ own'.tcp = own.tcp /\ SocketOwn(own')
    <2>1. own' = [own EXCEPT !.buffer = f]
      BY <1>1, <1>2, <1>4
    <2>2. QED
      BY <2>1 DEF SocketInv, SocketOwn
  <1>9. ~stopped => \A e \in Devices : Timely(f[e])
    <2>1. Timely(<<>>)
      BY TimelyParts
    <2>2. QED
      BY <1>2, <1>4, <2>1 DEF SocketInv
  <1>10. Given' = Given
    BY <1>1 DEF Given
  <1>11. World'
    BY <1>1, <1>7 DEF World, Inner, Outer
  <1>12. Excused(SocketReasons(own.tcp))'
    BY <1>1, <1>7, <1>8 DEF SocketInv, Excused, SocketReasons
  <1>13. SocketInv'
    BY <1>1, <1>5, <1>7, <1>8, <1>9, <1>10, <1>12 DEF SocketInv, OwnNames
  <1>14. QED
    BY <1>1, <1>11, <1>13

LEMMA SocketConverted ==
    ASSUME World, SocketInv, SocketConverts
    PROVE  World' /\ SocketInv' /\ kind' = kind
  <1>1. PICK c \in Seq(Seq(Samples(made))) :
          /\ c = queue.convert /\ c # <<>> /\ Train(TRUE, made, Dropped, Given, <<>>, <<>>, c)
          /\ Streams(made, Dropped, Given, c, own.buffer) /\ Chunked(own.tcp, c) /\ TimelyRows(c)
    BY DEF SocketInv, SocketConverts, Train, Rows
  <1>2. /\ UNCHANGED <<kind, stopped, hand, made, session, own, link, events, rpc>>
        /\ queue' = [queue EXCEPT !.convert = Tail(c)]
        /\ pc' = pc \/ pc' = [pc EXCEPT !.convert = "ended"]
    BY <1>1 DEF SocketConverts, life, env, To
  <1>3. /\ made \in Nat /\ TRUE \in BOOLEAN /\ DOMAIN queue = Queues /\ "convert" \in Queues
        /\ sent \in Seq(Entry(made)) /\ lost \subseteq Loss(made) /\ known \subseteq Names /\ pc' \in [Workers -> PCs]
    <2>1. /\ made \in Nat /\ DOMAIN queue = Queues
          /\ sent \in Seq(Entry(made)) /\ lost \subseteq Loss(made) /\ known \subseteq Names /\ pc \in [Workers -> PCs]
      BY DEF World, Inner
    <2>2. pc' \in [Workers -> PCs]
      BY <1>2, <2>1 DEF PCs
    <2>3. QED
      BY <2>1, <2>2 DEF Queues
  <1>4. PICK s \in Seq(Samples(made)) :
          /\ s = Head(c) /\ s = c[1] /\ 1 \in DOMAIN c /\ s # <<>> /\ Sorted(TRUE, s) /\ Timely(s)
          /\ own.tcp \/ Len(s) = 1
    <2>1. Head(c) = c[1] /\ 1 \in DOMAIN c
      BY <1>1, HeadTailIs
    <2>2. Rows(TRUE, made, Dropped, c)
      BY <1>1 DEF Train
    <2>3. c[1] \in Seq(Samples(made)) /\ Sorted(TRUE, c[1]) /\ c[1] # <<>> /\ (own.tcp \/ Len(c[1]) = 1) /\ Timely(c[1])
      BY <1>1, <2>1, <2>2 DEF Rows, Batch, Chunked, TimelyRows
    <2>4. QED
      BY <2>1, <2>3
  <1>5. PICK x \in Samples(made) : x = Head(s) /\ x \in Range(s)
    BY <1>3, <1>4, SingleHead
  <1>6. PICK u \in Seq(Samples(made)), r \in Seq(Samples(made)) :
          u = <<x>> /\ r = Tail(s) /\ DOMAIN u = {1} /\ u[1] = x /\ Part(u, s) /\ Part(r, s) /\ Behind(TRUE, u, r)
    <2>1. /\ <<x>> \in Seq(Samples(made)) /\ Tail(s) \in Seq(Samples(made))
          /\ Part(<<x>>, s) /\ Part(Tail(s), s) /\ Behind(TRUE, <<x>>, Tail(s))
      BY <1>3, <1>4, <1>5, SingleHead
    <2>2. DOMAIN <<x>> = {1} /\ <<x>>[1] = x
      OBVIOUS
    <2>3. QED
      BY <2>1, <2>2
  <1>7. PICK t \in Seq(Samples(made)) :
          /\ t = Good(u) /\ Part(t, u) /\ Part(t, s) /\ (\A y \in Range(t) : y \in Range(u))
          /\ Bad(u) \cap Range(t) = {}
    <2>1. PICK t \in Seq(Samples(made)) :
            /\ t = Good(u) /\ Part(t, u) /\ (\A y \in Range(t) : y \in Range(u)) /\ Bad(u) \cap Range(t) = {}
      BY <1>3, GoodOnes
    <2>2. Part(t, s)
      BY <1>6, <2>1, PartOfPart
    <2>3. QED
      BY <2>1, <2>2
  <1>8. PICK E \in SUBSET Samples(made), F \in SUBSET Samples(made) :
          /\ E = Bad(u) /\ F = Range(r) /\ E \subseteq Range(s) /\ F \subseteq Range(s) /\ \A y \in E : y.bad
    <2>1. Bad(u) \subseteq Range(u) /\ Bad(u) \subseteq Samples(made) /\ \A y \in Bad(u) : y.bad
      BY <1>3, GoodOnes
    <2>2. Range(r) \in SUBSET Samples(made) /\ \A y \in Range(u) : y = x
      BY <1>6 DEF Range
    <2>3. Range(r) \subseteq Range(s)
      <3>1. PICK f \in [DOMAIN r -> DOMAIN s] : \A k \in DOMAIN r : r[k] = s[f[k]]
        BY <1>6 DEF Part
      <3>2. QED
        BY <3>1 DEF Range
    <2>4. QED
      BY <1>5, <2>1, <2>2, <2>3
  <1>9. (E \cup F) \cap Range(t) = {}
    <2>1. \A y \in Range(r) : y.n # x.n
      <3>1. \A j \in DOMAIN r : Earlier(TRUE, x, r[j])
        BY <1>6 DEF Behind
      <3>2. QED
        BY <3>1 DEF Earlier, Range
    <2>2. \A y \in Range(u) : y = x
      BY <1>6 DEF Range
    <2>3. QED
      BY <1>7, <1>8, <2>1, <2>2
  <1>10. /\ Deliver(Own(t))
         /\ lost' = lost \cup {[s |-> y, why |-> "converter"] : y \in E} \cup {[s |-> y, why |-> "merged"] : y \in F}
    BY <1>1, <1>4, <1>5, <1>6, <1>7, <1>8 DEF SocketConverts
  <1>11. sent' \in Seq(Entry(made)) /\ Given' = Given \o t /\ known' \subseteq Names /\ OwnNames'
    BY <1>3, <1>10, OwnGiven DEF SocketInv
  <1>12. /\ lost' \subseteq Loss(made) /\ Dropped' = Dropped \cup (E \cup F)
         /\ \A l \in lost' : \/ l \in lost \/ (l.why = "converter" /\ l.s.bad) \/ (l.why = "merged" /\ l.s \in F)
    <2>1. lost' \subseteq Loss(made)
      BY <1>3, <1>10 DEF Loss, Reasons
    <2>2. \A l \in lost' : \/ l \in lost \/ (l.why = "converter" /\ l.s \in E) \/ (l.why = "merged" /\ l.s \in F)
      BY <1>10
    <2>3. ASSUME NEW y \in E PROVE \E l \in lost' : l.s = y
      <3>1. [s |-> y, why |-> "converter"] \in lost' /\ [s |-> y, why |-> "converter"].s = y
        BY <1>10
      <3>2. QED
        BY <3>1
    <2>4. ASSUME NEW y \in F PROVE \E l \in lost' : l.s = y
      <3>1. [s |-> y, why |-> "merged"] \in lost' /\ [s |-> y, why |-> "merged"].s = y
        BY <1>10
      <3>2. QED
        BY <3>1
    <2>5. \A y \in Dropped' : y \in Dropped \cup (E \cup F)
      BY <2>2 DEF Dropped
    <2>6. \A y \in Dropped \cup (E \cup F) : y \in Dropped'
      BY <1>10, <2>3, <2>4 DEF Dropped
    <2>7. QED
      BY <1>8, <2>1, <2>2, <2>5, <2>6
  <1>13. PICK D : D = E \cup F /\ D \subseteq Range(s)
    BY <1>8
  <1>14. /\ Train(TRUE, made, Dropped \cup D, Given \o t, <<>>, <<>>, Tail(c))
         /\ Streams(made, Dropped \cup D, Given \o t, Tail(c), own.buffer)
    <2>1. Part(t, Head(c)) /\ D \subseteq Range(Head(c)) /\ D \cap Range(t) = {}
      BY <1>4, <1>7, <1>9, <1>13
    <2>2. QED
      BY <1>1, <1>3, <2>1, StreamGiven
  <1>15. queue'.convert = Tail(c) /\ DOMAIN queue' = Queues
    BY <1>2, <1>3
  <1>16. PICK q \in Seq(Seq(Samples(made))) :
           q = Tail(c) /\ \A k \in DOMAIN q : \E l \in DOMAIN c : q[k] = c[l]
    <2>1. PICK q \in Seq(Seq(Samples(made))) : q = Tail(c) /\ Keeps(q, c, 1, s)
      BY <1>1, <1>4, WhatIsKept
    <2>2. \A k \in DOMAIN q : \E l \in DOMAIN c : q[k] = c[l]
      <3>1. PICK f \in [DOMAIN q -> DOMAIN c] : \A k \in DOMAIN q : q[k] = IF f[k] = 1 THEN s ELSE c[f[k]]
        BY <2>1 DEF Keeps
      <3>2. s = c[1] /\ 1 \in DOMAIN c
        BY <1>1, <1>4
      <3>3. QED
        BY <3>1, <3>2
    <2>3. QED
      BY <2>1, <2>2
  <1>17. TimelyRows(Tail(c)) /\ Chunked(own.tcp, Tail(c))
    <2>1. TimelyRows(q)
      BY <1>1, <1>16 DEF TimelyRows
    <2>2. Chunked(own.tcp, q)
      <3>1. ASSUME NEW k \in DOMAIN q PROVE q[k] # <<>> /\ (own.tcp \/ Len(q[k]) = 1)
        <4>1. PICK l \in DOMAIN c : q[k] = c[l]
          BY <1>16
        <4>2. c[l] # <<>> /\ (own.tcp \/ Len(c[l]) = 1)
          BY <1>1 DEF Chunked
        <4>3. QED
          BY <4>1, <4>2
      <3>2. QED
        BY <3>1 DEF Chunked
    <2>3. QED
      BY <1>16, <2>1, <2>2
  <1>18. Timely(Given')
    <2>1. Timely(Given) /\ Given \in Seq(Samples(made))
      BY <1>1 DEF SocketInv, Train, Batch
    <2>2. Timely(t)
      <3>4. \A y \in Range(u) : y = x
        BY <1>6 DEF Range
      <3>1. \A y \in Range(t) : y = x
        BY <1>7, <3>4
      <3>2. ~x.late
        BY <1>4, <1>5, TimelyParts
      <3>3. QED
        BY <3>1, <3>2, TimelyParts
    <2>3. QED
      BY <1>3, <1>11, <2>1, <2>2, TimelyParts
  <1>19. own.tcp \/ F = {}
    <2>1. Len(s) = 1 => F = {}
      <3>1. SUFFICES ASSUME Len(s) = 1 PROVE F = {}
        OBVIOUS
      <3>2. DOMAIN Tail(s) = 1..0
        <4>1. DOMAIN Tail(s) = 1..Len(s) - 1
          BY <1>4, TailIs
        <4>2. Len(s) - 1 = 0
          BY <3>1
        <4>3. QED
          BY <4>1, <4>2
      <3>3. DOMAIN r = {}
        BY <1>6, <3>2
      <3>4. QED
        BY <1>8, <3>3 DEF Range
    <2>2. QED
      BY <1>4, <2>1
  <1>20. Excused(SocketReasons(own.tcp))'
    BY <1>2, <1>12, <1>19 DEF SocketInv, Excused, SocketReasons
  <1>21. World'
    BY <1>2, <1>3, <1>11, <1>12, <1>15 DEF World, Inner, Outer
  <1>22. SocketInv'
    BY <1>2, <1>11, <1>12, <1>13, <1>14, <1>15, <1>17, <1>18, <1>20 DEF SocketInv
  <1>23. QED
    BY <1>2, <1>21, <1>22

LEMMA SocketKeeps ==
    ASSUME World, SocketInv, SocketStep
    PROVE  World' /\ SocketInv' /\ kind' = kind
  <1> DEFINE w == "save"
  <1>1. w \in {"main", "save"} /\ w \in Workers /\ "main" \in Workers /\ "convert" \in Workers
    BY DEF Workers
  <1>2. ASSUME NEW v \in Workers, NEW at, "busy" \notin at, Ends(v, at) PROVE World' /\ SocketInv' /\ kind' = kind
    <2>1. Resting(w) /\ own' = own
      BY <1>1, <1>2, EndsRests
    <2>2. QED
      BY <2>1, SocketRests
  <1>3. CASE SocketBinds
    <2>1. Resting(w) /\ own' = own
      <3>1. /\ UNCHANGED <<kind, stopped, hand, queue, made, sent, lost, session, known, own, link, events, rpc>>
            /\ pc' = [pc EXCEPT !.main = "loop"] /\ pc["main"] = "idle"
        BY <1>3 DEF SocketBinds, life, data, conn, env, To, At
      <3>2. pc' \in [Workers -> PCs] /\ pc'["save"] = pc["save"]
        BY <1>1, <3>1 DEF World, Inner, PCs
      <3>3. QED
        BY <3>1, <3>2 DEF Resting, World, Inner, Outer
    <2>2. QED
      BY <2>1, SocketRests
  <1>4. CASE \E d \in Devices : SocketAccepts(d)
    <2>1. PICK d \in Devices : SocketAccepts(d)
      BY <1>4
    <2>2. Resting(w) /\ own' = own
      BY <2>1 DEF SocketAccepts, Resting, life, work, data, env, World, Inner, Outer
    <2>3. QED
      BY <2>2, SocketRests
  <1>5. CASE SocketClose
    <2>1. Resting(w) /\ own' = own
      BY <1>5 DEF SocketClose, Resting, work, data, conn, env, World, Inner, Outer
    <2>2. QED
      BY <2>1, SocketRests
  <1>6. CASE SocketHandler
    <2>1. \A o \in SocketRpc(rpc.st) : Replied(o)
      BY Returned DEF SocketRpc
    <2>2. Resting(w) /\ own' = own
      BY <1>1, <1>6, <2>1, HandlerRests DEF SocketHandler
    <2>3. QED
      BY <2>2, SocketRests
  <1>7. CASE SocketMain
    <2>1. CASE Ends("main", {"idle", "loop"})
      BY <1>1, <1>2, <2>1
    <2>2. QED
      BY <1>3, <1>7, <2>1 DEF SocketMain
  <1>8. CASE SocketConvert
    <2>1. CASE Ends("convert", {"idle"})
      BY <1>1, <1>2, <2>1
    <2>2. QED
      BY <1>8, <2>1, SocketConverted DEF SocketConvert
  <1>9. CASE \E d \in Devices : SocketDevice(d)
    BY <1>4, <1>9, SocketReceived, SocketBroken DEF SocketDevice
  <1>10. CASE \E d \in Devices : SocketField(d)
    BY <1>10, SocketSentOne DEF SocketField
  <1>11. QED
    BY <1>5, <1>6, <1>7, <1>8, <1>9, <1>10 DEF SocketStep, SocketGateway

-----------------------------------------------------------------------------
(* All connectors                                                          *)

KindStep ==
    \/ ModbusStep \/ UaStep \/ BacStep \/ S7Step \/ SnmpStep \/ OdbcStep \/ RequestStep \/ FtpStep
    \/ BleStep \/ CanStep \/ MqttStep \/ RestStep \/ SocketStep \/ XmppStep \/ OcppStep \/ KnxStep

LEMMA StepIs ==
    ASSUME Next
    PROVE  EnvStep \/ KindStep
  <1>1. CASE Main
    BY <1>1
       DEF Main, KindStep, ModbusStep, UaStep, BacStep, S7Step, SnmpStep, OdbcStep, RequestStep,
           FtpStep, BleStep, CanStep, MqttStep, RestStep, SocketStep, XmppStep, OcppStep, KnxStep
  <1>2. CASE Convert
    BY <1>2
       DEF Convert, KindStep, ModbusStep, UaStep, BacStep, S7Step, MqttStep, SocketStep, XmppStep,
           OcppStep, KnxStep
  <1>3. CASE Save
    BY <1>3
       DEF Save, KindStep, ModbusStep, UaStep, BacStep, S7Step, BleStep, MqttStep, XmppStep,
           OcppStep, KnxStep
  <1>4. CASE Aside
    BY <1>4
       DEF Aside, KindStep, UaStep, BacStep, CanStep, MqttStep
  <1>5. CASE Outside
    BY <1>5
       DEF Outside, KindStep, BacStep, RestStep
  <1>6. CASE Gateway
    BY <1>6
       DEF Gateway, KindStep, ModbusStep, UaStep, BacStep, S7Step, SnmpStep, OdbcStep, RequestStep,
           FtpStep, BleStep, CanStep, MqttStep, RestStep, SocketStep, XmppStep, OcppStep, KnxStep
  <1>7. CASE Handler
    BY <1>7
       DEF Handler, KindStep, ModbusStep, UaStep, BacStep, S7Step, SnmpStep, OdbcStep, RequestStep,
           FtpStep, BleStep, CanStep, MqttStep, RestStep, SocketStep, XmppStep, OcppStep, KnxStep
  <1>8. CASE \E i \in 1..MaxSamples + MaxPending : Task(i)
    BY <1>8 DEF Task, KindStep, UaStep, MqttStep
  <1>9. CASE \E d \in Devices : Device(d) \/ Timer(d) \/ Field(d)
    <2>1. PICK d \in Devices : Device(d) \/ Timer(d) \/ Field(d)
      BY <1>9
    <2>2. CASE Device(d)
      BY <2>2
         DEF Device, KindStep, ModbusStep, BacStep, S7Step, RequestStep, BleStep, SocketStep,
             OcppStep, KnxStep
    <2>3. CASE Timer(d)
      BY <2>3
         DEF Timer, KindStep, ModbusStep, RequestStep
    <2>4. CASE Field(d)
      BY <2>4
         DEF Field, KindStep, UaStep, OdbcStep, FtpStep, BleStep, CanStep, MqttStep, RestStep,
             SocketStep, XmppStep, OcppStep
    <2>5. QED
      BY <2>1, <2>2, <2>3, <2>4
  <1>10. (\E ds : LinkChanges(ds)) => EnvStep
    BY DEF EnvStep
  <1>11. QED
    <2>1. \/ Main \/ Convert \/ Save \/ Aside \/ Outside \/ Gateway \/ Handler
          \/ \E i \in 1..MaxSamples + MaxPending : Task(i)
          \/ \E d \in Devices : Device(d) \/ Timer(d) \/ Field(d)
          \/ kind \in OneServer /\ LinkChanges(Devices)
          \/ kind \notin OneServer /\ (\E d \in Devices : LinkChanges({d}))
          \/ RpcCalled \/ UpdateCalled
      BY DEF Next
    <2>2. CASE Main \/ Convert \/ Save \/ Aside \/ Outside \/ Gateway \/ Handler
      BY <1>1, <1>2, <1>3, <1>4, <1>5, <1>6, <1>7, <2>2
    <2>3. CASE \E i \in 1..MaxSamples + MaxPending : Task(i)
      BY <1>8, <2>3
    <2>4. CASE \E d \in Devices : Device(d) \/ Timer(d) \/ Field(d)
      BY <1>9, <2>4
    <2>5. CASE kind \in OneServer /\ LinkChanges(Devices)
      BY <1>10, <2>5
    <2>6. CASE kind \notin OneServer /\ \E d \in Devices : LinkChanges({d})
      BY <1>10, <2>6
    <2>7. CASE RpcCalled \/ UpdateCalled
      BY <2>7 DEF EnvStep
    <2>8. QED
      BY <2>1, <2>2, <2>3, <2>4, <2>5, <2>6, <2>7

LEMMA StepOf ==
    /\ ModbusStep => kind = "modbus"
    /\ UaStep => kind = "opcua"
    /\ BacStep => kind = "bacnet"
    /\ S7Step => kind = "s7"
    /\ SnmpStep => kind = "snmp"
    /\ OdbcStep => kind = "odbc"
    /\ RequestStep => kind = "request"
    /\ FtpStep => kind = "ftp"
    /\ BleStep => kind = "ble"
    /\ CanStep => kind = "can"
    /\ MqttStep => kind = "mqtt"
    /\ RestStep => kind = "rest"
    /\ SocketStep => kind = "socket"
    /\ XmppStep => kind = "xmpp"
    /\ OcppStep => kind = "ocpp"
    /\ KnxStep => kind = "knx"
  <1>1. ModbusStep => kind = "modbus"
    BY DEF IsModbus, ModbusStep, ModbusMain, ModbusConvert, ModbusSave, ModbusDevice, ModbusTimer,
           ModbusHandler, ModbusGateway
  <1>2. UaStep => kind = "opcua"
    BY DEF IsOpcUa, UaStep, UaMain, UaConvert, UaSave, UaAside, UaTask, UaField, UaHandler,
           UaGateway
  <1>3. BacStep => kind = "bacnet"
    BY DEF IsBacnet, BacStep, BacMain, BacConvert, BacSave, BacAside, BacDevice, BacOutside,
           BacHandler, BacGateway
  <1>4. S7Step => kind = "s7"
    BY DEF IsS7, S7Step, S7Main, S7Convert, S7Save, S7Device, S7Handler, S7Gateway
  <1>5. SnmpStep => kind = "snmp"
    BY DEF IsSnmp, SnmpStep, SnmpMain, SnmpHandler, SnmpGateway
  <1>6. OdbcStep => kind = "odbc"
    BY DEF IsOdbc, OdbcStep, OdbcMain, OdbcField, OdbcHandler, OdbcGateway
  <1>7. RequestStep => kind = "request"
    BY DEF IsRequest, RequestStep, RequestMain, RequestDevice, RequestTimer, RequestHandler,
           RequestGateway
  <1>8. FtpStep => kind = "ftp"
    BY DEF IsFtp, FtpStep, FtpMain, FtpField, FtpHandler, FtpGateway
  <1>9. BleStep => kind = "ble"
    BY DEF IsBle, BleStep, BleMain, BleSave, BleDevice, BleField, BleHandler, BleGateway
  <1>10. CanStep => kind = "can"
    BY DEF IsCan, CanStep, CanMain, CanAside, CanField, CanHandler, CanGateway
  <1>11. MqttStep => kind = "mqtt"
    BY DEF IsMqtt, MqttStep, MqttMain, MqttConvert, MqttSave, MqttAside, MqttTask, MqttField,
           MqttHandler, MqttGateway
  <1>12. RestStep => kind = "rest"
    BY DEF IsRest, RestStep, RestMain, RestField, RestOutside, RestHandler, RestGateway
  <1>13. SocketStep => kind = "socket"
    BY DEF IsSocket, SocketStep, SocketMain, SocketConvert, SocketDevice, SocketField,
           SocketHandler, SocketGateway
  <1>14. XmppStep => kind = "xmpp"
    BY DEF IsXmpp, XmppStep, XmppMain, XmppConvert, XmppSave, XmppField, XmppHandler, XmppGateway
  <1>15. OcppStep => kind = "ocpp"
    BY DEF IsOcpp, OcppStep, OcppMain, OcppConvert, OcppSave, OcppDevice, OcppField, OcppHandler,
           OcppGateway
  <1>16. KnxStep => kind = "knx"
    BY DEF IsKnx, KnxStep, KnxMain, KnxConvert, KnxSave, KnxDevice, KnxHandler, KnxGateway
  <1>17. QED
    BY <1>1, <1>2, <1>3, <1>4, <1>5, <1>6, <1>7, <1>8, <1>9, <1>10, <1>11, <1>12, <1>13, <1>14,
       <1>15, <1>16

\* The state of the connector at hand.
KindInv ==
    /\ kind \in {"modbus", "opcua", "bacnet", "s7", "snmp", "odbc", "request", "ftp", "ble", "can",
                 "mqtt", "rest", "socket", "xmpp", "ocpp", "knx"}
    /\ kind = "modbus" => ModbusInv
    /\ kind = "opcua" => UaInv
    /\ kind = "bacnet" => BacInv
    /\ kind = "s7" => S7Inv
    /\ kind = "snmp" => SnmpInv
    /\ kind = "odbc" => OdbcInv
    /\ kind = "request" => RequestInv
    /\ kind = "ftp" => FtpInv
    /\ kind = "ble" => BleInv
    /\ kind = "can" => CanInv
    /\ kind = "mqtt" => MqttInv
    /\ kind = "rest" => RestInv
    /\ kind = "socket" => SocketInv
    /\ kind = "xmpp" => XmppInv
    /\ kind = "ocpp" => OcppInv
    /\ kind = "knx" => KnxInv
IInv == World /\ KindInv

LEMMA EnvKeeps ==
    ASSUME UNCHANGED <<kind, stopped, pc, hand, queue, made, sent, lost, own>>
    PROVE  KindInv => KindInv'
  <1>1. Given' = Given /\ Dropped' = Dropped /\ OwnNames' = OwnNames /\ Unconverted' = Unconverted /\ BatchBad' = BatchBad
    BY DEF Given, Dropped, OwnNames, Unconverted, BatchBad
  <1>2. \A w : LineInv(w)' = LineInv(w) /\ TimelyInv(w)' = TimelyInv(w) /\ \A o, X : LineOf(o, X, w)' = LineOf(o, X, w)
    BY <1>1 DEF LineInv, TimelyInv, LineOf
  <1>3. \A R : Excused(R)' = Excused(R)
    BY DEF Excused
  <1>4. \A w, R : LinedUp(w, R)' = LinedUp(w, R)
    BY <1>1, <1>2, <1>3 DEF LinedUp
  <1>5. AtOnce' = AtOnce
    BY <1>1, <1>2 DEF AtOnce
  <1>6. ModbusInv => ModbusInv'
    BY <1>1, <1>2, <1>3, <1>4, <1>5 DEF ModbusInv
  <1>7. UaInv => UaInv'
    BY <1>1, <1>2, <1>3, <1>4, <1>5 DEF UaInv, UaSubscribes, UaPolling
  <1>8. BacInv => BacInv'
    BY <1>1, <1>2, <1>3, <1>4, <1>5 DEF BacInv
  <1>9. S7Inv => S7Inv'
    BY <1>1, <1>2, <1>3, <1>4, <1>5 DEF S7Inv
  <1>10. SnmpInv => SnmpInv'
    BY <1>1, <1>2, <1>3, <1>4, <1>5 DEF SnmpInv
  <1>11. OdbcInv => OdbcInv'
    BY <1>1, <1>2, <1>3, <1>4, <1>5 DEF OdbcInv
  <1>12. RequestInv => RequestInv'
    BY <1>1, <1>2, <1>3, <1>4, <1>5 DEF RequestInv
  <1>13. FtpInv => FtpInv'
    BY <1>1, <1>2, <1>3, <1>4, <1>5 DEF FtpInv
  <1>14. BleInv => BleInv'
    BY <1>1, <1>2, <1>3, <1>4, <1>5 DEF BleInv
  <1>15. CanInv => CanInv'
    BY <1>1, <1>2, <1>3, <1>4, <1>5 DEF CanInv
  <1>16. MqttInv => MqttInv'
    BY <1>1, <1>2, <1>3, <1>4, <1>5 DEF MqttInv
  <1>17. RestInv => RestInv'
    BY <1>1, <1>2, <1>3, <1>4, <1>5 DEF RestInv
  <1>18. SocketInv => SocketInv'
    BY <1>1, <1>2, <1>3, <1>4, <1>5 DEF SocketInv
  <1>19. XmppInv => XmppInv'
    BY <1>1, <1>2, <1>3, <1>4, <1>5 DEF XmppInv
  <1>20. OcppInv => OcppInv'
    BY <1>1, <1>2, <1>3, <1>4, <1>5 DEF OcppInv
  <1>21. KnxInv => KnxInv'
    BY <1>1, <1>2, <1>3, <1>4, <1>5 DEF KnxInv
  <1>22. QED
    BY <1>6, <1>7, <1>8, <1>9, <1>10, <1>11, <1>12, <1>13, <1>14, <1>15, <1>16, <1>17, <1>18,
       <1>19, <1>20, <1>21 DEF KindInv

LEMMA FirstTrain ==
    ASSUME NEW o, NEW m \in Nat
    PROVE  Train(o, m, {}, <<>>, <<>>, <<>>, <<>>)
  <1>1. DOMAIN <<>> = {} /\ <<>> \in Seq(Samples(m)) /\ <<>> \in Seq(Seq(Samples(m)))
    <2>1. DOMAIN <<>> = {}
      OBVIOUS
    <2>2. <<>> \in Seq(Seq(Samples(m)))
      OBVIOUS
    <2>3. QED
      BY <2>1, <2>2, EmptyIs
  <1>2. Batch(o, m, {}, <<>>) /\ Rows(o, m, {}, <<>>)
    BY <1>1 DEF Batch, Rows, Sorted, Gone
  <1>3. Heads(o, <<>>, <<>>) /\ Trails(o, <<>>, <<>>) /\ Ahead(o, <<>>, <<>>) /\ Behind(o, <<>>, <<>>)
    BY <1>1 DEF Heads, Trails, Ahead, Behind
  <1>4. QED
    BY <1>2, <1>3 DEF Train

LEMMA FirstTable ==
    ASSUME NEW m \in Nat
    PROVE  Table(m, <<>>, <<>>, <<>>, 0, <<>>, {})
  <1>1. DOMAIN <<>> = {} /\ <<>> \in Seq(Samples(m))
    <2>1. DOMAIN <<>> = {}
      OBVIOUS
    <2>2. QED
      BY <2>1, EmptyIs
  <1>2. Range(<<>>) = {}
    BY <1>1 DEF Range
  <1>3. Rising(<<>>) /\ Pass(<<>>, <<>>, <<>>, 0) /\ Through(<<>>, <<>>, 0) /\ Saved(m, <<>>, <<>>, <<>>)
        /\ Resent(<<>>, 0, {})
    BY <1>1, <1>2 DEF Rising, Pass, Through, Saved, Resent
  <1>4. 0 \in 0..m
    OBVIOUS
  <1>5. QED
    BY <1>1, <1>2, <1>3, <1>4 DEF Table

LEMMA FirstFiles ==
    ASSUME NEW m \in Nat, NEW l, NEW s, DOMAIN l = Devices, DOMAIN s = Devices,
           \A d \in Devices : l[d] = <<>> /\ s[d] = 0
    PROVE  Files(m, l, s, <<>>, {})
  <1>1. DOMAIN <<>> = {} /\ <<>> \in Seq(Samples(m)) /\ Len(<<>>) = 0
    <2>1. DOMAIN <<>> = {} /\ Len(<<>>) = 0
      OBVIOUS
    <2>2. QED
      BY <2>1, EmptyIs
  <1>2. ASSUME NEW d \in Devices PROVE FileOf(m, d, <<>>) /\ SeenOf(d, <<>>, 0, <<>>, {})
    <2>1. 0 \in 0..Len(<<>>)
      BY <1>1
    <2>2. QED
      BY <1>1, <2>1 DEF FileOf, SeenOf, Rising
  <1>3. Reread(<<>>, {})
    BY <1>1 DEF Reread
  <1>4. QED
    BY <1>1, <1>2, <1>3 DEF Files

(* In the beginning.                                                        *)
LEMMA Begins ==
    ASSUME kind \in Kinds, NEW k, NEW ws \in SUBSET Workers, FieldInit(k, ws)
    PROVE  /\ World /\ kind = k /\ made \in Nat /\ Given = <<>> /\ Dropped = {} /\ sent = <<>> /\ lost = {}
           /\ hand.main = <<>> /\ hand.save = <<>> /\ queue.poll = <<>> /\ queue.convert = <<>> /\ queue.save = <<>>
           /\ LineInv("save") /\ TimelyInv("save") /\ OwnNames /\ Unconverted /\ BatchBad
           /\ \A R : Excused(R) /\ LinedUp("main", R) /\ LinedUp("save", R)
           /\ AtOnce /\ pc.save # "busy"
  <1>1. k \in Kinds
    BY DEF FieldInit
  <1>2. PICK v \in {"main", "save"}, w \in {"main", "save"} : v = "main" /\ w = "save"
    OBVIOUS
  <1>3. /\ World /\ kind = k /\ queue = [q \in Queues |-> <<>>] /\ hand = [u \in Workers |-> <<>>]
        /\ sent = <<>> /\ lost = {} /\ OwnNames /\ Unconverted
        /\ LineInv("save") /\ TimelyInv("save") /\ LineInv("main") /\ TimelyInv("main")
    BY <1>1, <1>2, AtFirst
  <1>4. /\ hand.main = <<>> /\ hand.save = <<>> /\ queue.poll = <<>> /\ queue.convert = <<>> /\ queue.save = <<>>
    BY <1>3 DEF Queues, Workers
  <1>5. Given = <<>> /\ Dropped = {} /\ made \in Nat
    BY <1>3 DEF Given, Dropped, World, Inner
  <1>6. BatchBad /\ \A R : Excused(R)
    BY <1>3 DEF BatchBad, Excused
  <1>7. pc.save # "busy"
    <2>1. pc = [u \in Workers |-> IF u \in ws THEN "idle" ELSE "ended"] /\ "save" \in Workers
      BY DEF FieldInit, Workers
    <2>2. QED
      BY <2>1
  <1>8. QED
    BY <1>3, <1>4, <1>5, <1>6, <1>7 DEF LinedUp, AtOnce

LEMMA ManyBegin ==
    ASSUME kind \in Kinds
    PROVE  /\ ModbusInit => World /\ kind = "modbus" /\ ModbusInv
           /\ BacInit => World /\ kind = "bacnet" /\ BacInv
           /\ S7Init => World /\ kind = "s7" /\ S7Inv
           /\ SnmpInit => World /\ kind = "snmp" /\ SnmpInv
           /\ BleInit => World /\ kind = "ble" /\ BleInv
           /\ CanInit => World /\ kind = "can" /\ CanInv
           /\ XmppInit => World /\ kind = "xmpp" /\ XmppInv
           /\ OcppInit => World /\ kind = "ocpp" /\ OcppInv
           /\ KnxInit => World /\ kind = "knx" /\ KnxInv
           /\ RestInit => World /\ kind = "rest" /\ RestInv
  <1>1. \A D : <<>> \in Seq(D)
    OBVIOUS
  <1>2. \A ws \in {{"main"}, {"main", "save"}, {"main", "convert"}, Workers} : ws \in SUBSET Workers
    BY DEF Workers
  <1>3. ModbusInit => World /\ kind = "modbus" /\ ModbusInv
    BY <1>2, Begins DEF ModbusInit, ModbusInv
  <1>4. BacInit => World /\ kind = "bacnet" /\ BacInv
    <2>1. SUFFICES ASSUME BacInit PROVE World /\ kind = "bacnet" /\ BacInv
      OBVIOUS
    <2>2. own = [gathered |-> FALSE, confirms |-> TRUE, heard |-> <<>>, adding |-> "none",
                 at |-> "none", added |-> {}, objects |-> {}, failed |-> {}, barren |-> {}, reading |-> {}]
      BY <2>1 DEF BacInit
    <2>3. DOMAIN own = {"gathered", "confirms", "heard", "adding", "at", "added", "objects", "failed",
                        "barren", "reading"} /\ own.heard = <<>> /\ own.at = "none"
      BY <2>2
    <2>4. BacOwn(own)
      BY <1>1, <2>3 DEF BacOwn
    <2>5. QED
      BY <1>2, <2>1, <2>4, Begins DEF BacInit, BacInv
  <1>5. S7Init => World /\ kind = "s7" /\ S7Inv
    BY <1>1, <1>2, Begins DEF S7Init, S7Inv
  <1>6. SnmpInit => World /\ kind = "snmp" /\ SnmpInv
    BY <1>1, <1>2, Begins DEF SnmpInit, SnmpInv
  <1>7. BleInit => World /\ kind = "ble" /\ BleInv
    BY <1>2, Begins DEF BleInit, BleInv
  <1>8. CanInit => World /\ kind = "can" /\ CanInv
    BY <1>2, Begins DEF CanInit, CanInv
  <1>9. XmppInit => World /\ kind = "xmpp" /\ XmppInv
    BY <1>2, Begins DEF XmppInit, XmppInv
  <1>10. OcppInit => World /\ kind = "ocpp" /\ OcppInv
    <2>1. SUFFICES ASSUME OcppInit PROVE World /\ kind = "ocpp" /\ OcppInv
      OBVIOUS
    <2>2. DOMAIN own = {"booted", "stale", "nameless", "ends"} /\ own.stale = {}
      BY <2>1 DEF OcppInit
    <2>3. DOMAIN <<>> = {}
      OBVIOUS
    <2>4. QED
      BY <1>2, <2>1, <2>2, <2>3, Begins DEF OcppInit, OcppInv
  <1>11. KnxInit => World /\ kind = "knx" /\ KnxInv
    BY <1>1, <1>2, Begins DEF KnxInit, KnxInv
  <1>12. RestInit => World /\ kind = "rest" /\ RestInv
    <2>1. SUFFICES ASSUME RestInit PROVE World /\ kind = "rest" /\ RestInv
      OBVIOUS
    <2>2. /\ DOMAIN own = RestFields /\ own.waits = <<>> /\ own.asked = {} /\ own.answers = <<>>
          /\ own.answered = {} /\ own.overdue = {}
      BY <2>1 DEF RestInit, RestFields
    <2>3. QED
      BY <1>2, <2>1, <2>2, Begins, RestBeginning DEF RestInit, RestInv
  <1>13. QED
    BY <1>3, <1>4, <1>5, <1>6, <1>7, <1>8, <1>9, <1>10, <1>11, <1>12

LEMMA NothingTimely ==
    ASSUME TRUE
    PROVE  Timely(<<>>) /\ TimelyRows(<<>>)
  <1>1. DOMAIN <<>> = {}
    OBVIOUS
  <1>2. QED
    BY <1>1 DEF Timely, TimelyRows

LEMMA UaOpens ==
    ASSUME kind \in Kinds, UaInit
    PROVE  World /\ kind = "opcua" /\ UaInv
  <1>1. /\ World /\ kind = "opcua" /\ made \in Nat /\ Given = <<>> /\ Dropped = {} /\ hand.save = <<>>
        /\ queue.convert = <<>> /\ queue.save = <<>> /\ pc.save # "busy"
        /\ \A R : Excused(R) /\ LinedUp("save", R)
    <2>1. FieldInit("opcua", Workers) /\ Workers \in SUBSET Workers
      BY DEF UaInit
    <2>2. QED
      BY <2>1, Begins
  <1>2. UaOwn(own)
    <2>1. \A S : <<>> \in Seq(S)
      OBVIOUS
    <2>2. /\ DOMAIN own = {"subs", "recreate", "connected", "nodes", "loaded", "cache"}
          /\ own.nodes = <<>> /\ own.subs \in BOOLEAN
      BY DEF UaInit
    <2>3. QED
      BY <2>1, <2>2 DEF UaOwn
  <1>3. UaSubscribes
    BY <1>1 DEF UaSubscribes
  <1>4. UaPolling
    BY <1>1, FirstTrain, NothingTimely DEF UaPolling
  <1>5. QED
    BY <1>1, <1>2, <1>3, <1>4 DEF UaInv

LEMMA MqttOpens ==
    ASSUME kind \in Kinds, MqttInit
    PROVE  World /\ kind = "mqtt" /\ MqttInv
  <1>1. /\ World /\ kind = "mqtt" /\ made \in Nat /\ Given = <<>> /\ Dropped = {} /\ hand.save = <<>>
        /\ queue.convert = <<>> /\ queue.poll = <<>> /\ OwnNames /\ BatchBad
        /\ \A R : Excused(R)
    <2>1. FieldInit("mqtt", Workers) /\ Workers \in SUBSET Workers
      BY DEF MqttInit
    <2>2. QED
      BY <2>1, Begins
  <1>2. DOMAIN <<>> = {} /\ Len(<<>>) = 0 /\ \A S : <<>> \in Seq(S)
    <2>1. DOMAIN <<>> = {} /\ Len(<<>>) = 0
      OBVIOUS
    <2>2. QED
      BY <2>1
  <1>3. MqttPool(own, <<>>)
    <2>1. /\ DOMAIN own = {"connected", "mapped", "filling", "workers", "grown", "capacity"}
          /\ own.grown = FALSE /\ own.workers = 0
      BY DEF MqttInit
    <2>2. 0 \in Nat /\ 0 <= 1
      OBVIOUS
    <2>3. QED
      BY <1>2, <2>1, <2>2 DEF MqttPool
  <1>4. Texts(<<>>) = <<>> /\ Filled(<<>>)
    BY <1>2 DEF Texts, Filled
  <1>5. Train(~own.grown, made, Dropped, Given, hand.save, queue.convert, Texts(queue.poll))
    BY <1>1, <1>4, FirstTrain
  <1>6. QED
    BY <1>1, <1>2, <1>3, <1>4, <1>5, NothingTimely DEF MqttInv

LEMMA SocketOpens ==
    ASSUME kind \in Kinds, SocketInit
    PROVE  World /\ kind = "socket" /\ SocketInv
  <1>1. /\ World /\ kind = "socket" /\ made \in Nat /\ Given = <<>> /\ Dropped = {}
        /\ queue.convert = <<>> /\ OwnNames
        /\ \A R : Excused(R)
    <2>1. FieldInit("socket", {"main", "convert"}) /\ {"main", "convert"} \in SUBSET Workers
      BY DEF SocketInit, Workers
    <2>2. QED
      BY <2>1, Begins
  <1>2. SocketOwn(own) /\ own.buffer = [d \in Devices |-> <<>>]
    BY DEF SocketInit, SocketOwn
  <1>3. DOMAIN <<>> = {}
    OBVIOUS
  <1>4. PICK b : b = own.buffer
    OBVIOUS
  <1>5. b \in [Devices -> Seq(Samples(made))] /\ \A d \in Devices : b[d] = <<>>
    <2>1. <<>> \in Seq(Samples(made))
      BY EmptyIs
    <2>2. QED
      BY <1>2, <1>4, <2>1
  <1>6. Streams(made, Dropped, Given, queue.convert, b)
    <2>1. ASSUME NEW d \in Devices PROVE Stream(made, {}, <<>>, <<>>, b[d], d)
      <3>1. Batch(TRUE, made, {}, <<>>)
        BY EmptyIs DEF Batch
      <3>2. Behind(TRUE, <<>>, <<>>) /\ Trails(TRUE, <<>>, <<>>)
        BY <1>3 DEF Behind, Trails
      <3>3. QED
        BY <1>3, <1>5, <3>1, <3>2 DEF Stream
    <2>2. \A d, e \in Devices : Behind(TRUE, b[d], b[e])
      BY <1>3, <1>5 DEF Behind
    <2>3. QED
      BY <1>1, <1>5, <2>1, <2>2 DEF Streams
  <1>7. Chunked(own.tcp, <<>>)
    BY <1>3 DEF Chunked
  <1>8. QED
    <2>1. Train(TRUE, made, Dropped, Given, <<>>, <<>>, queue.convert)
      BY <1>1, FirstTrain
    <2>2. \A d \in Devices : Timely(b[d])
      BY <1>5, NothingTimely
    <2>3. QED
      BY <1>1, <1>2, <1>4, <1>6, <1>7, <2>1, <2>2, NothingTimely DEF SocketInv

LEMMA OdbcOpens ==
    ASSUME kind \in Kinds, OdbcInit
    PROVE  World /\ kind = "odbc" /\ OdbcInv
  <1>1. /\ World /\ kind = "odbc" /\ made \in Nat /\ Given = <<>> /\ hand.main = <<>> /\ OwnNames
        /\ \A R : Excused(R)
    <2>1. FieldInit("odbc", {"main"}) /\ {"main"} \in SUBSET Workers
      BY DEF OdbcInit, Workers
    <2>2. QED
      BY <2>1, Begins
  <1>2. /\ DOMAIN own = {"rows", "it", "file", "persistent", "query", "fetched", "again"}
        /\ own.rows = <<>> /\ own.it = 0 /\ own.file = <<>> /\ own.again = {}
    BY DEF OdbcInit
  <1>3. QED
    BY <1>1, <1>2, FirstTable DEF OdbcInv

LEMMA FtpOpens ==
    ASSUME kind \in Kinds, FtpInit
    PROVE  World /\ kind = "ftp" /\ FtpInv
  <1>1. /\ World /\ kind = "ftp" /\ made \in Nat /\ Given = <<>> /\ hand.main = <<>> /\ OwnNames
        /\ \A R : Excused(R)
    <2>1. FieldInit("ftp", {"main"}) /\ {"main"} \in SUBSET Workers
      BY DEF FtpInit, Workers
    <2>2. QED
      BY <2>1, Begins
  <1>2. /\ DOMAIN own = {"json", "lines", "seen", "again"} /\ own.again = {}
        /\ own.lines = [d \in Devices |-> <<>>] /\ own.seen = [d \in Devices |-> 0]
    <2>1. PICK none : none = [d \in Devices |-> <<>>]
      OBVIOUS
    <2>2. PICK zero : zero = [d \in Devices |-> 0]
      OBVIOUS
    <2>3. own \in [json : BOOLEAN, lines : {none}, seen : {zero}, again : {{}}]
      BY <2>1, <2>2 DEF FtpInit
    <2>4. DOMAIN own = {"json", "lines", "seen", "again"} /\ own.again = {} /\ own.lines = none /\ own.seen = zero
      BY <2>3
    <2>5. QED
      BY <2>1, <2>2, <2>4
  <1>3. PICK l, s : l = own.lines /\ s = own.seen
    OBVIOUS
  <1>4. DOMAIN l = Devices /\ DOMAIN s = Devices /\ \A d \in Devices : l[d] = <<>> /\ s[d] = 0
    BY <1>2, <1>3
  <1>5. Files(made, l, s, <<>>, {})
    BY <1>1, <1>4, FirstFiles
  <1>6. <<>> \in Seq(Devices)
    OBVIOUS
  <1>7. QED
    BY <1>1, <1>2, <1>3, <1>5, <1>6 DEF FtpInv

LEMMA RequestOpens ==
    ASSUME kind \in Kinds, RequestInit
    PROVE  World /\ kind = "request" /\ RequestInv
  <1>1. /\ World /\ kind = "request" /\ made \in Nat /\ Given = <<>> /\ Dropped = {} /\ hand.main = <<>> /\ OwnNames
        /\ queue.convert = <<>> /\ queue.save = <<>>
        /\ \A R : Excused(R) /\ LinedUp("main", R)
    <2>1. FieldInit("request", {"main"}) /\ {"main"} \in SUBSET Workers
      BY DEF RequestInit, Workers
    <2>2. QED
      BY <2>1, Begins
  <1>2. DOMAIN own = {"due", "threads"} /\ own.threads = [d \in Devices |-> <<>>]
    BY DEF RequestInit
  <1>3. PICK t : t = own.threads
    OBVIOUS
  <1>4. DOMAIN <<>> = {} /\ \A S : <<>> \in Seq(S)
    <2>1. DOMAIN <<>> = {}
      OBVIOUS
    <2>2. QED
      BY <2>1
  <1>5. DOMAIN t = Devices /\ \A d \in Devices : t[d] = <<>>
    BY <1>2, <1>3
  <1>6. Threads(t, made) /\ HeldOnce(t) /\ Held(t, made) = {}
    BY <1>4, <1>5 DEF Threads, HeldOnce, Held
  <1>7. LineOf(FALSE, {}, "main")
    <2>1. {} \subseteq Samples(made) /\ {} \cup {} = {}
      OBVIOUS
    <2>2. QED
      BY <1>1, <2>1, EmptyIs DEF LineOf, Line
  <1>8. TimelyInv("main")
    BY <1>1 DEF LinedUp
  <1>9. QED
    BY <1>1, <1>2, <1>3, <1>6, <1>7, <1>8 DEF RequestInv

LEMMA Beginning ==
    ASSUME Init
    PROVE  IInv
  <1>1. kind \in Kinds
    BY DEF Init
  <1>2. \/ ModbusInit \/ UaInit \/ BacInit \/ S7Init \/ SnmpInit \/ OdbcInit \/ RequestInit \/ FtpInit
        \/ BleInit \/ CanInit \/ MqttInit \/ RestInit \/ SocketInit \/ XmppInit \/ OcppInit \/ KnxInit
    BY DEF Init
  <1>3. CASE ModbusInit \/ BacInit \/ S7Init \/ SnmpInit \/ BleInit \/ CanInit \/ XmppInit \/ OcppInit \/ KnxInit \/ RestInit
    BY <1>1, <1>3, ManyBegin DEF IInv, KindInv
  <1>4. CASE UaInit
    BY <1>1, <1>4, UaOpens DEF IInv, KindInv
  <1>5. CASE MqttInit
    BY <1>1, <1>5, MqttOpens DEF IInv, KindInv
  <1>6. CASE SocketInit
    BY <1>1, <1>6, SocketOpens DEF IInv, KindInv
  <1>7. CASE OdbcInit
    BY <1>1, <1>7, OdbcOpens DEF IInv, KindInv
  <1>8. CASE FtpInit
    BY <1>1, <1>8, FtpOpens DEF IInv, KindInv
  <1>9. CASE RequestInit
    BY <1>1, <1>9, RequestOpens DEF IInv, KindInv
  <1>10. QED
    BY <1>2, <1>3, <1>4, <1>5, <1>6, <1>7, <1>8, <1>9

LEMMA KindKeeps ==
    ASSUME IInv, KindStep
    PROVE  IInv'
  <1>1. CASE ModbusStep
    <2>1. World /\ ModbusInv /\ kind = "modbus"
      BY <1>1, StepOf DEF IInv, KindInv
    <2>2. World' /\ ModbusInv' /\ kind' = "modbus"
      BY <1>1, <2>1, ModbusKeeps
    <2>3. QED
      BY <2>2 DEF IInv, KindInv
  <1>2. CASE UaStep
    <2>1. World /\ UaInv /\ kind = "opcua"
      BY <1>2, StepOf DEF IInv, KindInv
    <2>2. World' /\ UaInv' /\ kind' = "opcua"
      BY <1>2, <2>1, UaKeeps
    <2>3. QED
      BY <2>2 DEF IInv, KindInv
  <1>3. CASE BacStep
    <2>1. World /\ BacInv /\ kind = "bacnet"
      BY <1>3, StepOf DEF IInv, KindInv
    <2>2. World' /\ BacInv' /\ kind' = "bacnet"
      BY <1>3, <2>1, BacKeeps
    <2>3. QED
      BY <2>2 DEF IInv, KindInv
  <1>4. CASE S7Step
    <2>1. World /\ S7Inv /\ kind = "s7"
      BY <1>4, StepOf DEF IInv, KindInv
    <2>2. World' /\ S7Inv' /\ kind' = "s7"
      BY <1>4, <2>1, S7Keeps
    <2>3. QED
      BY <2>2 DEF IInv, KindInv
  <1>5. CASE SnmpStep
    <2>1. World /\ SnmpInv /\ kind = "snmp"
      BY <1>5, StepOf DEF IInv, KindInv
    <2>2. World' /\ SnmpInv' /\ kind' = "snmp"
      BY <1>5, <2>1, SnmpKeeps
    <2>3. QED
      BY <2>2 DEF IInv, KindInv
  <1>6. CASE OdbcStep
    <2>1. World /\ OdbcInv /\ kind = "odbc"
      BY <1>6, StepOf DEF IInv, KindInv
    <2>2. World' /\ OdbcInv' /\ kind' = "odbc"
      BY <1>6, <2>1, OdbcKeeps
    <2>3. QED
      BY <2>2 DEF IInv, KindInv
  <1>7. CASE RequestStep
    <2>1. World /\ RequestInv /\ kind = "request"
      BY <1>7, StepOf DEF IInv, KindInv
    <2>2. World' /\ RequestInv' /\ kind' = "request"
      BY <1>7, <2>1, RequestKeeps
    <2>3. QED
      BY <2>2 DEF IInv, KindInv
  <1>8. CASE FtpStep
    <2>1. World /\ FtpInv /\ kind = "ftp"
      BY <1>8, StepOf DEF IInv, KindInv
    <2>2. World' /\ FtpInv' /\ kind' = "ftp"
      BY <1>8, <2>1, FtpKeeps
    <2>3. QED
      BY <2>2 DEF IInv, KindInv
  <1>9. CASE BleStep
    <2>1. World /\ BleInv /\ kind = "ble"
      BY <1>9, StepOf DEF IInv, KindInv
    <2>2. World' /\ BleInv' /\ kind' = "ble"
      BY <1>9, <2>1, BleKeeps
    <2>3. QED
      BY <2>2 DEF IInv, KindInv
  <1>10. CASE CanStep
    <2>1. World /\ CanInv /\ kind = "can"
      BY <1>10, StepOf DEF IInv, KindInv
    <2>2. World' /\ CanInv' /\ kind' = "can"
      BY <1>10, <2>1, CanKeeps
    <2>3. QED
      BY <2>2 DEF IInv, KindInv
  <1>11. CASE MqttStep
    <2>1. World /\ MqttInv /\ kind = "mqtt"
      BY <1>11, StepOf DEF IInv, KindInv
    <2>2. World' /\ MqttInv' /\ kind' = "mqtt"
      BY <1>11, <2>1, MqttKeeps
    <2>3. QED
      BY <2>2 DEF IInv, KindInv
  <1>12. CASE RestStep
    <2>1. World /\ RestInv /\ kind = "rest"
      BY <1>12, StepOf DEF IInv, KindInv
    <2>2. World' /\ RestInv' /\ kind' = "rest"
      BY <1>12, <2>1, RestKeeps
    <2>3. QED
      BY <2>2 DEF IInv, KindInv
  <1>13. CASE SocketStep
    <2>1. World /\ SocketInv /\ kind = "socket"
      BY <1>13, StepOf DEF IInv, KindInv
    <2>2. World' /\ SocketInv' /\ kind' = "socket"
      BY <1>13, <2>1, SocketKeeps
    <2>3. QED
      BY <2>2 DEF IInv, KindInv
  <1>14. CASE XmppStep
    <2>1. World /\ XmppInv /\ kind = "xmpp"
      BY <1>14, StepOf DEF IInv, KindInv
    <2>2. World' /\ XmppInv' /\ kind' = "xmpp"
      BY <1>14, <2>1, XmppKeeps
    <2>3. QED
      BY <2>2 DEF IInv, KindInv
  <1>15. CASE OcppStep
    <2>1. World /\ OcppInv /\ kind = "ocpp"
      BY <1>15, StepOf DEF IInv, KindInv
    <2>2. World' /\ OcppInv' /\ kind' = "ocpp"
      BY <1>15, <2>1, OcppKeeps
    <2>3. QED
      BY <2>2 DEF IInv, KindInv
  <1>16. CASE KnxStep
    <2>1. World /\ KnxInv /\ kind = "knx"
      BY <1>16, StepOf DEF IInv, KindInv
    <2>2. World' /\ KnxInv' /\ kind' = "knx"
      BY <1>16, <2>1, KnxKeeps
    <2>3. QED
      BY <2>2 DEF IInv, KindInv
  <1>17. QED
    BY <1>1, <1>2, <1>3, <1>4, <1>5, <1>6, <1>7, <1>8, <1>9, <1>10, <1>11, <1>12,
       <1>13, <1>14, <1>15, <1>16 DEF KindStep

LEMMA StepKeeps ==
    ASSUME IInv, [Next]_vars
    PROVE  IInv'
  <1>1. CASE EnvStep
    <2>1. World /\ KindInv
      BY DEF IInv
    <2>2. /\ \A w \in Workers : Resting(w)
          /\ UNCHANGED <<kind, stopped, pc, hand, queue, made, sent, lost, own>>
      BY <1>1, <2>1, EnvRests
    <2>3. "main" \in Workers /\ "main" \in {"main", "save"}
      BY DEF Workers
    <2>4. World'
      BY <2>1, <2>2, <2>3, Rests
    <2>5. KindInv'
      BY <2>1, <2>2, EnvKeeps
    <2>6. QED
      BY <2>4, <2>5 DEF IInv
  <1>2. CASE KindStep
    BY <1>2, KindKeeps
  <1>3. CASE UNCHANGED vars
    <2>1. World /\ KindInv
      BY DEF IInv
    <2>2. UNCHANGED <<kind, stopped, pc, hand, queue, link, session, known, made, sent, lost, own, rpc, events>>
      BY <1>3 DEF vars, life, work, data, conn, env
    <2>3. World'
      BY <2>1, <2>2 DEF World, Inner, Outer
    <2>4. KindInv'
      BY <2>1, <2>2, EnvKeeps
    <2>5. QED
      BY <2>3, <2>4 DEF IInv
  <1>4. QED
    BY <1>1, <1>2, <1>3, StepIs

(* The invariant holds of every reachable state.                            *)
LEMMA Invariant == Spec => []IInv
  <1>1. Init => IInv
    BY Beginning
  <1>2. IInv /\ [Next]_vars => IInv'
    BY StepKeeps
  <1>3. QED
    BY <1>1, <1>2, PTL DEF Spec

-----------------------------------------------------------------------------
(* What the invariant means                                                *)

LEMMA SentAre ==
    ASSUME World
    PROVE  /\ DOMAIN Given = 1..Len(sent) /\ Given \in Seq(Samples(made))
           /\ \A k \in 1..Len(sent) : Given[k] = sent[k].s /\ sent[k] \in Entry(made)
           /\ \A e \in Range(sent) : \E k \in 1..Len(sent) : e = sent[k]
           /\ \A l \in lost : l \in Loss(made) /\ l.s \in Dropped
  <1>1. made \in Nat /\ sent \in Seq(Entry(made)) /\ lost \subseteq Loss(made)
    BY DEF World, Inner
  <1>2. DOMAIN sent = 1..Len(sent) /\ \A k \in 1..Len(sent) : sent[k] \in Entry(made)
    BY <1>1
  <1>3. DOMAIN Given = DOMAIN sent /\ Given \in Seq(Samples(made)) /\ \A k \in DOMAIN sent : Given[k] = sent[k].s
    BY <1>1, Passed
  <1>4. \A e \in Range(sent) : \E k \in 1..Len(sent) : e = sent[k]
    BY <1>2 DEF Range
  <1>5. \A l \in lost : l \in Loss(made) /\ l.s \in Dropped
    BY <1>1 DEF Dropped
  <1>6. QED
    BY <1>2, <1>3, <1>4, <1>5

LEMMA TypesAre ==
    ASSUME World
    PROVE  ConnectorTypeOK
  <1>1. /\ kind \in Kinds /\ stopped \in BOOLEAN /\ link \in [Devices -> BOOLEAN] /\ session \subseteq Devices
        /\ events \in 0..MaxEvents /\ Replied(rpc) /\ pc \in [Workers -> PCs] /\ known \subseteq Names
        /\ made \in 0..MaxSamples
    BY DEF World, Inner, Outer
  <1>2. rpc.replies \in 0..2
    <2>1. rpc.replies = 0 \/ rpc.replies = 1 \/ rpc.replies = 2
      BY <1>1 DEF Replied
    <2>2. QED
      BY <2>1
  <1>3. \A w \in Workers : pc[w] \in {"idle", "busy", "scan", "look", "loop", "ended"}
    BY <1>1 DEF PCs
  <1>4. made \in Nat /\ MaxSamples \in Nat /\ made <= MaxSamples
    BY <1>1 DEF FieldConnectorAssumption
  <1>5. ASSUME NEW x \in Samples(made) PROVE IsSample(x)
    BY <1>4 DEF IsSample, Samples
  <1>6. \A e \in Range(sent) : IsSample(e.s) /\ e.as \in Devices \cup {Nobody}
    <2>1. ASSUME NEW e \in Entry(made) PROVE e.s \in Samples(made) /\ e.as \in Names
      BY DEF Entry
    <2>2. QED
      BY <1>5, <2>1, SentAre DEF Names
  <1>7. \A l \in lost : IsSample(l.s)
    <2>1. ASSUME NEW l \in Loss(made) PROVE l.s \in Samples(made)
      BY DEF Loss
    <2>2. QED
      BY <1>5, <2>1, SentAre
  <1>8. QED
    BY <1>1, <1>2, <1>3, <1>6, <1>7 DEF ConnectorTypeOK, Names

LineKinds == {"modbus", "bacnet", "s7", "snmp", "ble", "can", "rest", "socket", "xmpp", "ocpp", "knx"}
KeepKinds == {"odbc", "ftp"}

LEMMA LineMeans ==
    ASSUME NEW w, LineInv(w)
    PROVE  Sorted(TRUE, Given) /\ Gone(Dropped, Given)
  BY DEF LineInv, Line

LEMMA TrainMeans ==
    ASSUME NEW o, NEW b, NEW e, NEW c, Train(o, made, Dropped, Given, b, e, c)
    PROVE  Sorted(o, Given) /\ Gone(Dropped, Given)
  BY DEF Train, Batch

LEMMA SentSorted ==
    ASSUME KindInv
    PROVE  /\ kind \in LineKinds => Sorted(TRUE, Given) /\ Gone(Dropped, Given)
           /\ kind = "request" => Sorted(FALSE, Given) /\ Gone(Dropped, Given)
           /\ kind = "opcua" => own.subs \in BOOLEAN /\ Sorted(own.subs, Given) /\ Gone(Dropped, Given)
           /\ kind = "mqtt" => own.grown \in BOOLEAN /\ Sorted(~own.grown, Given) /\ Gone(Dropped, Given)
  <1>1. kind \in LineKinds \ {"socket"} => LineInv("save") \/ LineInv("main")
    BY DEF KindInv, LineKinds, ModbusInv, BacInv, S7Inv, SnmpInv, BleInv, CanInv, RestInv, XmppInv,
           OcppInv, KnxInv, LinedUp, AtOnce
  <1>2. kind = "socket" => Sorted(TRUE, Given) /\ Gone(Dropped, Given)
    BY TrainMeans DEF KindInv, SocketInv
  <1>3. kind = "request" => Sorted(FALSE, Given) /\ Gone(Dropped, Given)
    <2>1. SUFFICES ASSUME kind = "request" PROVE Sorted(FALSE, Given) /\ Gone(Dropped, Given)
      OBVIOUS
    <2>2. LineOf(FALSE, Held(own.threads, made), "main")
      BY <2>1 DEF KindInv, RequestInv
    <2>3. Sorted(FALSE, Given) /\ Gone(Dropped \cup Held(own.threads, made), Given)
      BY <2>2 DEF LineOf, Line
    <2>4. QED
      BY <2>3 DEF Gone
  <1>4. kind = "opcua" => own.subs \in BOOLEAN /\ Sorted(own.subs, Given) /\ Gone(Dropped, Given)
    <2>1. SUFFICES ASSUME kind = "opcua"
                   PROVE own.subs \in BOOLEAN /\ Sorted(own.subs, Given) /\ Gone(Dropped, Given)
      OBVIOUS
    <2>2. own.subs \in BOOLEAN /\ (own.subs => UaSubscribes) /\ (~own.subs => UaPolling)
      BY <2>1 DEF KindInv, UaInv, UaOwn
    <2>3. UaSubscribes => Sorted(TRUE, Given) /\ Gone(Dropped, Given)
      BY LineMeans DEF UaSubscribes, LinedUp
    <2>4. UaPolling => Sorted(FALSE, Given) /\ Gone(Dropped, Given)
      BY TrainMeans DEF UaPolling
    <2>5. CASE own.subs = TRUE
      BY <2>2, <2>3, <2>5
    <2>6. CASE own.subs = FALSE
      BY <2>2, <2>4, <2>6
    <2>7. QED
      BY <2>2, <2>5, <2>6
  <1>5. kind = "mqtt" => own.grown \in BOOLEAN /\ Sorted(~own.grown, Given) /\ Gone(Dropped, Given)
    BY TrainMeans DEF KindInv, MqttInv, MqttPool
  <1>6. QED
    BY <1>1, <1>2, <1>3, <1>4, <1>5, LineMeans

\* Of two readings of a device the later was sent later; unless o, they only differ.
OneByOne(o) ==
    \A i, j \in 1..Len(sent) :
        i < j /\ sent[i].s.dev = sent[j].s.dev /\ sent[i].s.n >= sent[j].s.n
            => ~o /\ sent[i].s # sent[j].s

LEMMA InOrder ==
    ASSUME World, NEW o \in BOOLEAN, Sorted(o, Given), Gone(Dropped, Given)
    PROVE  OneByOne(o) /\ \A l \in lost : \A e \in Range(sent) : e.s # l.s
  <1>1. OneByOne(o)
    <2>1. SUFFICES ASSUME NEW i \in 1..Len(sent), NEW j \in 1..Len(sent), i < j,
                          sent[i].s.dev = sent[j].s.dev, sent[i].s.n >= sent[j].s.n
                   PROVE  ~o /\ sent[i].s # sent[j].s
      BY DEF OneByOne
    <2>2. PICK x, y : x = sent[i].s /\ y = sent[j].s
      OBVIOUS
    <2>3. Given[i] = x /\ Given[j] = y /\ x \in Samples(made) /\ y \in Samples(made)
      BY <2>2, SentAre DEF Entry
    <2>4. Earlier(o, x, y)
      BY <2>1, <2>3, SentAre DEF Sorted
    <2>5. x.n \in Nat /\ y.n \in Nat
      BY <2>3 DEF Samples, World, Inner
    <2>6. QED
      BY <2>1, <2>2, <2>4, <2>5 DEF Earlier
  <1>2. ASSUME NEW l \in lost, NEW e \in Range(sent) PROVE e.s # l.s
    <2>1. PICK k \in 1..Len(sent) : e = sent[k]
      BY SentAre
    <2>2. l.s \in Dropped /\ e.s = Given[k] /\ k \in DOMAIN Given
      BY <2>1, SentAre
    <2>3. l.s.n # e.s.n
      BY <2>2 DEF Gone
    <2>4. QED
      BY <2>3
  <1>3. QED
    BY <1>1, <1>2

LEMMA AgainInOrder ==
    ASSUME World, KindInv, kind \in KeepKinds
    PROVE  /\ \A i, j \in 1..Len(sent) :
                 i < j /\ sent[i].s.dev = sent[j].s.dev /\ sent[i].s.n >= sent[j].s.n => sent[j].s \in own.again
           /\ \A l \in lost : \A e \in Range(sent) : e.s # l.s
  <1>1. /\ \A k \in DOMAIN Given : ~Given[k].bad
        /\ \A j, k \in DOMAIN Given : j < k /\ Given[j].dev = Given[k].dev => Given[k] \in own.again \/ Given[j].n < Given[k].n
        /\ Excused({})
    <2>1. CASE kind = "odbc"
      BY <2>1 DEF KindInv, OdbcInv, Table, Resent
    <2>2. CASE kind = "ftp"
      BY <2>2 DEF KindInv, FtpInv, Files, Reread
    <2>3. QED
      BY <2>1, <2>2 DEF KeepKinds
  <1>2. ASSUME NEW i \in 1..Len(sent), NEW j \in 1..Len(sent), i < j,
               sent[i].s.dev = sent[j].s.dev, sent[i].s.n >= sent[j].s.n
        PROVE  sent[j].s \in own.again
    <2>1. PICK x, y : x = sent[i].s /\ y = sent[j].s
      OBVIOUS
    <2>2. Given[i] = x /\ Given[j] = y /\ x \in Samples(made) /\ y \in Samples(made)
      BY <2>1, SentAre DEF Entry
    <2>3. y \in own.again \/ x.n < y.n
      <3>1. i \in DOMAIN Given /\ j \in DOMAIN Given
        BY SentAre
      <3>2. x.dev = y.dev
        BY <1>2, <2>1
      <3>3. Given[i].dev = Given[j].dev
        BY <2>2, <3>2
      <3>4. Given[j] \in own.again \/ Given[i].n < Given[j].n
        BY <1>1, <1>2, <3>1, <3>3
      <3>5. QED
        BY <2>2, <3>4
    <2>4. x.n \in Nat /\ y.n \in Nat
      BY <2>2 DEF Samples, World, Inner
    <2>5. QED
      BY <1>2, <2>1, <2>3, <2>4
  <1>3. ASSUME NEW l \in lost, NEW e \in Range(sent) PROVE e.s # l.s
    <2>1. PICK k \in 1..Len(sent) : e = sent[k]
      BY SentAre
    <2>2. ~e.s.bad
      BY <1>1, <2>1, SentAre
    <2>3. l.s.bad
      BY <1>1 DEF Excused
    <2>4. QED
      BY <2>2, <2>3
  <1>4. QED
    BY <1>2, <1>3

LEMMA OrderedSending ==
    ASSUME IInv
    PROVE  SentOnceInOrder
  <1>1. World /\ KindInv /\ ConnectorTypeOK
    BY TypesAre DEF IInv
  <1>2. CASE kind \in KeepKinds
    <2>1. Again = own.again
      BY <1>2 DEF Again, KeepKinds
    <2>2. QED
      BY <1>1, <1>2, <2>1, AgainInOrder DEF SentOnceInOrder
  <1>3. CASE kind \in LineKinds
    BY <1>1, <1>3, InOrder, SentSorted DEF SentOnceInOrder, OneByOne
  <1>4. CASE kind = "request"
    BY <1>1, <1>4, InOrder, SentSorted DEF SentOnceInOrder, OneByOne, Overtaken
  <1>5. CASE kind = "opcua"
    BY <1>1, <1>5, InOrder, SentSorted DEF SentOnceInOrder, OneByOne, Overtaken
  <1>6. CASE kind = "mqtt"
    <2>1. OneByOne(~own.grown) /\ \A l \in lost : \A e \in Range(sent) : e.s # l.s
      BY <1>1, <1>6, InOrder, SentSorted
    <2>2. QED
      BY <1>1, <1>6, <2>1 DEF SentOnceInOrder, OneByOne, Overtaken
  <1>7. QED
    BY <1>1, <1>2, <1>3, <1>4, <1>5, <1>6 DEF KindInv, LineKinds, KeepKinds

LEMMA LineTimely ==
    ASSUME NEW w, TimelyInv(w)
    PROVE  Timely(Given)
  BY DEF TimelyInv

LEMMA NothingLate ==
    ASSUME IInv
    PROVE  NothingLateIsSent
  <1>1. SUFFICES ASSUME kind \notin {"snmp", "ftp", "odbc", "rest"}, NEW e \in Range(sent) PROVE ~e.s.late
    BY DEF NothingLateIsSent
  <1>2. World /\ KindInv
    BY DEF IInv
  <1>3. Timely(Given)
    <2>1. kind \in {"modbus", "bacnet", "s7", "ble", "can", "xmpp", "ocpp", "knx", "request"}
             => TimelyInv("save") \/ TimelyInv("main")
      BY <1>2
         DEF KindInv, ModbusInv, BacInv, S7Inv, BleInv, CanInv, XmppInv, OcppInv, KnxInv, RequestInv, LinedUp
    <2>2. kind = "opcua" => Timely(Given)
      <3>1. kind = "opcua" => own.subs \in BOOLEAN /\ (own.subs => TimelyInv("save")) /\ (~own.subs => Timely(Given))
        BY <1>2 DEF KindInv, UaInv, UaOwn, UaSubscribes, UaPolling, LinedUp
      <3>2. QED
        BY <3>1, LineTimely
    <2>3. kind \in {"mqtt", "socket"} => Timely(Given)
      BY <1>2 DEF KindInv, MqttInv, SocketInv
    <2>4. QED
      BY <1>1, <1>2, <2>1, <2>2, <2>3, LineTimely DEF KindInv
  <1>4. PICK k \in 1..Len(sent) : e = sent[k]
    BY <1>2, SentAre
  <1>5. k \in DOMAIN Given /\ Given[k] = e.s
    BY <1>2, <1>4, SentAre
  <1>6. QED
    BY <1>3, <1>5 DEF Timely

LEMMA RightNames ==
    ASSUME IInv
    PROVE  AttributedRight
  <1>1. World /\ KindInv
    BY DEF IInv
  <1>2. \A k \in 1..Len(sent) :
           \/ sent[k].as = sent[k].s.dev
           \/ kind = "opcua" /\ ~own.subs
           \/ kind = "ocpp" /\ sent[k].as = Nobody
    <2>1. DOMAIN sent = 1..Len(sent)
      BY <1>1 DEF World, Inner
    <2>2. kind \in {"modbus", "bacnet", "s7", "snmp", "odbc", "request", "ftp", "ble", "can", "mqtt",
                    "rest", "socket", "xmpp", "knx"} => OwnNames
      BY <1>1
         DEF KindInv, ModbusInv, BacInv, S7Inv, SnmpInv, OdbcInv, RequestInv, FtpInv, BleInv, CanInv,
             MqttInv, RestInv, SocketInv, XmppInv, KnxInv, LinedUp, AtOnce
    <2>3. kind = "opcua" => OwnNames \/ ~own.subs
      BY <1>1 DEF KindInv, UaInv, UaSubscribes, LinedUp
    <2>4. kind = "ocpp" => \A k \in DOMAIN sent : sent[k].as \in {sent[k].s.dev, Nobody}
      BY <1>1 DEF KindInv, OcppInv
    <2>5. OwnNames => \A k \in 1..Len(sent) : sent[k].as = sent[k].s.dev
      BY <2>1 DEF OwnNames
    <2>6. CASE kind = "opcua"
      BY <2>3, <2>5, <2>6
    <2>7. CASE kind = "ocpp"
      BY <2>1, <2>4, <2>7
    <2>8. CASE kind \notin {"opcua", "ocpp"}
      BY <1>1, <2>2, <2>5, <2>8 DEF KindInv
    <2>9. QED
      BY <2>6, <2>7, <2>8
  <1>3. \A e \in Range(sent) : \E k \in 1..Len(sent) : e = sent[k]
    BY <1>1, SentAre
  <1>4. kind = "rest" => Answered(own)
    BY <1>1 DEF KindInv, RestInv, RestOwn
  <1>5. QED
    BY <1>2, <1>3, <1>4 DEF AttributedRight, Answered

\* A reason of the connector at hand.
Caused(l) ==
    \/ l.why = "converter" /\ l.s.bad
    \/ l.why = "batch" /\ kind \in {"modbus", "mqtt"} /\ \E m \in lost : m.s.bad
    \/ l.why \in {"uncached", "undealt"} /\ kind = "opcua"
    \/ l.why \in {"unmapped", "full"} /\ kind = "mqtt"
    \/ l.why \in {"merged", "connection"} /\ kind = "socket" /\ own.tcp
    \/ l.why = "buffer" /\ kind = "can"

LEMMA AllCaused ==
    ASSUME KindInv, NEW l \in lost
    PROVE  Caused(l)
  <1>1. CASE kind \in {"bacnet", "s7", "snmp", "odbc", "request", "ftp", "ble", "rest", "xmpp", "ocpp", "knx"}
    <2>1. Excused({}) \/ Unconverted
      BY <1>1
         DEF KindInv, BacInv, S7Inv, SnmpInv, OdbcInv, RequestInv, FtpInv, BleInv, RestInv, XmppInv,
             OcppInv, KnxInv, LinedUp, AtOnce
    <2>2. l.why = "converter" /\ l.s.bad
      BY <2>1 DEF Excused, Unconverted
    <2>3. QED
      BY <2>2 DEF Caused
  <1>2. CASE kind = "modbus"
    <2>1. Excused({"batch"}) /\ BatchBad
      BY <1>2 DEF KindInv, ModbusInv, LinedUp
    <2>2. QED
      BY <1>2, <2>1 DEF Excused, BatchBad, Caused
  <1>3. CASE kind = "mqtt"
    <2>1. Excused({"unmapped", "full", "batch"}) /\ BatchBad
      BY <1>3 DEF KindInv, MqttInv, MqttReasons
    <2>2. QED
      BY <1>3, <2>1 DEF Excused, BatchBad, Caused
  <1>4. CASE kind = "opcua"
    <2>1. Excused({"uncached"}) \/ Excused({"undealt"})
      BY <1>4 DEF KindInv, UaInv, UaOwn, UaSubscribes, UaPolling, LinedUp
    <2>2. QED
      BY <1>4, <2>1 DEF Excused, Caused
  <1>5. CASE kind = "socket"
    <2>1. own.tcp \in BOOLEAN /\ Excused(SocketReasons(own.tcp))
      BY <1>5 DEF KindInv, SocketInv, SocketOwn
    <2>2. QED
      BY <1>5, <2>1 DEF Excused, Caused, SocketReasons
  <1>6. CASE kind = "can"
    <2>1. Excused({"buffer"})
      BY <1>6 DEF KindInv, CanInv, LinedUp
    <2>2. QED
      BY <1>6, <2>1 DEF Excused, Caused
  <1>7. QED
    BY <1>1, <1>2, <1>3, <1>4, <1>5, <1>6 DEF KindInv

LEMMA LossesExplained ==
    ASSUME IInv
    PROVE  LossHasCause
  <1>1. KindInv
    BY DEF IInv
  <1>2. ASSUME NEW l \in lost
        PROVE  CASE l.why = "converter" -> l.s.bad
                 [] l.why = "batch" -> kind \in {"modbus", "mqtt"} /\ \E m \in lost : m.s.bad
                 [] l.why \in {"uncached", "undealt"} -> kind = "opcua"
                 [] l.why \in {"unmapped", "full"} -> kind = "mqtt"
                 [] l.why \in {"merged", "connection"} -> kind = "socket" /\ own.tcp
                 [] l.why = "buffer" -> kind = "can"
    <2>1. Caused(l)
      BY <1>1, AllCaused
    <2>2. QED
      BY <2>1 DEF Caused
  <1>3. QED
    BY <1>2 DEF LossHasCause

LEMMA RepliesExplained ==
    ASSUME IInv
    PROVE  RpcReplied
  <1>1. Replied(rpc)
    BY DEF IInv, World, Outer
  <1>2. CASE rpc.replies = 0
    BY <1>1, <1>2 DEF Replied, RpcReplied
  <1>3. CASE rpc.replies = 1
    <2>1. rpc.replies # 0 /\ rpc.replies # 2
      BY <1>3
    <2>2. (CASE rpc.replies = 0 -> rpc.how = "silent" \/ rpc.st = "thread ended"
             [] rpc.replies = 1 -> TRUE
             [] rpc.replies = 2 -> rpc.how \in {"error", "timeout", "refused", "twice", "reserved"}) = TRUE
      BY <1>3, <2>1
    <2>3. QED
      BY <2>2 DEF RpcReplied
  <1>4. CASE rpc.replies = 2
    BY <1>1, <1>4 DEF Replied, RpcReplied
  <1>5. QED
    BY <1>1, <1>2, <1>3, <1>4 DEF Replied

-----------------------------------------------------------------------------
(* What is proved of the connectors                                        *)

\* Readings of a device reach the gateway once and in the order they were read, none
\* that was given up is among them, and every variable is of its type.  The threads
\* of the request connector, the jobs of the OPC-UA pool and several MQTT workers may
\* overtake each other; ODBC and FTP send again only what they read again.
THEOREM ConnectorsSendInOrder == Spec => []SentOnceInOrder
  <1>1. IInv => SentOnceInOrder
    BY OrderedSending
  <1>2. QED
    BY <1>1, Invariant, PTL

\* Readings are sent under the name of the device they were read from, and a REST
\* request is answered with its own answer until one has waited in vain.
THEOREM ConnectorsAttributeRight == Spec => []AttributedRight
  <1>1. IInv => AttributedRight
    BY RightNames
  <1>2. QED
    BY <1>1, Invariant, PTL

\* What a connector reads after close() stays in its queues.
THEOREM ConnectorsSendNothingLate == Spec => []NothingLateIsSent
  <1>1. IInv => NothingLateIsSent
    BY NothingLate
  <1>2. QED
    BY <1>1, Invariant, PTL

\* A converter, a batch, a full queue or a missing mapping explains each reading that a
\* connector gave up, and only the connectors that have such a reason give one.
THEOREM ConnectorsLoseForACause == Spec => []LossHasCause
  <1>1. IInv => LossHasCause
    BY LossesExplained
  <1>2. QED
    BY <1>1, Invariant, PTL

\* A handled RPC is replied to once, or the way it was handled says why it is not.
THEOREM ConnectorsReply == Spec => []RpcReplied
  <1>1. IInv => RpcReplied
    BY RepliesExplained
  <1>2. QED
    BY <1>1, Invariant, PTL
=============================================================================
