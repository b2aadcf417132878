---------------------------- MODULE UplinkProofs ----------------------------
(***************************************************************************)
(* The two halves of the uplink.                                           *)
(*                                                                         *)
(* For any items, batch size, number of tries and room in the storage:     *)
(* what send_to_storage accepted is lost only behind an item that raises,  *)
(* and what is stored is stored in the order of acceptance.  The argument  *)
(* numbers the items by their place in accepted: the places up to Off are  *)
(* done with, the batch holds the next ones, and the queue the rest.       *)
(*                                                                         *)
(* For every set of events and devices, every quality of service and any   *)
(* number of crashes: what leaves the event storage was passed to the      *)
(* client and, at quality of service 1, reached the platform, but for the  *)
(* two windows named in UplinkSender.                                      *)
(***************************************************************************)
EXTENDS StorageFeeder, UplinkSender, SequenceTheorems, TLAPS

-----------------------------------------------------------------------------
(* The storing half                                                        *)

Off == Len(accepted) - Len(batch) - Len(queue)

\* No item is accepted twice.
AcceptedOnce == \A k, l \in 1..Len(accepted) : accepted[k] = accepted[l] => k = l

\* The batch and the queue are the end of accepted.
Lined ==
    /\ Off \in Nat
    /\ \A k \in 1..Len(batch) : batch[k] = accepted[Off + k]
    /\ \A k \in 1..Len(queue) : queue[k] = accepted[Off + Len(batch) + k]

\* One batch is processed at a time.
BatchNo == IF phase = "collecting" THEN batches + 1 ELSE batches
OneBatch ==
    /\ \A k \in 1..Len(batch) : batchOf[batch[k]] = BatchNo
    /\ phase = "putting" => batch # <<>>

\* What was stored or skipped is done with, but for the item being put.
StoredBehind ==
    \A a \in 1..Len(written) : \E k \in 1..Len(accepted) :
        /\ written[a][1] = accepted[k]
        /\ \/ k <= Off
           \/ k = Off + 1 /\ phase = "putting" /\ written[a][2] < record

SkippedBehind == \A i \in skipped : \E k \in 1..Off : i = accepted[k]

\* StoredInOrder, in places.
InPlaces ==
    \A a, b \in 1..Len(written) : \A k, l \in 1..Len(accepted) :
        a < b /\ written[a][1] = accepted[k] /\ written[b][1] = accepted[l] =>
            k < l \/ (k = l /\ written[a][2] < written[b][2])

\* The item being put has left its earlier records behind it.
Settled == ElementsOf(written) \cup rejected
PutSoFar == phase = "putting" => \A n \in 1..(record - 1) : <<Head(batch), n>> \in Settled

\* An item done with was left out, put or rejected record by record, or cut off
\* by an item that raised in the same batch.
CutOff(k) ==
    \E j \in 1..k :
        /\ accepted[j] \notin skipped
        /\ RaisesAt[accepted[j]] > 0
        /\ batchOf[accepted[j]] = batchOf[accepted[k]]
Accounted(k) ==
    \/ accepted[k] \in skipped
    \/ RecordsFrom(accepted[k]) \subseteq Settled
    \/ CutOff(k)
AllAccounted == \A k \in 1..Off : Accounted(k)

Order == AcceptedOnce /\ Lined /\ OneBatch
Outcome == StoredBehind /\ SkippedBehind /\ InPlaces /\ PutSoFar /\ AllAccounted
FeederIInv == FeederTypeOK /\ Order /\ Outcome

USE FeederAssumption DEF FeederAssumption

-----------------------------------------------------------------------------
(* Sequences and places.                                                    *)
LEMMA ElementsOfAppend ==
    ASSUME NEW S, NEW s \in Seq(S), NEW e \in S
    PROVE  ElementsOf(Append(s, e)) = ElementsOf(s) \cup {e}
  <1> DEFINE t == Append(s, e)
  <1>1. /\ DOMAIN s = 1..Len(s) /\ Len(s) \in Nat /\ Len(t) = Len(s) + 1
        /\ t \in Seq(S) /\ t[Len(s) + 1] = e /\ \A k \in 1..Len(s) : t[k] = s[k]
    BY AppendProperties, LenProperties
  <1>2. DOMAIN t = 1..(Len(s) + 1)
    BY <1>1, LenProperties
  <1> HIDE DEF t
  <1>3. \A x : (\E k \in 1..Len(t) : x = t[k]) <=> (\E k \in 1..Len(s) : x = s[k]) \/ x = e
    <2>1. \A x : x = e => \E k \in 1..Len(t) : x = t[k]
      BY <1>1
    <2>2. \A x : (\E k \in 1..Len(s) : x = s[k]) => \E k \in 1..Len(t) : x = t[k]
      <3> SUFFICES ASSUME NEW k \in 1..Len(s) PROVE \E l \in 1..Len(t) : s[k] = t[l]
        OBVIOUS
      <3>1. k \in 1..Len(t) /\ s[k] = t[k]
        BY <1>1
      <3>2. QED
        BY <3>1
    <2>3. ASSUME NEW k \in 1..Len(t)
          PROVE  t[k] = e \/ \E l \in 1..Len(s) : t[k] = s[l]
      <3>1. k = Len(s) + 1 \/ k \in 1..Len(s)
        BY <1>1
      <3>2. QED
        BY <1>1, <3>1
    <2>4. QED
      BY <2>1, <2>2, <2>3
  <1>4. ElementsOf(t) = ElementsOf(s) \cup {e}
    <2>1. ElementsOf(t) = {t[k] : k \in 1..Len(t)} /\ ElementsOf(s) = {s[k] : k \in 1..Len(s)}
      BY <1>1, <1>2 DEF ElementsOf
    <2>2. \A x : (x \in ElementsOf(t) <=> \E k \in 1..Len(t) : x = t[k])
                /\ (x \in ElementsOf(s) <=> \E k \in 1..Len(s) : x = s[k])
      BY <2>1, Zenon
    <2>3. QED
      BY <1>3, <2>2, Zenon
  <1>5. QED
    BY <1>4 DEF t

LEMMA ElementsOfSeq ==
    ASSUME NEW S, NEW s \in Seq(S)
    PROVE  \A x : x \in ElementsOf(s) <=> \E k \in 1..Len(s) : x = s[k]
  BY LenProperties DEF ElementsOf

LEMMA PlaceInIs ==
    ASSUME NEW S, NEW s \in Seq(S), \A k, l \in 1..Len(s) : s[k] = s[l] => k = l,
           NEW k \in 1..Len(s)
    PROVE  PlaceIn(s, s[k]) = k
  <1>1. DOMAIN s = 1..Len(s)
    BY LenProperties
  <1>2. \E l \in DOMAIN s : s[l] = s[k]
    BY <1>1
  <1>3. PlaceIn(s, s[k]) \in DOMAIN s /\ s[PlaceIn(s, s[k])] = s[k]
    BY <1>2, Zenon DEF PlaceIn
  <1>4. QED
    BY <1>1, <1>3

-----------------------------------------------------------------------------
LEMMA IInvImplies == FeederIInv => LostOnlyBehindRaising /\ StoredInOrder
  <1> SUFFICES ASSUME FeederIInv PROVE LostOnlyBehindRaising /\ StoredInOrder
    OBVIOUS
  <1>1. /\ accepted \in Seq(Items) /\ batch \in Seq(Items) /\ queue \in Seq(Items)
        /\ written \in Seq(Records) /\ Off \in Nat /\ Off = Len(accepted) - Len(batch) - Len(queue)
        /\ Len(accepted) \in Nat /\ Len(batch) \in Nat /\ Len(queue) \in Nat
    BY LenProperties DEF FeederIInv, FeederTypeOK, Order, Lined, Off
  <1>2. \A k \in 1..Len(accepted) : Place(accepted[k]) = k
    BY <1>1, PlaceInIs DEF FeederIInv, Order, AcceptedOnce, Place
  <1>3. ASSUME NEW i \in ElementsOf(accepted)
        PROVE  \/ InHand(i) \/ i \in skipped \/ RecordsFrom(i) \subseteq Settled
               \/ BehindRaising(i)
    <2>1. PICK k \in 1..Len(accepted) : i = accepted[k]
      BY <1>1, <1>3, ElementsOfSeq
    <2>2. CASE k <= Off
      <3>1. Accounted(k)
        BY <1>1, <2>2 DEF FeederIInv, Outcome, AllAccounted
      <3>2. ASSUME CutOff(k) PROVE BehindRaising(i)
        <4>1. PICK j \in 1..k : /\ accepted[j] \notin skipped
                                /\ RaisesAt[accepted[j]] > 0
                                /\ batchOf[accepted[j]] = batchOf[accepted[k]]
          BY <3>2, Zenon DEF CutOff
        <4>2. j \in 1..Len(accepted) /\ j <= k
          BY <1>1
        <4>3. accepted[j] \in ElementsOf(accepted)
          BY <1>1, <4>2, ElementsOfSeq
        <4>4. Place(accepted[j]) <= Place(i)
          BY <1>2, <2>1, <4>2
        <4>5. QED
          BY <2>1, <4>1, <4>3, <4>4, Zenon DEF BehindRaising
      <3>3. QED
        BY <2>1, <3>1, <3>2 DEF Accounted
    <2>3. CASE k > Off /\ k <= Off + Len(batch)
      <3>1. k - Off \in 1..Len(batch) /\ Off + (k - Off) = k
        BY <1>1, <2>3
      <3>2. i = batch[k - Off]
        BY <2>1, <3>1 DEF FeederIInv, Order, Lined
      <3>3. QED
        BY <1>1, <3>1, <3>2, ElementsOfSeq DEF InHand
    <2>4. CASE k > Off + Len(batch)
      <3>1. k - Off - Len(batch) \in 1..Len(queue) /\ Off + Len(batch) + (k - Off - Len(batch)) = k
        <4>1. PICK a \in Nat, b \in Nat, q \in Nat, o \in Nat :
                a = Len(accepted) /\ b = Len(batch) /\ q = Len(queue) /\ o = Off /\ o = a - b - q
          BY <1>1
        <4>2. k \in Nat /\ 1 <= k /\ k <= a /\ k > o + b
          BY <2>4, <4>1
        <4>3. k - o - b \in 1..q /\ o + b + (k - o - b) = k
          BY <4>1, <4>2
        <4>4. QED
          BY <4>1, <4>3
      <3>2. i = queue[k - Off - Len(batch)]
        BY <2>1, <3>1 DEF FeederIInv, Order, Lined
      <3>3. QED
        BY <1>1, <3>1, <3>2, ElementsOfSeq DEF InHand
    <2>5. k \in Int /\ Off \in Int /\ Len(batch) \in Int
      BY <1>1
    <2>6. k <= Off \/ (k > Off /\ k <= Off + Len(batch)) \/ k > Off + Len(batch)
      BY ONLY <2>5
    <2>7. QED
      BY <2>2, <2>3, <2>4, <2>6, Zenon
  <1>4. StoredInOrder
    <2> SUFFICES ASSUME NEW a \in DOMAIN written, NEW b \in DOMAIN written, a < b
                 PROVE  \/ Place(written[a][1]) < Place(written[b][1])
                        \/ written[a][1] = written[b][1] /\ written[a][2] < written[b][2]
      BY DEF StoredInOrder
    <2>1. a \in 1..Len(written) /\ b \in 1..Len(written)
      BY <1>1, LenProperties
    <2>2. PICK k \in 1..Len(accepted) : written[a][1] = accepted[k]
      BY <2>1 DEF FeederIInv, Outcome, StoredBehind
    <2>3. PICK l \in 1..Len(accepted) : written[b][1] = accepted[l]
      BY <2>1 DEF FeederIInv, Outcome, StoredBehind
    <2>4. k < l \/ (k = l /\ written[a][2] < written[b][2])
      BY <2>1, <2>2, <2>3 DEF FeederIInv, Outcome, InPlaces
    <2>5. QED
      BY <1>2, <2>2, <2>3, <2>4
  <1>5. QED
    BY <1>3, <1>4 DEF FeederIInv, Settled, LostOnlyBehindRaising

LEMMA FeederInitIInv == FeederInit => FeederIInv
  <1> SUFFICES ASSUME FeederInit PROVE FeederIInv
    OBVIOUS
  <1>1. FeederTypeOK
    BY EmptySeq DEF FeederInit, FeederTypeOK
  <1>2. Len(<<>>) = 0
    BY EmptySeq
  <1>3. Order
    BY <1>2 DEF FeederInit, Order, AcceptedOnce, Lined, Off, OneBatch
  <1>4. Outcome
    BY <1>2 DEF FeederInit, Outcome, StoredBehind, SkippedBehind, InPlaces, PutSoFar, AllAccounted, Off
  <1>5. QED
    BY <1>1, <1>3, <1>4 DEF FeederIInv

-----------------------------------------------------------------------------
LEMMA NextKeepsTypes ==
    ASSUME FeederIInv, [FeederNext]_feedVars
    PROVE  FeederTypeOK'
  <1> USE DEF FeederTypeOK
  <1>1. /\ FeederTypeOK
        /\ phase = "putting" => batch # <<>>
    BY DEF FeederIInv, Order, OneBatch
  <1>2. ASSUME NEW i \in Items, SendToStorage(i) PROVE FeederTypeOK'
    BY <1>1, <1>2, AppendProperties DEF SendToStorage, taskVars
  <1>3. CASE Collect
    <2>1. /\ Head(queue) \in Items /\ Tail(queue) \in Seq(Items)
          /\ Append(batch, Head(queue)) \in Seq(Items)
          /\ Len(Append(batch, Head(queue))) = Len(batch) + 1
      BY <1>1, <1>3, HeadTailProperties, AppendProperties DEF Collect
    <2>2. Len(batch) \in Nat
      BY <1>1, LenProperties
    <2>3. QED
      BY <1>1, <1>3, <2>1, <2>2 DEF Collect
  <1>4. CASE StartBatch
    BY <1>1, <1>4 DEF StartBatch
  <1>5. CASE FinishBatch
    BY <1>1, <1>5 DEF FinishBatch
  <1>6. batch # <<>> => /\ Head(batch) \in Items /\ Tail(batch) \in Seq(Items)
                        /\ Len(Tail(batch)) = Len(batch) - 1 /\ Len(batch) \in Nat
    BY <1>1, HeadTailProperties, LenProperties
  <1>7. CASE BeginItem
    <2>1. CASE LeftOut(Head(batch))
      <3>1. /\ batch # <<>> /\ skipped' = skipped \cup {Head(batch)} /\ batch' = Tail(batch)
            /\ phase = "processing" /\ UNCHANGED <<phase, record, tries>>
            /\ UNCHANGED <<queue, room, mayAddDevice, accepted, batchOf, batches, written, rejected>>
        BY <1>7, <2>1, Zenon DEF BeginItem
      <3>2. /\ skipped' \subseteq Items /\ batch' \in Seq(Items) /\ Len(batch') <= BatchSize
        BY <1>1, <1>6, <3>1
      <3>3. QED
        BY <1>1, <3>1, <3>2
    <2>2. CASE ~LeftOut(Head(batch))
      <3>1. 1 \in 1..RecordsOf[Head(batch)] /\ 0 \in 0..Tries
        BY <1>6, <1>7 DEF BeginItem
      <3>2. phase' = "putting" /\ record' = 1 /\ tries' = 0 /\ UNCHANGED <<batch, skipped>>
        BY <1>7, <2>2 DEF BeginItem
      <3>3. QED
        BY <1>1, <1>7, <3>1, <3>2 DEF BeginItem
    <2>3. QED
      BY <2>1, <2>2
  <1>8. phase = "putting" => <<Head(batch), record>> \in Records
    BY <1>1, <1>6 DEF Records, RecordsFrom
  <1>9. ASSUME phase = "putting", Advance
        PROVE  /\ batch' \in Seq(Items) /\ Len(batch') <= BatchSize
               /\ phase' \in {"collecting", "processing", "putting"}
               /\ phase' = "putting" => record' \in 1..RecordsOf[Head(batch')]
               /\ tries' \in 0..Tries
    <2>1. RecordsOf[Head(batch)] \in Nat /\ 0 \in 0..Tries /\ Len(batch) \in Nat
      BY <1>1, <1>6, <1>9
    <2>2. CASE record < RecordsOf[Head(batch)]
      BY <1>1, <1>6, <1>9, <2>1, <2>2 DEF Advance
    <2>3. CASE ~(record < RecordsOf[Head(batch)])
      <3>1. batch' = Tail(batch) /\ phase' = "processing" /\ tries' = 0
        BY <1>9, <2>3, Zenon DEF Advance
      <3>2. batch' \in Seq(Items) /\ Len(batch') = Len(batch) - 1
        BY <1>1, <1>6, <1>9, <3>1
      <3>3. QED
        BY <1>1, <2>1, <3>1, <3>2
    <2>4. QED
      BY <2>2, <2>3
  <1>10. CASE PutRecord
    <2>1. written' \in Seq(Records)
      BY <1>1, <1>8, <1>10, AppendProperties DEF PutRecord
    <2>2. room' \in 0..Capacity
      BY <1>1, <1>10 DEF PutRecord
    <2>3. phase = "putting" /\ Advance
          /\ UNCHANGED <<queue, mayAddDevice, accepted, batchOf, batches, skipped, rejected>>
      BY <1>10, Zenon DEF PutRecord
    <2>4. /\ batch' \in Seq(Items) /\ Len(batch') <= BatchSize
          /\ phase' \in {"collecting", "processing", "putting"}
          /\ phase' = "putting" => record' \in 1..RecordsOf[Head(batch')]
          /\ tries' \in 0..Tries
      BY <1>9, <2>3
    <2>5. QED
      BY <1>1, <2>1, <2>2, <2>3, <2>4
  <1>11. CASE RetryPut
    BY <1>1, <1>11 DEF RetryPut
  <1>12. CASE GiveUpRecord
    BY <1>1, <1>8, <1>9, <1>12 DEF GiveUpRecord
  <1>13. CASE RaiseFromItem
    BY <1>1, <1>13, EmptySeq DEF RaiseFromItem
  <1>14. CASE FreeRoom
    BY <1>1, <1>14 DEF FreeRoom, taskVars
  <1>15. CASE ChangeAvailability
    BY <1>1, <1>15 DEF ChangeAvailability, taskVars
  <1>16. CASE UNCHANGED feedVars
    BY <1>1, <1>16 DEF feedVars
  <1>17. QED
    BY <1>2, <1>3, <1>4, <1>5, <1>7, <1>10, <1>11, <1>12, <1>13, <1>14, <1>15, <1>16
       DEF FeederNext, FeederThread

-----------------------------------------------------------------------------
(* One item of the batch is done with: Off moves by one.                    *)
LEMMA TailKeepsOrder ==
    ASSUME FeederTypeOK, Order, batch # <<>>, batch' = Tail(batch), phase' = "processing",
           phase # "collecting", UNCHANGED <<queue, accepted, batchOf, batches>>
    PROVE  Order' /\ Off' = Off + 1 /\ Off + 1 \in 1..Len(accepted)
           /\ Head(batch) = accepted[Off + 1]
  <1>1. /\ Len(accepted) \in Nat /\ Len(batch) \in Nat /\ Len(queue) \in Nat
        /\ Len(batch) > 0 /\ Off \in Nat /\ Len(batch') = Len(batch) - 1
        /\ Head(batch) = batch[1]
        /\ \A k \in 1..Len(batch') : batch'[k] = batch[k + 1]
    BY LenProperties, EmptySeq, HeadTailProperties DEF FeederTypeOK, Order, Lined
  <1>2. Off' = Off + 1 /\ Off' \in Nat /\ Off + 1 \in 1..Len(accepted)
    BY <1>1 DEF Off
  <1>3. ASSUME NEW k \in 1..Len(batch')
        PROVE  batch'[k] = accepted'[Off' + k] /\ batchOf'[batch'[k]] = BatchNo'
    <2>1. k + 1 \in 1..Len(batch) /\ Off + (k + 1) = Off' + k
      BY <1>1, <1>2
    <2>2. BatchNo' = BatchNo
      BY Zenon DEF BatchNo
    <2>3. QED
      BY <1>1, <2>1, <2>2 DEF Order, Lined, OneBatch
  <1>4. ASSUME NEW k \in 1..Len(queue') PROVE queue'[k] = accepted'[Off' + Len(batch') + k]
    <2>1. Off' + Len(batch') + k = Off + Len(batch) + k
      BY <1>1, <1>2
    <2>2. QED
      BY <2>1 DEF Order, Lined
  <1>5. Head(batch) = accepted[Off + 1]
    BY <1>1 DEF Order, Lined
  <1>6. QED
    BY <1>2, <1>3, <1>4, <1>5 DEF Order, AcceptedOnce, Lined, OneBatch

LEMMA NextKeepsOrder ==
    ASSUME FeederIInv, [FeederNext]_feedVars
    PROVE  Order'
  <1> USE DEF FeederIInv
  <1>0. /\ queue \in Seq(Items) /\ batch \in Seq(Items) /\ accepted \in Seq(Items)
        /\ batchOf \in [Items -> Nat] /\ batches \in Nat
    BY DEF FeederTypeOK
  <1>1. /\ Len(accepted) \in Nat /\ Len(batch) \in Nat /\ Len(queue) \in Nat
        /\ Off = Len(accepted) - Len(batch) - Len(queue) /\ Off \in Nat
    BY <1>0, LenProperties DEF Order, Lined, Off
  <1>2. ASSUME NEW i \in Items, SendToStorage(i) PROVE Order'
    <2>1. /\ queue' = Append(queue, i) /\ accepted' = Append(accepted, i)
          /\ UNCHANGED <<batch, phase, batchOf, batches>> /\ i \notin ElementsOf(accepted)
      BY <1>2 DEF SendToStorage, taskVars
    <2>2. /\ Len(queue') = Len(queue) + 1 /\ queue'[Len(queue) + 1] = i
          /\ \A k \in 1..Len(queue) : queue'[k] = queue[k]
      BY <1>0, <1>1, <2>1, AppendProperties
    <2>3. /\ Len(accepted') = Len(accepted) + 1 /\ accepted'[Len(accepted) + 1] = i
          /\ \A k \in 1..Len(accepted) : accepted'[k] = accepted[k]
      BY <1>0, <1>1, <2>1, AppendProperties
    <2>4. \A k \in 1..Len(accepted) : accepted[k] # i
      BY <1>0, <2>1, ElementsOfSeq
    <2>5. AcceptedOnce'
      <3> SUFFICES ASSUME NEW k \in 1..Len(accepted'), NEW l \in 1..Len(accepted'),
                          accepted'[k] = accepted'[l]
                   PROVE  k = l
        BY DEF AcceptedOnce
      <3>1. /\ k \in 1..Len(accepted) \/ k = Len(accepted) + 1
            /\ l \in 1..Len(accepted) \/ l = Len(accepted) + 1
        BY <1>1, <2>3
      <3>2. \A m, n \in 1..Len(accepted) : accepted[m] = accepted[n] => m = n
        BY DEF Order, AcceptedOnce
      <3>3. QED
        BY <2>3, <2>4, <3>1, <3>2
    <2>6. Off' = Off /\ Off' \in Nat
      BY <1>1, <2>1, <2>2, <2>3 DEF Off
    <2>7. ASSUME NEW k \in 1..Len(batch) PROVE batch[k] = accepted'[Off + k]
      <3>1. Off + k \in 1..Len(accepted)
        BY <1>1
      <3>2. QED
        BY <2>3, <3>1 DEF Order, Lined
    <2>8. ASSUME NEW k \in 1..Len(queue') PROVE queue'[k] = accepted'[Off + Len(batch) + k]
      <3>1. CASE k \in 1..Len(queue)
        <4>1. Off + Len(batch) + k \in 1..Len(accepted)
          BY <1>1, <3>1
        <4>2. QED
          BY <2>2, <2>3, <3>1, <4>1 DEF Order, Lined
      <3>2. CASE k = Len(queue) + 1
        <4>1. Off + Len(batch) + k = Len(accepted) + 1
          BY <1>1, <3>2
        <4>2. QED
          BY <2>2, <2>3, <3>2, <4>1
      <3>3. QED
        BY <1>1, <2>2, <3>1, <3>2
    <2>9. OneBatch' /\ Lined'
      BY <2>1, <2>6, <2>7, <2>8 DEF Order, OneBatch, BatchNo, Lined
    <2>10. QED
      BY <2>5, <2>9 DEF Order
  <1>3. CASE Collect
    <2>1. /\ queue # <<>> /\ queue' = Tail(queue) /\ batch' = Append(batch, Head(queue))
          /\ batchOf' = [batchOf EXCEPT ![Head(queue)] = batches + 1]
          /\ phase = "collecting" /\ UNCHANGED <<phase, accepted, batches>>
      BY <1>3 DEF Collect
    <2>2. /\ Len(queue') = Len(queue) - 1 /\ Head(queue) = queue[1] /\ Head(queue) \in Items
          /\ Len(queue) > 0 /\ \A k \in 1..Len(queue') : queue'[k] = queue[k + 1]
      <3>1. Head(queue) = queue[1] /\ Len(queue) > 0
        BY <1>0, <1>1, <2>1, EmptySeq
      <3>2. QED
        BY <1>0, <2>1, <3>1, HeadTailProperties
    <2>3. /\ Len(batch') = Len(batch) + 1 /\ batch'[Len(batch) + 1] = queue[1]
          /\ \A k \in 1..Len(batch) : batch'[k] = batch[k] /\ batch[k] \in Items
      BY <1>0, <2>1, <2>2, AppendProperties, ElementOfSeq
    <2>4. Off' = Off
      BY <1>1, <2>1, <2>2, <2>3 DEF Off
    <2>5. \A k \in 1..Len(batch') : batch'[k] = accepted[Off + k]
      <3>1. queue[1] = accepted[Off + (Len(batch) + 1)]
        <4>1. 1 \in 1..Len(queue) /\ Off + Len(batch) + 1 = Off + (Len(batch) + 1)
          BY <1>1, <2>2
        <4>2. QED
          BY <4>1 DEF Order, Lined
      <3>2. \A k \in 1..Len(batch') : k \in 1..Len(batch) \/ k = Len(batch) + 1
        BY <1>1, <2>3
      <3>3. QED
        BY <2>3, <3>1, <3>2 DEF Order, Lined
    <2>6. ASSUME NEW k \in 1..Len(queue') PROVE queue'[k] = accepted[Off + Len(batch') + k]
      <3>1. k + 1 \in 1..Len(queue) /\ Off + Len(batch) + (k + 1) = Off + Len(batch') + k
        BY <1>1, <2>2, <2>3
      <3>2. QED
        BY <2>2, <3>1 DEF Order, Lined
    <2>7. \A k \in 1..Len(batch') : batchOf'[batch'[k]] = batches + 1
      <3>1. \A k \in 1..Len(batch') : k \in 1..Len(batch) \/ k = Len(batch) + 1
        BY <1>1, <2>3
      <3>2. \A k \in 1..Len(batch) : batchOf[batch[k]] = batches + 1
        BY <2>1 DEF Order, OneBatch, BatchNo
      <3>3. QED
        BY <1>0, <2>1, <2>2, <2>3, <3>1, <3>2
    <2>8. QED
      <3>1. Lined'
        BY <1>1, <2>1, <2>4, <2>5, <2>6 DEF Lined
      <3>2. OneBatch'
        BY <2>1, <2>7 DEF OneBatch, BatchNo
      <3>3. QED
        BY <2>1, <3>1, <3>2 DEF Order, AcceptedOnce
  <1>4. CASE UNCHANGED <<queue, batch, accepted, batchOf>> /\ BatchNo' = BatchNo
             /\ (phase' = "putting" => batch # <<>>)
    <2>1. Off' = Off
      BY <1>4 DEF Off
    <2>2. QED
      BY <1>4, <2>1 DEF Order, AcceptedOnce, Lined, OneBatch
  <1>5. CASE StartBatch
    <2>1. BatchNo' = BatchNo
      BY <1>1, <1>5 DEF StartBatch, BatchNo
    <2>2. QED
      BY <1>4, <1>5, <2>1 DEF StartBatch
  <1>6. CASE FinishBatch
    <2>1. batch = <<>> /\ phase' = "collecting" /\ UNCHANGED <<queue, batch, accepted, batchOf>>
      BY <1>6 DEF FinishBatch
    <2>2. Off' = Off /\ Len(batch') = 0
      BY <2>1, EmptySeq DEF Off
    <2>3. QED
      BY <2>1, <2>2 DEF Order, AcceptedOnce, Lined, OneBatch
  <1>7. CASE BeginItem
    <2>1. CASE LeftOut(Head(batch))
      BY <1>7, <2>1, TailKeepsOrder DEF BeginItem
    <2>2. CASE ~LeftOut(Head(batch))
      <3>1. /\ phase = "processing" /\ phase' = "putting" /\ batch # <<>>
            /\ UNCHANGED <<queue, batch, accepted, batchOf, batches>>
        BY <1>7, <2>2 DEF BeginItem
      <3>2. BatchNo' = BatchNo
        BY <3>1 DEF BatchNo
      <3>3. QED
        BY <1>4, <3>1, <3>2
    <2>3. QED
      BY <2>1, <2>2
  <1>8. ASSUME phase = "putting", Advance, UNCHANGED <<queue, accepted, batchOf, batches>>
        PROVE  Order'
    <2>1. batch # <<>>
      BY <1>8 DEF Order, OneBatch
    <2>2. CASE record < RecordsOf[Head(batch)]
      <3>1. UNCHANGED <<batch, phase>>
        BY <1>8, <2>2 DEF Advance
      <3>2. BatchNo' = BatchNo
        BY <1>8, <3>1 DEF BatchNo
      <3>3. QED
        BY <1>4, <1>8, <2>1, <3>1, <3>2
    <2>3. CASE ~(record < RecordsOf[Head(batch)])
      BY <1>8, <2>1, <2>3, TailKeepsOrder DEF Advance
    <2>4. QED
      BY <2>2, <2>3
  <1>9. CASE PutRecord
    BY <1>8, <1>9 DEF PutRecord
  <1>10. CASE GiveUpRecord
    BY <1>8, <1>10 DEF GiveUpRecord
  <1>11. CASE RaiseFromItem
    <2>1. batch' = <<>> /\ phase' = "collecting" /\ UNCHANGED <<queue, accepted, batchOf>>
      BY <1>11 DEF RaiseFromItem
    <2>2. Len(batch') = 0 /\ Off' = Off + Len(batch) /\ Off' \in Nat
      BY <1>1, <2>1, EmptySeq DEF Off
    <2>3. ASSUME NEW k \in 1..Len(queue) PROVE queue[k] = accepted[Off' + 0 + k]
      <3>1. Off' + 0 + k = Off + Len(batch) + k
        BY <1>1, <2>2
      <3>2. QED
        BY <3>1 DEF Order, Lined
    <2>4. QED
      BY <2>1, <2>2, <2>3 DEF Order, AcceptedOnce, Lined, OneBatch
  <1>12. CASE UNCHANGED <<queue, batch, phase, accepted, batchOf, batches>>
    <2>1. BatchNo' = BatchNo
      BY <1>12 DEF BatchNo
    <2>2. QED
      BY <1>4, <1>12, <2>1 DEF Order, OneBatch
  <1>13. CASE RetryPut \/ FreeRoom \/ ChangeAvailability \/ UNCHANGED feedVars
    BY <1>12, <1>13 DEF RetryPut, FreeRoom, ChangeAvailability, taskVars, feedVars
  <1>14. QED
    BY <1>2, <1>3, <1>5, <1>6, <1>7, <1>9, <1>10, <1>11, <1>13 DEF FeederNext, FeederThread

-----------------------------------------------------------------------------
(* What became of an item does not change.                                  *)
LEMMA AccountedKept ==
    ASSUME Off \in Nat, NEW k \in 1..Off, Accounted(k), Settled \subseteq Settled',
           \A j \in 1..Off : /\ accepted'[j] = accepted[j]
                             /\ batchOf'[accepted[j]] = batchOf[accepted[j]]
                             /\ accepted[j] \in skipped' <=> accepted[j] \in skipped
    PROVE  Accounted(k)'
  <1>1. CASE accepted[k] \in skipped
    BY <1>1 DEF Accounted
  <1>2. CASE RecordsFrom(accepted[k]) \subseteq Settled
    BY <1>2 DEF Accounted
  <1>3. CASE CutOff(k)
    <2>1. PICK j \in 1..k : /\ accepted[j] \notin skipped
                            /\ RaisesAt[accepted[j]] > 0
                            /\ batchOf[accepted[j]] = batchOf[accepted[k]]
      BY <1>3, Zenon DEF CutOff
    <2>2. j \in 1..Off
      OBVIOUS
    <2>3. CutOff(k)'
      BY <2>1, <2>2 DEF CutOff
    <2>4. QED
      BY <2>3 DEF Accounted
  <1>4. QED
    BY <1>1, <1>2, <1>3 DEF Accounted

(* One more record settled, by Advance: the item is put so far, or done.    *)
LEMMA AdvanceKeepsAccounts ==
    ASSUME FeederIInv, phase = "putting", Advance, UNCHANGED <<queue, accepted, batchOf, batches, skipped>>,
           Settled' = Settled \cup {<<Head(batch), record>>}
    PROVE  PutSoFar' /\ AllAccounted'
  <1>1. /\ batch # <<>> /\ Off \in Nat /\ record \in 1..RecordsOf[Head(batch)]
        /\ \A n \in 1..(record - 1) : <<Head(batch), n>> \in Settled
        /\ \A k \in 1..Off : Accounted(k)
    BY DEF FeederIInv, FeederTypeOK, Order, Lined, OneBatch, Outcome, PutSoFar, AllAccounted
  <1>2. Head(batch) \in Items /\ RecordsOf[Head(batch)] \in Nat
    BY <1>1, HeadTailProperties DEF FeederIInv, FeederTypeOK
  <1>3. ASSUME NEW n \in 1..record PROVE <<Head(batch), n>> \in Settled'
    <2>1. n = record \/ n \in 1..(record - 1)
      BY <1>1, <1>2
    <2>2. QED
      BY <1>1, <2>1
  <1>4. ASSUME NEW k \in 1..Off PROVE Accounted(k)'
    BY <1>1, AccountedKept
  <1>5. CASE record < RecordsOf[Head(batch)]
    <2>1. record' = record + 1 /\ UNCHANGED <<batch, phase>>
      BY <1>5 DEF Advance
    <2>2. Off' = Off /\ record' - 1 = record
      BY <1>1, <1>2, <2>1 DEF Off
    <2>3. QED
      BY <1>3, <1>4, <2>1, <2>2 DEF PutSoFar, AllAccounted
  <1>6. CASE ~(record < RecordsOf[Head(batch)])
    <2>1. batch' = Tail(batch) /\ phase' = "processing"
      BY <1>6 DEF Advance
    <2>2. Off' = Off + 1 /\ Head(batch) = accepted[Off + 1]
      BY <1>1, <2>1, TailKeepsOrder DEF FeederIInv
    <2>3. record = RecordsOf[Head(batch)]
      BY <1>1, <1>2, <1>6
    <2>4. RecordsFrom(accepted[Off + 1]) \subseteq Settled'
      BY <1>3, <2>2, <2>3 DEF RecordsFrom
    <2>5. ASSUME NEW k \in Nat, k = Off + 1 PROVE Accounted(k)'
      BY <2>4, <2>5 DEF Accounted
    <2>6. \A k \in 1..(Off + 1) : k \in Nat /\ (k \in 1..Off \/ k = Off + 1)
      BY <1>1
    <2>7. QED
      BY <1>4, <2>1, <2>2, <2>5, <2>6 DEF PutSoFar, AllAccounted
  <1>7. QED
    BY <1>5, <1>6

(* The stored records stay behind the item being put, and one of them more. *)
LEMMA AdvanceKeepsStored ==
    ASSUME FeederIInv, phase = "putting", Advance, UNCHANGED <<queue, accepted, batchOf, batches, skipped>>,
           written' = written \/ written' = Append(written, <<Head(batch), record>>)
    PROVE  StoredBehind' /\ SkippedBehind' /\ InPlaces'
  <1> DEFINE e == <<Head(batch), record>>
  <1>1. /\ batch # <<>> /\ Off \in Nat /\ record \in Nat /\ Head(batch) = accepted[Off + 1]
        /\ Off + 1 \in 1..Len(accepted)
    <2>1. /\ batch # <<>> /\ Off \in Nat /\ batch \in Seq(Items) /\ queue \in Seq(Items)
          /\ accepted \in Seq(Items) /\ record \in 1..RecordsOf[Head(batch)]
      BY DEF FeederIInv, FeederTypeOK, Order, Lined, OneBatch
    <2>2. /\ Len(batch) > 0 /\ Len(batch) \in Nat /\ Len(queue) \in Nat /\ Len(accepted) \in Nat
          /\ Head(batch) = batch[1] /\ Head(batch) \in Items
      BY <2>1, LenProperties, EmptySeq, HeadTailProperties
    <2>3. Off + 1 \in 1..Len(accepted) /\ 1 \in 1..Len(batch)
      BY <2>1, <2>2 DEF Off
    <2>4. batch[1] = accepted[Off + 1]
      BY <2>3 DEF FeederIInv, Order, Lined
    <2>5. record \in Nat
      BY <2>1, <2>2
    <2>6. QED
      BY <2>1, <2>2, <2>3, <2>4, <2>5
  <1>2. \/ Off' = Off /\ phase' = "putting" /\ record' = record + 1
        \/ Off' = Off + 1
    <2>1. CASE record < RecordsOf[Head(batch)]
      BY <2>1 DEF Advance, Off
    <2>2. CASE ~(record < RecordsOf[Head(batch)])
      BY <1>1, <2>2, TailKeepsOrder DEF Advance, FeederIInv
    <2>3. QED
      BY <2>1, <2>2
  <1>3. /\ Len(written) \in Nat
        /\ \A a \in 1..Len(written) : written'[a] = written[a]
        /\ \A a \in 1..Len(written') :
              a \in 1..Len(written) \/ (a = Len(written) + 1 /\ written'[a] = e)
    <2>1. written \in Seq(Records) /\ e \in Records /\ Len(written) \in Nat
      <3>1. e \in RecordsFrom(Head(batch)) /\ Head(batch) \in Items
        BY <1>1, HeadTailProperties DEF FeederIInv, FeederTypeOK, RecordsFrom
      <3>2. QED
        BY <3>1, LenProperties DEF Records, FeederIInv, FeederTypeOK
    <2>2. CASE written' = written
      BY <2>1, <2>2
    <2>3. CASE written' = Append(written, e)
      BY <2>1, <2>3, AppendProperties
    <2>4. QED
      BY <2>2, <2>3
  <1>4. /\ e[1] = accepted[Off + 1] /\ e[2] = record
        /\ \A a \in 1..Len(written) : written[a][2] \in Nat
    <2>1. \A r \in Records : r[2] \in Nat
      BY DEF Records, RecordsFrom
    <2>2. \A a \in 1..Len(written) : written[a] \in Records
      BY ElementOfSeq DEF FeederIInv, FeederTypeOK
    <2>3. QED
      BY <1>1, <2>1, <2>2
  <1> HIDE DEF e
  <1>5. ASSUME NEW a \in 1..Len(written)
        PROVE  \E k \in 1..Len(accepted) :
                  written[a][1] = accepted[k] /\ (k <= Off \/ (k = Off + 1 /\ written[a][2] < record))
    BY DEF FeederIInv, Outcome, StoredBehind
  <1>6. ASSUME NEW a \in 1..Len(written')
        PROVE  \E k \in 1..Len(accepted) :
                  /\ written'[a][1] = accepted[k]
                  /\ k <= Off' \/ (k = Off' + 1 /\ phase' = "putting" /\ written'[a][2] < record')
    <2>1. CASE a \in 1..Len(written)
      <3>1. PICK k \in 1..Len(accepted) :
                  written[a][1] = accepted[k] /\ (k <= Off \/ (k = Off + 1 /\ written[a][2] < record))
        BY <1>5, <2>1
      <3>2. k <= Off' \/ (k = Off' + 1 /\ phase' = "putting" /\ written'[a][2] < record')
        BY <1>1, <1>2, <1>3, <1>4, <2>1, <3>1
      <3>3. QED
        BY <1>3, <2>1, <3>1, <3>2
    <2>2. CASE written'[a] = e
      <3>1. Off + 1 <= Off' \/ (Off + 1 = Off' + 1 /\ phase' = "putting" /\ record < record')
        BY <1>1, <1>2
      <3>2. QED
        BY <1>1, <1>4, <2>2, <3>1
    <2>3. QED
      BY <1>3, <2>1, <2>2
  <1>7. StoredBehind'
    BY <1>6 DEF StoredBehind
  <1>8. SkippedBehind'
    <2>1. Off' >= Off /\ Off' \in Nat
      BY <1>1, <1>2
    <2>2. \A k \in 1..Off : k \in 1..Off'
      BY <1>1, <2>1
    <2>3. QED
      BY <2>2 DEF SkippedBehind, FeederIInv, Outcome
  <1>9. InPlaces'
    <2> SUFFICES ASSUME NEW a \in 1..Len(written'), NEW b \in 1..Len(written'),
                        NEW k \in 1..Len(accepted), NEW l \in 1..Len(accepted),
                        a < b, written'[a][1] = accepted[k], written'[b][1] = accepted[l]
                 PROVE  k < l \/ (k = l /\ written'[a][2] < written'[b][2])
      BY DEF InPlaces
    <2>1. a \in 1..Len(written)
      BY <1>3
    <2>2. CASE b \in 1..Len(written)
      BY <1>3, <2>1, <2>2 DEF FeederIInv, Outcome, InPlaces
    <2>3. CASE written'[b] = e
      <3>1. l = Off + 1
        BY <1>1, <1>4, <2>3 DEF FeederIInv, Order, AcceptedOnce
      <3>2. PICK m \in 1..Len(accepted) :
                  written[a][1] = accepted[m] /\ (m <= Off \/ (m = Off + 1 /\ written[a][2] < record))
        BY <1>5, <2>1
      <3>3. k = m
        BY <1>3, <2>1, <3>2 DEF FeederIInv, Order, AcceptedOnce
      <3>4. QED
        BY <1>1, <1>3, <1>4, <2>1, <2>3, <3>1, <3>2, <3>3
    <2>4. QED
      BY <1>3, <2>2, <2>3
  <1>10. QED
    BY <1>7, <1>8, <1>9

(* Nothing is done with: the places up to Off stay as they are.             *)
LEMMA OffKeepsOutcome ==
    ASSUME FeederIInv, Off' = Off, UNCHANGED <<written, skipped, rejected>>, AcceptedOnce',
           Len(accepted') >= Len(accepted), Len(accepted') \in Nat,
           \A k \in 1..Len(accepted) : accepted'[k] = accepted[k],
           \A k \in 1..Off : batchOf'[accepted[k]] = batchOf[accepted[k]],
           \/ phase # "putting" /\ (phase' = "putting" => record' = 1)
           \/ phase = phase' /\ Head(batch') = Head(batch) /\ record' = record
    PROVE  Outcome'
  <1>1. Off \in Nat /\ Off <= Len(accepted) /\ Len(accepted) \in Nat
    BY LenProperties DEF FeederIInv, FeederTypeOK, Order, Lined, Off
  <1>2. PutSoFar'
    <2>1. CASE phase # "putting" /\ (phase' = "putting" => record' = 1)
      BY <2>1 DEF PutSoFar
    <2>2. CASE phase = phase' /\ Head(batch') = Head(batch) /\ record' = record
      BY <2>2 DEF PutSoFar, Settled, FeederIInv, Outcome
    <2>3. QED
      BY <2>1, <2>2
  <1>3. ASSUME NEW a \in 1..Len(written)
        PROVE  \E k \in 1..Len(accepted') :
                  /\ written[a][1] = accepted'[k] /\ k \in 1..Len(accepted)
                  /\ k <= Off' \/ (k = Off' + 1 /\ phase' = "putting" /\ written[a][2] < record')
    <2>1. PICK k \in 1..Len(accepted) :
              /\ written[a][1] = accepted[k]
              /\ k <= Off \/ (k = Off + 1 /\ phase = "putting" /\ written[a][2] < record)
      BY DEF FeederIInv, Outcome, StoredBehind
    <2>2. k \in 1..Len(accepted') /\ written[a][1] = accepted'[k]
      BY <1>1, <2>1
    <2>3. k <= Off' \/ (k = Off' + 1 /\ phase' = "putting" /\ written[a][2] < record')
      BY <2>1
    <2>4. QED
      BY <2>2, <2>3
  <1>4. StoredBehind'
    BY <1>3 DEF StoredBehind
  <1>5. SkippedBehind'
    <2>1. \A k \in 1..Off : accepted'[k] = accepted[k]
      BY <1>1
    <2>2. QED
      BY <2>1 DEF SkippedBehind, FeederIInv, Outcome
  <1>6. InPlaces'
    <2> SUFFICES ASSUME NEW a \in 1..Len(written), NEW b \in 1..Len(written),
                        NEW k \in 1..Len(accepted'), NEW l \in 1..Len(accepted'),
                        a < b, written[a][1] = accepted'[k], written[b][1] = accepted'[l]
                 PROVE  k < l \/ (k = l /\ written[a][2] < written[b][2])
      BY DEF InPlaces
    <2>1. k \in 1..Len(accepted) /\ l \in 1..Len(accepted)
      <3>1. PICK m \in 1..Len(accepted') : written[a][1] = accepted'[m] /\ m \in 1..Len(accepted)
        BY <1>3, Zenon
      <3>2. PICK n \in 1..Len(accepted') : written[b][1] = accepted'[n] /\ n \in 1..Len(accepted)
        BY <1>3, Zenon
      <3>3. accepted'[k] = accepted'[m] /\ accepted'[l] = accepted'[n]
        BY <3>1, <3>2, Zenon
      <3>4. k = m /\ l = n
        BY <3>3, Zenon DEF AcceptedOnce
      <3>5. QED
        BY <3>1, <3>2, <3>4, Zenon
    <2>2. QED
      BY <2>1 DEF FeederIInv, Outcome, InPlaces
  <1>7. AllAccounted'
    <2>1. \A k \in 1..Off : accepted'[k] = accepted[k]
      BY <1>1
    <2>2. \A k \in 1..Off : Accounted(k)'
      BY <1>1, <2>1, AccountedKept DEF Settled, FeederIInv, Outcome, AllAccounted
    <2>3. QED
      BY <2>2 DEF AllAccounted
  <1>8. QED
    BY <1>2, <1>4, <1>5, <1>6, <1>7 DEF Outcome

(* Several items are done with and nothing is stored, while none is put     *)
(* after the step.                                                          *)
LEMMA LeavingKeepsOutcome ==
    ASSUME FeederIInv, NEW d \in Nat, d > 0, Off' = Off + d, Off' <= Len(accepted), phase' # "putting",
           UNCHANGED <<accepted, batchOf, written, rejected>>,
           skipped' = skipped \/ skipped' = skipped \cup {accepted[Off + 1]},
           \A k \in 1..Off' : k > Off => Accounted(k)'
    PROVE  Outcome'
  <1>1. Off \in Nat /\ Off' \in Nat /\ Off <= Off' /\ Off + 1 \in 1..Off' /\ Len(accepted) \in Nat
    BY LenProperties DEF FeederIInv, FeederTypeOK, Order, Lined
  <1>2. \A k \in 1..Off : k \in 1..Off'
    BY <1>1
  <1>3. StoredBehind'
    <2>1. ASSUME NEW a \in 1..Len(written)
          PROVE  \E k \in 1..Len(accepted) : written[a][1] = accepted[k] /\ k <= Off'
      <3>1. PICK k \in 1..Len(accepted) : written[a][1] = accepted[k] /\ (k <= Off \/ k = Off + 1)
        BY DEF FeederIInv, Outcome, StoredBehind
      <3>2. k <= Off'
        BY <1>1, <3>1
      <3>3. QED
        BY <3>1, <3>2
    <2>2. QED
      BY <2>1 DEF StoredBehind
  <1>4. SkippedBehind'
    BY <1>1, <1>2 DEF SkippedBehind, FeederIInv, Outcome
  <1>5. \A j \in 1..Off : accepted[j] \in skipped' <=> accepted[j] \in skipped
    <2>1. \A j \in 1..Off : accepted[j] # accepted[Off + 1]
      BY <1>1 DEF FeederIInv, Order, AcceptedOnce
    <2>2. QED
      BY <2>1
  <1>6. \A k \in 1..Off : Accounted(k)'
    BY <1>1, <1>5, AccountedKept DEF Settled, FeederIInv, Outcome, AllAccounted
  <1>7. \A k \in 1..Off' : k \in 1..Off \/ k > Off
    BY <1>1
  <1>8. AllAccounted'
    BY <1>6, <1>7 DEF AllAccounted
  <1>9. InPlaces' /\ PutSoFar'
    BY DEF InPlaces, PutSoFar, FeederIInv, Outcome
  <1>10. QED
    BY <1>3, <1>4, <1>8, <1>9 DEF Outcome

LEMMA NextKeepsOutcome ==
    ASSUME FeederIInv, [FeederNext]_feedVars
    PROVE  Outcome'
  <1>1. /\ queue \in Seq(Items) /\ batch \in Seq(Items) /\ accepted \in Seq(Items)
        /\ batchOf \in [Items -> Nat] /\ Order'
    BY NextKeepsOrder DEF FeederIInv, FeederTypeOK
  <1>2. /\ Len(accepted) \in Nat /\ Len(batch) \in Nat /\ Len(queue) \in Nat /\ Off \in Nat
        /\ Off = Len(accepted) - Len(batch) - Len(queue)
    BY <1>1, LenProperties DEF FeederIInv, Order, Lined, Off
  <1>3. ASSUME NEW i \in Items, SendToStorage(i) PROVE Outcome'
    <2>1. /\ queue' = Append(queue, i) /\ accepted' = Append(accepted, i)
          /\ UNCHANGED <<batch, phase, record, batchOf, written, skipped, rejected>>
      BY <1>3 DEF SendToStorage, taskVars
    <2>2. Len(queue') = Len(queue) + 1
      BY <1>1, <2>1, AppendProperties
    <2>3. /\ Len(accepted') = Len(accepted) + 1
          /\ \A k \in 1..Len(accepted) : accepted'[k] = accepted[k]
      BY <1>1, <2>1, AppendProperties
    <2>4. Off' = Off /\ Len(accepted') >= Len(accepted) /\ Len(accepted') \in Nat
      BY <1>2, <2>1, <2>2, <2>3 DEF Off
    <2>5. QED
      BY <1>1, <2>1, <2>3, <2>4, OffKeepsOutcome DEF Order
  <1>4. CASE Collect
    <2>1. /\ queue # <<>> /\ queue' = Tail(queue) /\ batch' = Append(batch, Head(queue))
          /\ batchOf' = [batchOf EXCEPT ![Head(queue)] = batches + 1]
          /\ phase = "collecting" /\ UNCHANGED <<phase, accepted, written, skipped, rejected>>
      BY <1>4 DEF Collect
    <2>2. /\ Head(queue) \in Items /\ Len(queue') = Len(queue) - 1
      BY <1>1, <2>1, HeadTailProperties
    <2>3. Len(queue) > 0 /\ Head(queue) = queue[1]
      BY <1>1, <2>1, EmptySeq
    <2>4. Len(batch') = Len(batch) + 1
      BY <1>1, <2>1, <2>2, AppendProperties
    <2>5. Off' = Off
      BY <1>2, <2>1, <2>2, <2>4 DEF Off
    <2>6. Head(queue) = accepted[Off + Len(batch) + 1]
      <3>1. 1 \in 1..Len(queue)
        BY <1>2, <2>3
      <3>2. QED
        BY <2>3, <3>1 DEF FeederIInv, Order, Lined
    <2>7. ASSUME NEW k \in 1..Off PROVE batchOf'[accepted[k]] = batchOf[accepted[k]]
      <3>1. /\ k \in 1..Len(accepted) /\ Off + Len(batch) + 1 \in 1..Len(accepted)
            /\ k # Off + Len(batch) + 1
        BY <1>2, <2>3
      <3>2. accepted[k] # Head(queue) /\ accepted[k] \in Items
        BY <1>1, <2>6, <3>1, ElementOfSeq DEF FeederIInv, Order, AcceptedOnce
      <3>3. QED
        BY <1>1, <2>1, <3>2
    <2>8. QED
      BY <1>1, <1>2, <2>1, <2>5, <2>7, OffKeepsOutcome DEF Order
  <1>5. CASE UNCHANGED <<queue, batch, accepted, batchOf, written, skipped, rejected>>
             /\ \/ phase # "putting" /\ (phase' = "putting" => record' = 1)
                \/ UNCHANGED <<phase, record>>
    <2>1. Off' = Off
      BY <1>5 DEF Off
    <2>2. QED
      BY <1>1, <1>2, <1>5, <2>1, OffKeepsOutcome DEF Order
  <1>6. CASE StartBatch \/ FinishBatch \/ RetryPut \/ FreeRoom \/ ChangeAvailability \/ UNCHANGED feedVars
    BY <1>5, <1>6
       DEF StartBatch, FinishBatch, RetryPut, FreeRoom, ChangeAvailability, taskVars, feedVars
  <1>7. CASE BeginItem
    <2>1. CASE LeftOut(Head(batch))
      <3>1. /\ phase = "processing" /\ batch # <<>> /\ batch' = Tail(batch)
            /\ skipped' = skipped \cup {Head(batch)}
            /\ UNCHANGED <<queue, phase, accepted, batchOf, batches, written, rejected>>
        BY <1>7, <2>1 DEF BeginItem
      <3>2. /\ Off' = Off + 1 /\ Off + 1 \in 1..Len(accepted)
            /\ Head(batch) = accepted[Off + 1]
        BY <3>1, TailKeepsOrder DEF FeederIInv
      <3>3. ASSUME NEW k \in 1..Off', k > Off PROVE Accounted(k)'
        <4>1. k = Off + 1
          BY <1>2, <3>2, <3>3
        <4>2. QED
          BY <3>1, <3>2, <4>1 DEF Accounted
      <3>4. Off' <= Len(accepted)
        BY <1>2, <3>2
      <3>5. QED
        BY <3>1, <3>2, <3>3, <3>4, LeavingKeepsOutcome
    <2>2. CASE ~LeftOut(Head(batch))
      BY <1>5, <1>7, <2>2 DEF BeginItem
    <2>3. QED
      BY <2>1, <2>2
  <1>8. phase = "putting" => <<Head(batch), record>> \in Records
    <2>1. phase = "putting" => Head(batch) \in Items /\ record \in 1..RecordsOf[Head(batch)]
      BY <1>1, HeadTailProperties DEF FeederIInv, FeederTypeOK, Order, OneBatch
    <2>2. QED
      BY <2>1 DEF Records, RecordsFrom
  <1>9. CASE PutRecord
    <2>1. /\ phase = "putting" /\ written' = Append(written, <<Head(batch), record>>) /\ Advance
          /\ UNCHANGED <<queue, accepted, batchOf, batches, skipped, rejected>>
      BY <1>9 DEF PutRecord
    <2>2. Settled' = Settled \cup {<<Head(batch), record>>}
      <3>1. written \in Seq(Records) /\ <<Head(batch), record>> \in Records
        BY <1>8, <2>1 DEF FeederIInv, FeederTypeOK
      <3>2. ElementsOf(written') = ElementsOf(written) \cup {<<Head(batch), record>>}
        <4>1. ElementsOf(Append(written, <<Head(batch), record>>)) = ElementsOf(written) \cup {<<Head(batch), record>>}
          BY <3>1, ElementsOfAppend
        <4>2. QED
          BY <2>1, <4>1
      <3>3. QED
        BY <2>1, <3>2 DEF Settled
    <2>3. QED
      BY <2>1, <2>2, AdvanceKeepsAccounts, AdvanceKeepsStored DEF Outcome
  <1>10. CASE GiveUpRecord
    <2>1. /\ phase = "putting" /\ rejected' = rejected \cup {<<Head(batch), record>>} /\ Advance
          /\ UNCHANGED <<queue, accepted, batchOf, batches, skipped, written>>
      BY <1>10 DEF GiveUpRecord
    <2>2. Settled' = Settled \cup {<<Head(batch), record>>}
      BY <2>1 DEF Settled
    <2>3. QED
      BY <2>1, <2>2, AdvanceKeepsAccounts, AdvanceKeepsStored DEF Outcome
  <1>11. CASE RaiseFromItem
    <2>1. /\ phase = "putting" /\ Raises /\ batch' = <<>> /\ phase' = "collecting" /\ batch # <<>>
          /\ UNCHANGED <<queue, accepted, batchOf, written, skipped, rejected>>
      BY <1>11 DEF RaiseFromItem, FeederIInv, Order, OneBatch
    <2>2. /\ Len(batch) > 0 /\ Off' = Off + Len(batch) /\ Off' <= Len(accepted)
          /\ Head(batch) = batch[1]
      <3>1. Len(batch') = 0 /\ Len(batch) > 0
        BY <1>1, <2>1, EmptySeq
      <3>2. Off' = Len(accepted) - 0 - Len(queue)
        BY <2>1, <3>1 DEF Off
      <3>3. QED
        BY <1>2, <2>1, <3>1, <3>2
    <2>3. \A k \in 1..Len(batch) : batch[k] = accepted[Off + k] /\ batchOf[batch[k]] = BatchNo
      BY DEF FeederIInv, Order, Lined, OneBatch
    <2>4. Head(batch) = accepted[Off + 1] /\ batchOf[accepted[Off + 1]] = BatchNo
      <3>1. 1 \in 1..Len(batch)
        BY <1>2, <2>2
      <3>2. QED
        BY <2>2, <2>3, <3>1
    <2>5. accepted[Off + 1] \notin skipped
      <3>1. \A k \in 1..Off : accepted[k] # accepted[Off + 1]
        BY <1>2, <2>2 DEF FeederIInv, Order, AcceptedOnce
      <3>2. QED
        BY <3>1 DEF FeederIInv, Outcome, SkippedBehind
    <2>6. RaisesAt[accepted[Off + 1]] > 0
      <3>1. record = RaisesAt[Head(batch)]
        BY <2>1, Zenon DEF Raises
      <3>2. record \in 1..RecordsOf[Head(batch)]
        BY <2>1 DEF FeederIInv, FeederTypeOK
      <3>3. Head(batch) \in Items /\ RecordsOf[Head(batch)] \in Nat
        BY <1>1, <2>1, HeadTailProperties
      <3>4. QED
        BY <2>4, <3>1, <3>2, <3>3
    <2>7. ASSUME NEW k \in 1..Off', k > Off PROVE Accounted(k)'
      <3>1. k - Off \in 1..Len(batch) /\ Off + (k - Off) = k /\ Off + 1 \in 1..k
        BY <1>2, <2>2, <2>7
      <3>2. batchOf[accepted[k]] = BatchNo
        BY <2>3, <3>1
      <3>3. \E j \in 1..k : /\ accepted[j] \notin skipped
                             /\ RaisesAt[accepted[j]] > 0
                             /\ batchOf[accepted[j]] = batchOf[accepted[k]]
        BY <2>4, <2>5, <2>6, <3>1, <3>2
      <3>4. QED
        BY <2>1, <3>3 DEF Accounted, CutOff
    <2>8. QED
      BY <1>2, <2>1, <2>2, <2>7, LeavingKeepsOutcome
  <1>12. QED
    BY <1>3, <1>4, <1>6, <1>7, <1>9, <1>10, <1>11 DEF FeederNext, FeederThread

-----------------------------------------------------------------------------
LEMMA Invariant == FeederSpec => []FeederIInv
  <1>1. FeederIInv /\ [FeederNext]_feedVars => FeederIInv'
    BY NextKeepsTypes, NextKeepsOrder, NextKeepsOutcome DEF FeederIInv
  <1>2. QED
    BY FeederInitIInv, <1>1, PTL DEF FeederSpec

(* What send_to_storage answered SUCCESS for is stored, left out, rejected  *)
(* with a line in the log or still on its way, unless it raised or stood    *)
(* behind an item that raised in the batch __send_to_storage was processing.*)
THEOREM AcceptedIsAccountedFor == FeederSpec => []LostOnlyBehindRaising
  BY Invariant, IInvImplies, PTL

(* __send_to_storage puts records into the event storage in the order in    *)
(* which send_to_storage accepted their items, each one once.               *)
THEOREM StorageOrderIsAcceptance == FeederSpec => []StoredInOrder
  BY Invariant, IInvImplies, PTL

-----------------------------------------------------------------------------
(* The sending half                                                        *)

IInv ==
    /\ TypeOK
    /\ FuturesSound
    /\ PackCovered
    /\ ClearedWasHandedOver
    /\ ClearedWasDelivered

USE UplinkAssumption

(* The open pack is a prefix of what is stored, so that a put() behind it    *)
(* leaves it as it is.                                                       *)
LEMMA PutKeepsPack ==
    ASSUME EventStorageTypeOK, NEW e \in Events, Put(e)
    PROVE  PackData' = PackData
  <1>1. SubSeq(Append(stored, e), 1, packLen) = SubSeq(stored, 1, packLen)
    BY SMT DEF EventStorageTypeOK
  <1>2. EventPack' = EventPack
    BY <1>1 DEF Put, EventPack
  <1>3. QED
    BY <1>2, Zenon DEF PackData, EventsOf, DataOf

(* get_event_pack() and the end of a pack keep the storage well formed.      *)
LEMMA StorageTypes ==
    ASSUME EventStorageTypeOK
    PROVE  /\ \A e \in Events : Put(e) => EventStorageTypeOK'
           /\ GetEventPack => EventStorageTypeOK'
           /\ EventPackProcessingDone => EventStorageTypeOK'
           /\ UNCHANGED stored /\ packLen' = 0 => EventStorageTypeOK'
           /\ UNCHANGED esVars => EventStorageTypeOK' /\ PackData' = PackData
  <1>1. \A e \in Events : Put(e) => EventStorageTypeOK'
    BY SMT DEF EventStorageTypeOK, Put
  <1>2. GetEventPack => EventStorageTypeOK'
    BY SMT DEF EventStorageTypeOK, GetEventPack
  <1>3. EventPackProcessingDone => EventStorageTypeOK'
    BY SMT DEF EventStorageTypeOK, EventPackProcessingDone
  <1>4. UNCHANGED stored /\ packLen' = 0 => EventStorageTypeOK'
    BY SMT DEF EventStorageTypeOK
  <1>5. UNCHANGED esVars => EventStorageTypeOK' /\ PackData' = PackData
    BY Zenon DEF esVars, EventStorageTypeOK, PackData, DataOf, EventsOf, EventPack
  <1>6. QED
    BY <1>1, <1>2, <1>3, <1>4, <1>5

(* The messages of a device carry its data, section by section.              *)
LEMMA MessagesCarryData ==
    ASSUME TypeOK, NEW d \in Devices, NEW parts \in SUBSET Parts
    PROVE  /\ MessagesOf(d, parts) \subseteq Messages
           /\ \A m \in MessagesOf(d, parts) :
                 /\ m.data \subseteq {x \in accumulated[d] : x[2] \in parts}
                 /\ m.status = "pending"
           /\ \A x \in accumulated[d] : x[2] \in parts => x \in DataIn(MessagesOf(d, parts))
  <1>1. accumulated[d] \in SUBSET Data
    BY DEF TypeOK
  <1>2. MessagesOf(d, parts) \subseteq Messages
    BY <1>1 DEF MessagesOf, MessageOf, Messages
  <1>3. \A m \in MessagesOf(d, parts) :
           /\ m.data \subseteq {x \in accumulated[d] : x[2] \in parts}
           /\ m.status = "pending"
    BY DEF MessagesOf, MessageOf
  <1>4. ASSUME NEW x \in accumulated[d], x[2] \in parts
        PROVE  x \in DataIn(MessagesOf(d, parts))
    <2>1. MessageOf(d, x[2]) \in MessagesOf(d, parts)
      BY <1>4 DEF MessagesOf
    <2>2. x \in MessageOf(d, x[2]).data
      BY DEF MessageOf
    <2>3. QED
      BY <2>1, <2>2 DEF DataIn
  <1>5. QED
    BY <1>2, <1>3, <1>4

(* The invariant holds initially.                                            *)
LEMMA InitIInv == Init => IInv
  <1> SUFFICES ASSUME Init PROVE IInv
    OBVIOUS
  <1>1. TypeOK
    <2>1. EventStorageTypeOK
      BY EmptySeq, SMT DEF Init, EventStorageInit, EventStorageTypeOK
    <2>2. 0 \in 0 .. MaxCrashes
      BY SMT DEF UplinkAssumption
    <2>3. accumulated \in [Devices -> SUBSET Data]
      BY DEF Init
    <2>4. QED
      BY <2>1, <2>2, <2>3, Zenon DEF Init, TypeOK
  <1>2. FuturesSound /\ PackCovered
    BY DEF Init, FuturesSound, PackCovered
  <1>3. ClearedWasHandedOver /\ ClearedWasDelivered
    BY DEF Init, ClearedWasHandedOver, ClearedWasDelivered, DataOf
  <1>4. QED
    BY <1>1, <1>2, <1>3 DEF IInv

-----------------------------------------------------------------------------
(* The actions that move no event out of the storage and settle no history   *)
(* of cleared events keep the two results.                                   *)
LEMMA KeepsResults ==
    ASSUME ClearedWasHandedOver, ClearedWasDelivered,
           UNCHANGED <<cleared, raisedFor, unconfirmed>>,
           handedOver \subseteq handedOver', delivered \subseteq delivered'
    PROVE  ClearedWasHandedOver' /\ ClearedWasDelivered'
  BY DEF ClearedWasHandedOver, ClearedWasDelivered, DataOf

LEMMA StoreStep ==
    ASSUME IInv, NEW e \in Events, Store(e)
    PROVE  IInv'
  <1> USE DEF IInv
  <1>1. UNCHANGED <<threadVars, flagVars, clientVars, historyVars>> /\ Put(e)
    BY DEF Store
  <1>2. TypeOK'
    <2>1. EventStorageTypeOK'
      BY <1>1, StorageTypes DEF TypeOK
    <2>2. QED
      BY <1>1, <2>1, Zenon DEF TypeOK, threadVars, flagVars, clientVars, historyVars
  <1>3. FuturesSound'
    BY <1>1 DEF FuturesSound, threadVars, historyVars
  <1>4. PackCovered'
    <2>1. PackData' = PackData
      BY <1>1, PutKeepsPack DEF TypeOK
    <2>2. QED
      BY <1>1, <2>1 DEF PackCovered, threadVars, historyVars, DataIn
  <1>5. QED
    BY <1>1, <1>2, <1>3, <1>4, KeepsResults DEF historyVars

LEMMA ReadPackStep ==
    ASSUME IInv, ReadPack
    PROVE  IInv'
  <1> USE DEF IInv
  <1>1. EventStorageTypeOK'
    BY StorageTypes DEF ReadPack, TypeOK
  <1>2. TypeOK'
    <2>1. keys' \subseteq Devices
      <3>1. stored' = stored /\ packLen' \in 0 .. Len(stored)
        BY <1>1 DEF ReadPack, GetEventPack, esVars, EventStorageTypeOK
      <3>2. SubSeq(stored, 1, packLen') \in Seq(Events)
        BY <3>1, SMT DEF TypeOK, EventStorageTypeOK
      <3>3. EventsOf(SubSeq(stored, 1, packLen')) \subseteq Events
        BY <3>2, ElementOfSeq, LenProperties DEF EventsOf
      <3>4. QED
        BY <3>3 DEF ReadPack, TypeOK
    <2>2. accumulated' \in [Devices -> SUBSET Data]
      BY DEF ReadPack, TypeOK, DataOf
    <2>3. QED
      BY <1>1, <2>1, <2>2, Zenon DEF ReadPack, TypeOK, flagVars, clientVars
  <1>3. FuturesSound'
    BY DEF ReadPack, FuturesSound
  <1>4. PackCovered'
    <2>1. PackData' = DataOf(EventsOf(SubSeq(stored, 1, packLen')))
      <3>1. stored' = stored
        BY DEF ReadPack, GetEventPack, esVars
      <3>2. QED
        BY <3>1 DEF PackData, EventPack, DataOf, EventsOf
    <2>2. ASSUME NEW x \in PackData'
          PROVE  DeviceOf[x[1]] \in keys' /\ x \in accumulated'[DeviceOf[x[1]]]
      <3>1. x \in Data /\ x[1] \in EventsOf(SubSeq(stored, 1, packLen')) \ Unparsable
        BY <2>1, <2>2 DEF DataOf
      <3>2. DeviceOf[x[1]] \in Devices
        BY <3>1 DEF Data
      <3>3. DeviceOf[x[1]] \in keys'
        BY <3>1 DEF ReadPack
      <3>4. x \in accumulated'[DeviceOf[x[1]]]
        BY <2>1, <2>2, <3>2 DEF ReadPack
      <3>5. QED
        BY <3>3, <3>4
    <2>3. pc' = "accumulated"
      BY DEF ReadPack
    <2>4. QED
      BY <2>2, <2>3 DEF PackCovered
  <1>5. QED
    BY <1>2, <1>3, <1>4, KeepsResults DEF ReadPack

(* The actions that only move the thread along its loop.                     *)
LEMMA MoveStep ==
    ASSUME IInv, CheckConnection \/ YieldToRpcReply \/ FinishSending \/ EnterConfirmation
    PROVE  IInv'
  <1> USE DEF IInv
  <1>1. /\ UNCHANGED <<esVars, keys, accumulated, published, confirming, flagVars,
                       clientVars, historyVars>>
        /\ todo' \in {todo, keys}
    BY DEF CheckConnection, YieldToRpcReply, FinishSending, EnterConfirmation
  <1>2. EventStorageTypeOK' /\ PackData' = PackData
    BY <1>1, StorageTypes DEF TypeOK
  <1>3. TypeOK'
    <2>1. pc' \in {"idle", "accumulated", "yielding", "sending", "sent", "draining", "drained",
                   "confirming", "confirmed"}
      BY DEF CheckConnection, YieldToRpcReply, FinishSending, EnterConfirmation
    <2>2. todo' \subseteq Devices
      BY <1>1 DEF TypeOK
    <2>3. QED
      BY <1>1, <1>2, <2>1, <2>2, Zenon DEF TypeOK, flagVars, clientVars, historyVars
  <1>4. FuturesSound'
    BY <1>1 DEF FuturesSound, historyVars
  <1>5. PackCovered'
    <2>1. DataIn(published)' = DataIn(published)
      BY <1>1 DEF DataIn
    <2>2. CASE CheckConnection
      BY <1>1, <1>2, <2>1, <2>2 DEF CheckConnection, PackCovered, historyVars
    <2>3. CASE YieldToRpcReply
      BY <1>1, <1>2, <2>1, <2>3 DEF YieldToRpcReply, PackCovered, historyVars
    <2>4. CASE FinishSending
      BY <1>1, <1>2, <2>1, <2>4 DEF FinishSending, PackCovered, historyVars
    <2>5. CASE EnterConfirmation
      BY <1>1, <1>2, <2>1, <2>5 DEF EnterConfirmation, PackCovered, historyVars
    <2>6. QED
      BY <2>2, <2>3, <2>4, <2>5
  <1>6. QED
    BY <1>1, <1>3, <1>4, <1>5, KeepsResults DEF historyVars

LEMMA PublishDeviceStep ==
    ASSUME IInv, NEW d \in Devices, PublishDevice(d)
    PROVE  IInv'
  <1> USE DEF IInv
  <1> DEFINE new == MessagesOf(d, Parts)
  <1>1. EventStorageTypeOK' /\ PackData' = PackData
    BY StorageTypes DEF TypeOK, PublishDevice
  <1>2. /\ new \subseteq Messages
        /\ \A m \in new : m.data \subseteq accumulated[d] /\ m.status = "pending"
        /\ \A x \in accumulated[d] : x \in DataIn(new)
    <2>1. \A x \in accumulated[d] : x[2] \in Parts
      BY DEF TypeOK, Data
    <2>2. QED
      BY <2>1, MessagesCarryData
  <1> HIDE DEF new
  <1>3. published' = published \cup new
    BY DEF PublishDevice, new
  <1>4. TypeOK'
    <2>1. /\ published' \subseteq Messages /\ handedOver' \subseteq Data /\ todo' \subseteq Devices
          /\ accumulated' \in [Devices -> SUBSET Data]
      BY <1>2, <1>3 DEF PublishDevice, TypeOK
    <2>2. QED
      BY <1>1, <2>1, Zenon DEF PublishDevice, TypeOK, flagVars, clientVars
  <1>5. FuturesSound'
    BY <1>2, <1>3 DEF PublishDevice, FuturesSound
  <1>6. PackCovered'
    <2>1. ASSUME NEW x \in PackData
          PROVE  \/ DeviceOf[x[1]] \in todo' /\ x \in accumulated'[DeviceOf[x[1]]]
                 \/ x \in DataIn(published')
      <3>1. DataIn(published') = DataIn(published) \cup DataIn(new)
        BY <1>3 DEF DataIn
      <3>2. CASE x \in DataIn(published)
        BY <3>1, <3>2
      <3>3. CASE DeviceOf[x[1]] = d /\ x \in accumulated[d]
        BY <3>1, <3>3, <1>2
      <3>4. CASE DeviceOf[x[1]] # d /\ DeviceOf[x[1]] \in todo /\ x \in accumulated[DeviceOf[x[1]]]
        BY <3>4 DEF PublishDevice, TypeOK
      <3>5. QED
        BY <3>2, <3>3, <3>4 DEF PackCovered, PublishDevice
    <2>2. QED
      BY <1>1, <2>1 DEF PackCovered, PublishDevice, DataIn
  <1>7. QED
    BY <1>4, <1>5, <1>6, KeepsResults DEF PublishDevice

LEMMA PublishRaisesStep ==
    ASSUME IInv, NEW d \in Devices, PublishRaises(d)
    PROVE  IInv'
  <1> USE DEF IInv
  <1>1. EventStorageTypeOK' /\ PackData' = PackData
    BY StorageTypes DEF TypeOK, PublishRaises
  <1>2. PICK parts \in {{}, {"attributes"}} :
           /\ published' = published \cup MessagesOf(d, parts)
           /\ handedOver' = handedOver \cup {x \in accumulated[d] : x[2] \in parts}
    BY DEF PublishRaises
  <1>3. parts \in SUBSET Parts
    BY <1>2 DEF Parts
  <1> DEFINE new == MessagesOf(d, parts)
  <1>4. /\ new \subseteq Messages
        /\ \A m \in new : m.data \subseteq {x \in accumulated[d] : x[2] \in parts} /\ m.status = "pending"
    BY <1>3, MessagesCarryData
  <1>5. published' = published \cup new
    BY <1>2
  <1> HIDE DEF new
  <1>6. TypeOK'
    <2>1. /\ published' \subseteq Messages /\ handedOver' \subseteq Data
          /\ todo' \subseteq Devices /\ risk' \subseteq {"raised", "skipped"}
      BY <1>2, <1>4, <1>5 DEF PublishRaises, TypeOK
    <2>2. QED
      BY <1>1, <2>1, Zenon DEF PublishRaises, TypeOK, flagVars, clientVars
  <1>7. FuturesSound'
    BY <1>2, <1>4, <1>5 DEF PublishRaises, FuturesSound
  <1>8. PackCovered'
    BY DEF PackCovered, PublishRaises
  <1>9. QED
    BY <1>2, <1>6, <1>7, <1>8, KeepsResults DEF PublishRaises

LEMMA DrainStep ==
    ASSUME IInv, DrainPublished
    PROVE  IInv'
  <1> USE DEF IInv
  <1>1. EventStorageTypeOK' /\ PackData' = PackData
    BY StorageTypes DEF TypeOK, DrainPublished
  <1>2. TypeOK'
    BY <1>1, Zenon DEF DrainPublished, TypeOK, flagVars, clientVars, historyVars
  <1>3. FuturesSound'
    BY DEF DrainPublished, FuturesSound, historyVars
  <1>4. PackCovered'
    <2>1. DataIn(confirming') = DataIn(published)
      BY DEF DrainPublished
    <2>2. QED
      BY <1>1, <2>1 DEF DrainPublished, PackCovered, historyVars, DataIn
  <1>5. QED
    BY <1>2, <1>3, <1>4, KeepsResults DEF DrainPublished, historyVars

LEMMA TestGateStep ==
    ASSUME IInv, TestGateAgain
    PROVE  IInv'
  <1> USE DEF IInv
  <1>1. EventStorageTypeOK' /\ PackData' = PackData
    BY StorageTypes DEF TypeOK, TestGateAgain
  <1>2. TypeOK'
    <2>1. /\ confirming' \subseteq Messages /\ orphans' \subseteq Messages
          /\ risk' \subseteq {"raised", "skipped"}
      BY DEF TestGateAgain, TypeOK
    <2>2. pc' \in {"confirming", "confirmed"}
      BY DEF TestGateAgain
    <2>3. QED
      BY <1>1, <2>1, <2>2, Zenon DEF TestGateAgain, TypeOK, flagVars
  <1>3. FuturesSound'
    BY DEF TestGateAgain, FuturesSound
  <1>4. PackCovered'
    <2>1. CASE Open /\ QualityOfService = 1
      BY <1>1, <2>1 DEF TestGateAgain, PackCovered, DataIn
    <2>2. CASE ~(Open /\ QualityOfService = 1)
      <3>1. pc' = "confirmed" /\ risk' = risk \cup {"skipped"} /\ UNCHANGED handedOver
        BY <2>2 DEF TestGateAgain
      <3>2. "raised" \in risk \/ PackData \subseteq DataIn(confirming)
        BY DEF TestGateAgain, PackCovered
      <3>3. DataIn(confirming) \subseteq handedOver
        BY DEF FuturesSound, DataIn
      <3>4. QED
        BY <1>1, <3>1, <3>2, <3>3 DEF PackCovered
    <2>3. QED
      BY <2>1, <2>2
  <1>5. QED
    BY <1>2, <1>3, <1>4, KeepsResults DEF TestGateAgain

LEMMA ConfirmStep ==
    ASSUME IInv, WaitForConfirmations
    PROVE  IInv'
  <1> USE DEF IInv
  <1>1. EventStorageTypeOK' /\ PackData' = PackData
    BY StorageTypes DEF TypeOK, WaitForConfirmations
  <1>2. TypeOK'
    BY <1>1, Zenon DEF WaitForConfirmations, TypeOK, flagVars, clientVars, historyVars
  <1>3. FuturesSound'
    BY DEF WaitForConfirmations, FuturesSound, historyVars
  <1>4. PackCovered'
    <2>1. CASE \A m \in confirming : m.status = "confirmed"
      <3>1. DataIn(confirming) \subseteq handedOver /\ DataIn(confirming) \subseteq delivered
        BY <2>1 DEF FuturesSound, DataIn
      <3>2. "raised" \in risk \/ PackData \subseteq DataIn(confirming)
        BY DEF WaitForConfirmations, PackCovered
      <3>3. pc' = "confirmed" /\ UNCHANGED historyVars
        BY <2>1 DEF WaitForConfirmations
      <3>4. QED
        BY <1>1, <3>1, <3>2, <3>3 DEF PackCovered, historyVars
    <2>2. CASE ~\A m \in confirming : m.status = "confirmed"
      BY <2>2 DEF WaitForConfirmations, PackCovered
    <2>3. QED
      BY <2>1, <2>2
  <1>5. QED
    BY <1>2, <1>3, <1>4, KeepsResults DEF WaitForConfirmations, historyVars

(* The step the results are about: the pack leaves the storage.              *)
LEMMA FinishPackStep ==
    ASSUME IInv, FinishPack
    PROVE  IInv'
  <1> USE DEF IInv
  <1> DEFINE events == EventsOf(EventPack)
  <1>1. events \subseteq Events
    <2>1. EventPack \in Seq(Events)
      BY SMT DEF TypeOK, EventStorageTypeOK, EventPack
    <2>2. QED
      BY <2>1, ElementOfSeq, LenProperties DEF EventsOf
  <1>2. EventStorageTypeOK'
    BY StorageTypes DEF TypeOK, FinishPack
  <1>3. TypeOK'
    <2>1. /\ cleared' \subseteq Events /\ raisedFor' \subseteq Events /\ unconfirmed' \subseteq Events
          /\ keys' \subseteq Devices /\ accumulated' \in [Devices -> SUBSET Data]
      BY <1>1 DEF FinishPack, TypeOK
    <2>2. QED
      BY <1>2, <2>1, Zenon DEF FinishPack, TypeOK, flagVars, clientVars
  <1>4. FuturesSound'
    BY DEF FinishPack, FuturesSound
  <1>5. PackCovered'
    BY DEF FinishPack, PackCovered
  <1>6. ClearedWasHandedOver' /\ ClearedWasDelivered'
    <2>1. CASE ~connected
      BY <2>1, KeepsResults DEF FinishPack
    <2>2. CASE connected
      <3>1. \/ "raised" \in risk
            \/ PackData \subseteq handedOver /\ ("skipped" \in risk \/ PackData \subseteq delivered)
        BY DEF FinishPack, PackCovered
      <3>2. /\ cleared' = cleared \cup events
            /\ raisedFor' = IF "raised" \in risk THEN raisedFor \cup events ELSE raisedFor
            /\ unconfirmed' = IF "skipped" \in risk THEN unconfirmed \cup events ELSE unconfirmed
            /\ UNCHANGED <<handedOver, delivered>>
        BY <2>2 DEF FinishPack
      <3>3. PackData = DataOf(events)
        BY DEF PackData
      <3> HIDE DEF events
      <3>4. ClearedWasHandedOver'
        BY <3>1, <3>2, <3>3 DEF ClearedWasHandedOver, DataOf
      <3>5. ClearedWasDelivered'
        BY <3>1, <3>2, <3>3 DEF ClearedWasDelivered, DataOf
      <3>6. QED
        BY <3>4, <3>5
    <2>3. QED
      BY <2>1, <2>2
  <1>7. QED
    BY <1>3, <1>4, <1>5, <1>6

(* The client settles a message: only what it says of that message changes.  *)
LEMMA SettleStep ==
    ASSUME IInv, NEW m \in InClient, NEW status \in {"confirmed", "failed"},
           Settle(m, status),
           delivered \subseteq delivered', delivered' \subseteq delivered \cup m.data,
           status = "confirmed" => m.data \subseteq delivered'
    PROVE  IInv'
  <1> USE DEF IInv
  <1> DEFINE n == [m EXCEPT !.status = status]
  <1>1. EventStorageTypeOK' /\ PackData' = PackData
    BY StorageTypes DEF TypeOK, Settle
  <1>2. m \in Messages
    BY DEF InClient, TypeOK
  <1>3. n \in Messages /\ n.data = m.data /\ n.status = status
    BY <1>2 DEF Messages
  <1> HIDE DEF n
  <1>4. /\ published' = IF m \in published THEN (published \ {m}) \cup {n} ELSE published
        /\ confirming' = IF m \in confirming THEN (confirming \ {m}) \cup {n} ELSE confirming
        /\ orphans' = orphans \ {m}
        /\ UNCHANGED <<esVars, pc, keys, accumulated, todo, flagVars, crashes,
                       handedOver, cleared, risk, raisedFor, unconfirmed>>
    BY DEF Settle, n
  <1>5. TypeOK'
    <2>1. /\ published' \subseteq Messages /\ confirming' \subseteq Messages
          /\ orphans' \subseteq Messages
      BY <1>3, <1>4 DEF TypeOK
    <2>2. delivered' \subseteq Data
      BY <1>2 DEF TypeOK, Messages
    <2>3. QED
      BY <1>1, <1>4, <2>1, <2>2, Zenon DEF TypeOK, flagVars
  <1>6. FuturesSound'
    BY <1>3, <1>4 DEF FuturesSound
  <1>7. PackCovered'
    <2>1. DataIn(published') = DataIn(published) /\ DataIn(confirming') = DataIn(confirming)
      BY <1>3, <1>4 DEF DataIn
    <2>2. QED
      BY <1>1, <1>4, <2>1 DEF PackCovered, DataIn
  <1>8. QED
    BY <1>4, <1>5, <1>6, <1>7, KeepsResults

LEMMA EnvironmentStep ==
    ASSUME IInv, Environment
    PROVE  IInv'
  <1> USE DEF IInv
  <1>1. UNCHANGED <<esVars, threadVars, clientVars, historyVars>>
    BY DEF Environment
  <1>2. connected' \in BOOLEAN /\ inProcess' \in BOOLEAN /\ rpcReplySent' \in BOOLEAN
    BY Zenon DEF Environment, SetConnected, SetInProcess, SetRpcReplySent, TypeOK
  <1>3. EventStorageTypeOK' /\ PackData' = PackData
    BY <1>1, StorageTypes DEF TypeOK
  <1>4. TypeOK'
    BY <1>1, <1>2, <1>3, Zenon DEF TypeOK, threadVars, clientVars, historyVars
  <1>5. FuturesSound' /\ PackCovered'
    BY <1>1, <1>3 DEF FuturesSound, PackCovered, threadVars, historyVars, DataIn
  <1>6. QED
    BY <1>1, <1>4, <1>5, KeepsResults DEF historyVars

LEMMA CrashStep ==
    ASSUME IInv, Crash
    PROVE  IInv'
  <1> USE DEF IInv
  <1>1. EventStorageTypeOK'
    BY StorageTypes DEF TypeOK, Crash
  <1>2. PICK arrived \in SUBSET InClient : delivered' = delivered \cup DataIn(arrived)
    BY DEF Crash
  <1>3. delivered' \subseteq Data
    BY <1>2 DEF TypeOK, InClient, DataIn, Messages
  <1>4. TypeOK'
    <2>1. crashes' \in 0 .. MaxCrashes
      BY SMT DEF Crash, TypeOK
    <2>2. accumulated' \in [Devices -> SUBSET Data]
      BY DEF Crash
    <2>3. QED
      BY <1>1, <1>3, <2>1, <2>2, Zenon DEF Crash, TypeOK
  <1>5. FuturesSound' /\ PackCovered'
    BY DEF Crash, FuturesSound, PackCovered
  <1>6. QED
    BY <1>2, <1>4, <1>5, KeepsResults DEF Crash

(* Every step of the system keeps the invariant.                             *)
LEMMA NextIInv == IInv /\ [Next]_vars => IInv'
  <1> SUFFICES ASSUME IInv, [Next]_vars PROVE IInv'
    OBVIOUS
  <1>1. CASE \E e \in Events : Store(e)
    BY <1>1, StoreStep
  <1>2. CASE SenderNext
    BY <1>2, ReadPackStep, MoveStep, PublishDeviceStep, PublishRaisesStep, DrainStep,
       TestGateStep, ConfirmStep, FinishPackStep, Zenon DEF SenderNext
  <1>3. CASE Deliver
    <2>1. PICK m \in InClient : delivered' = delivered \cup m.data /\ Settle(m, "confirmed")
      BY <1>3 DEF Deliver
    <2>2. QED
      BY <2>1, SettleStep
  <1>4. CASE Lose
    <2>1. PICK m \in InClient :
             delivered' \in {delivered, delivered \cup m.data} /\ Settle(m, "failed")
      BY <1>4 DEF Lose
    <2>2. QED
      BY <2>1, SettleStep
  <1>5. CASE Environment
    BY <1>5, EnvironmentStep
  <1>6. CASE Crash
    BY <1>6, CrashStep
  <1>7. CASE UNCHANGED vars
    <2>1. UNCHANGED <<esVars, threadVars, flagVars, clientVars, historyVars>>
      BY <1>7 DEF vars
    <2>2. EventStorageTypeOK' /\ PackData' = PackData
      BY <2>1, StorageTypes DEF IInv, TypeOK
    <2>3. TypeOK'
      BY <2>1, <2>2, Zenon DEF IInv, TypeOK, threadVars, flagVars, clientVars, historyVars
    <2>4. FuturesSound' /\ PackCovered'
      BY <2>1, <2>2 DEF IInv, FuturesSound, PackCovered, threadVars, historyVars, DataIn
    <2>5. QED
      BY <2>1, <2>3, <2>4, KeepsResults DEF IInv, historyVars
  <1>8. QED
    BY <1>1, <1>2, <1>3, <1>4, <1>5, <1>6, <1>7 DEF Next

(* The state of the sending thread is always well formed.                    *)
THEOREM SenderTypeCorrect == Spec => []TypeOK
  BY InitIInv, NextIInv, PTL DEF Spec, IInv

(* And at every place of its loop the data of the open pack are where that    *)
(* place expects them: nothing of a pack is lost on the way through the       *)
(* dictionary, the queue of futures and the list being confirmed.             *)
THEOREM SenderCoversPack == Spec => []PackCovered
  BY InitIInv, NextIInv, PTL DEF Spec, IInv

(* __read_data_from_storage never declares a pack processed before its data  *)
(* were passed to the client, unless a publish call raised in that pass.     *)
THEOREM SenderHandsOver == Spec => []ClearedWasHandedOver
  BY InitIInv, NextIInv, PTL DEF Spec, IInv

(* Nor before the platform has the data, unless a publish call raised or the *)
(* second test of the gate skipped the confirmations.                        *)
THEOREM SenderDelivers == Spec => []ClearedWasDelivered
  BY InitIInv, NextIInv, PTL DEF Spec, IInv
=============================================================================
