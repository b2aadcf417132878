----------------------- MODULE FileEventStorageProofs -----------------------
(***************************************************************************)
(* For any events, limits and number of restarts: the files stay in place, *)
(* the reader hands out every line once and in order, and what is lost is  *)
(* lost in one of the two windows of read().                               *)
(*                                                                         *)
(* The argument compares positions: of the reader, of the state file, and  *)
(* of the lines, whose order is that in which put() wrote them.            *)
(***************************************************************************)
EXTENDS FileEventStorage, TLAPS, SequenceTheorems, FiniteSetTheorems, WellFoundedInduction

\* Line k of file f comes behind position p, and the events of such lines.
Behind(p, f, k) == f > p.file \/ (f = p.file /\ k > p.line)
EventsBehind(d, p) == {e \in Events : \E f \in DOMAIN d : \E k \in DOMAIN d[f] : Behind(p, f, k) /\ d[f][k] = e}

\* Where a process started now would begin to read.
SavedPos == IF stateFile # Torn /\ stateFile.file \in DOMAIN disk THEN stateFile ELSE Pos(0, 0)
Unsaved == EventsBehind(disk, SavedPos)
ToBeRead == EventsBehind(disk, newPos)
InBatch == ElementsOf(batch)
Accepted == ElementsOf(accepted)

\* The reader and the state file are at positions there are, no file is older
\* than that of current_pos nor newer than that of the writer, and the limit of
\* files holds for the writer that passed its test.  The file of current_pos is
\* deleted before the reader goes on to another.
DiskOK ==
    /\ newPos.file \in DOMAIN disk /\ newPos.line <= Len(disk[newPos.file])
    /\ writerFile \in DOMAIN disk
    /\ \A f \in DOMAIN disk : currentPos.file <= f /\ f <= writerFile
    /\ currentPos.file \in DOMAIN disk => newPos.file = currentPos.file
    /\ writer = "writing" => Cardinality(DOMAIN disk) <= MaxFileCount + 1
    /\ Cardinality({f \in DOMAIN disk : disk[f] # <<>>}) <= MaxFileCount + 1

PositionsOK ==
    /\ stateFile # Torn =>
        /\ stateFile.file <= lastName
        /\ stateFile.file \in DOMAIN disk =>
            /\ stateFile.line <= Len(disk[stateFile.file])
            /\ stateFile.file < newPos.file \/ (stateFile.file = newPos.file /\ stateFile.line <= newPos.line)
    /\ reader = "written" => stateFile = newPos
    /\ Len(batch) + toRead <= MaxReadRecords

\* The lines, one file behind the other, are in the order of put(); the pack
\* comes before the lines to be read.
LinesInOrder(d, s) ==
    \A f, g \in DOMAIN d : \A k \in DOMAIN d[f], l \in DOMAIN d[g] :
        /\ d[f][k] \in ElementsOf(s)
        /\ f < g \/ (f = g /\ k < l) => PlaceIn(s, d[f][k]) < PlaceIn(s, d[g][l])

Order ==
    /\ \A k, l \in DOMAIN accepted : accepted[k] = accepted[l] => k = l
    /\ LinesInOrder(disk, accepted)
    /\ InBatch \subseteq Accepted
    /\ \A a, b \in DOMAIN batch : a < b => Place(batch[a]) < Place(batch[b])
    /\ \A e \in InBatch, u \in ToBeRead : Place(e) < Place(u)

\* What becomes of an event.
Accounts ==
    /\ Accepted \subseteq UNION {done, InBatch, ToBeRead, raced, cleared}
    /\ done \subseteq Accepted
    /\ InBatch \subseteq UNION {done, Unsaved, cleared}
    /\ torn \/ done \cap ToBeRead = {}
    /\ torn \/ reader = "written" \/ done \cap InBatch = {}
    /\ torn \/ stateFile = Torn \/ done \cap Unsaved = {}
    /\ reader = "written" => InBatch \subseteq done

IInv == FileTypeOK /\ DiskOK /\ PositionsOK /\ Order /\ Accounts

USE FileStorageAssumption DEF FileStorageAssumption

-----------------------------------------------------------------------------
(* Files and positions.                                                     *)
LEMMA LeastIn ==
    ASSUME NEW S \in SUBSET Nat, S # {}
    PROVE  Least(S) \in S /\ \A y \in S : Least(S) <= y
  <1> DEFINE R == OpToRel(<, Nat)
  <1>1. IsWellFoundedOn(R, Nat)
    BY NatLessThanWellFounded
  <1>2. \A x, y \in Nat : <<y, x>> \in R <=> y < x
    BY DEF OpToRel
  <1> HIDE DEF R
  <1>3. PICK x \in S : \A y \in S : ~(<<y, x>> \in R)
    BY <1>1, WFMin
  <1>4. x \in Nat /\ \A y \in S : y \in Nat /\ ~(y < x)
    BY <1>2, <1>3, Zenon
  <1>5. \A y \in S : x <= y
    BY <1>4
  <1>6. QED
    BY <1>3, <1>5, Zenon DEF Least

LEMMA GreatestIs ==
    ASSUME NEW S \in SUBSET Nat, NEW x \in S, \A y \in S : y <= x
    PROVE  Greatest(S) = x
  <1>1. \A z \in S : (\A y \in S : y <= z) => z = x
    OBVIOUS
  <1>2. QED
    BY <1>1 DEF Greatest

(* The files of d all are files of c, or empty.                             *)
Within(d, c) == \A f \in DOMAIN d : d[f] = <<>> \/ (f \in DOMAIN c /\ d[f] = c[f])

LEMMA FewerLines ==
    ASSUME NEW d, NEW c, NEW p, Within(d, c)
    PROVE  /\ EventsBehind(d, p) \subseteq EventsBehind(c, p)
           /\ \A s : LinesInOrder(c, s) => LinesInOrder(d, s)
  <1>1. \A f \in DOMAIN d : \A k \in DOMAIN d[f] : f \in DOMAIN c /\ d[f] = c[f]
    BY DEF Within
  <1>2. EventsBehind(d, p) \subseteq EventsBehind(c, p)
    BY <1>1 DEF EventsBehind
  <1>3. ASSUME NEW s, LinesInOrder(c, s) PROVE LinesInOrder(d, s)
    BY <1>1, <1>3 DEF LinesInOrder
  <1>4. QED
    BY <1>2, <1>3

LEMMA FurtherOn ==
    ASSUME NEW d, DOMAIN d \subseteq Nat, \A f \in DOMAIN d : d[f] \in Seq(Events),
           NEW p \in Position, NEW q \in Position, p.file < q.file \/ (p.file = q.file /\ p.line <= q.line)
    PROVE  EventsBehind(d, q) \subseteq EventsBehind(d, p)
  <1>1. \A f \in Nat, k \in Nat : Behind(q, f, k) => Behind(p, f, k)
    BY DEF Behind, Position
  <1>2. \A f \in DOMAIN d : DOMAIN d[f] \subseteq Nat
    BY LenProperties
  <1>3. QED
    BY <1>1, <1>2 DEF EventsBehind

LEMMA LineMoved ==
    ASSUME NEW p \in Position, NEW l \in Nat
    PROVE  LET q == [p EXCEPT !.line = l]
           IN  q \in Position /\ q.file = p.file /\ q.line = l
  BY DEF Position

LEMMA WhatIsUnread ==
    ASSUME DOMAIN disk \subseteq Nat, \A f \in DOMAIN disk : disk[f] \in Seq(Events), newPos \in Position
    PROVE  Unread = ToBeRead
  <1>1. \A f \in DOMAIN disk : DOMAIN disk[f] = 1..Len(disk[f]) /\ Len(disk[f]) \in Nat
                               /\ \A k \in DOMAIN disk[f] : disk[f][k] \in Events
    BY LenProperties, ElementOfSeq
  <1>2. newPos.file \in Nat /\ newPos.line \in Nat
    BY DEF Position
  <1> DEFINE From(f) == IF f = newPos.file THEN newPos.line ELSE 0
             Files == {g \in DOMAIN disk : g >= newPos.file}
  <1>3. ASSUME NEW e PROVE e \in Unread <=> \E f \in Files : \E k \in From(f) + 1 .. Len(disk[f]) : disk[f][k] = e
    BY DEF Unread, UnreadOf
  <1>4. ASSUME NEW f \in DOMAIN disk, NEW k
        PROVE  f \in Files /\ k \in From(f) + 1 .. Len(disk[f]) <=> k \in DOMAIN disk[f] /\ Behind(newPos, f, k)
    BY <1>1, <1>2 DEF Behind
  <1>5. ASSUME NEW e
        PROVE  e \in Unread <=> \E f \in DOMAIN disk : \E k \in DOMAIN disk[f] : Behind(newPos, f, k) /\ disk[f][k] = e
    <2> HIDE DEF From
    <2>1. Files \subseteq DOMAIN disk
      OBVIOUS
    <2> HIDE DEF Files
    <2>2. QED
      BY <1>3, <1>4, <2>1
  <1>6. \A e \in Unread : e \in Events
    BY <1>1, <1>5
  <1>7. QED
    BY <1>5, <1>6 DEF ToBeRead, EventsBehind

(* The place of an event among those accepted.                              *)
LEMMA PlaceOf ==
    ASSUME NEW s, \A k, l \in DOMAIN s : s[k] = s[l] => k = l
    PROVE  /\ \A k \in DOMAIN s : PlaceIn(s, s[k]) = k
           /\ \A e \in ElementsOf(s) : PlaceIn(s, e) \in DOMAIN s /\ s[PlaceIn(s, e)] = e
  BY DEF PlaceIn, ElementsOf

LEMMA PlaceAppended ==
    ASSUME NEW s \in Seq(Events), NEW e \in Events \ ElementsOf(s),
           \A k, l \in DOMAIN s : s[k] = s[l] => k = l
    PROVE  LET t == Append(s, e)
           IN  /\ t \in Seq(Events) /\ \A k, l \in DOMAIN t : t[k] = t[l] => k = l
               /\ ElementsOf(t) = ElementsOf(s) \cup {e}
               /\ \A x \in ElementsOf(s) : PlaceIn(t, x) = PlaceIn(s, x) /\ PlaceIn(s, x) < PlaceIn(t, e)
  <1> DEFINE t == Append(s, e)
  <1>1. /\ t \in Seq(Events) /\ Len(s) \in Nat /\ Len(t) = Len(s) + 1
        /\ t[Len(s) + 1] = e /\ \A k \in 1..Len(s) : t[k] = s[k]
    BY AppendProperties, LenProperties
  <1>2. DOMAIN t = 1..(Len(s) + 1) /\ DOMAIN s = 1..Len(s)
    BY <1>1, LenProperties
  <1> HIDE DEF t
  <1>3. \A k \in DOMAIN t : k \in Int /\ ((k \in DOMAIN s /\ t[k] = s[k]) \/ (k = Len(s) + 1 /\ t[k] = e))
    BY <1>1, <1>2
  <1>4. \A k \in DOMAIN s : k \in DOMAIN t /\ t[k] = s[k] /\ s[k] # e /\ k < Len(s) + 1
    BY <1>1, <1>2 DEF ElementsOf
  <1>5. Len(s) + 1 \in DOMAIN t
    BY <1>1, <1>2
  <1>6. \A k, l \in DOMAIN t : t[k] = t[l] => k = l
    BY <1>3, <1>4
  <1>7. ElementsOf(t) = ElementsOf(s) \cup {e}
    BY <1>1, <1>3, <1>4, <1>5 DEF ElementsOf
  <1>8. PlaceIn(t, e) = Len(s) + 1
    BY <1>1, <1>5, <1>6, PlaceOf
  <1>9. ASSUME NEW x \in ElementsOf(s) PROVE PlaceIn(t, x) = PlaceIn(s, x) /\ PlaceIn(s, x) < PlaceIn(t, e)
    <2>1. PlaceIn(s, x) \in DOMAIN s /\ s[PlaceIn(s, x)] = x
      BY PlaceOf
    <2>2. PlaceIn(t, x) = PlaceIn(s, x)
      BY <1>4, <1>6, <2>1, PlaceOf
    <2>3. QED
      BY <1>4, <1>8, <2>1, <2>2
  <1>10. QED
    BY <1>1, <1>6, <1>7, <1>9 DEF t

-----------------------------------------------------------------------------
LEMMA TypesOfFiles ==
    ASSUME FileTypeOK
    PROVE  /\ DOMAIN disk \in SUBSET Nat /\ IsFiniteSet(DOMAIN disk)
           /\ \A f \in DOMAIN disk : /\ f \in Nat /\ 0 < f /\ f <= lastName
                                     /\ disk[f] \in Seq(Events) /\ Len(disk[f]) \in Nat
                                     /\ DOMAIN disk[f] = 1..Len(disk[f])
                                     /\ \A k \in DOMAIN disk[f] : disk[f][k] \in Events
           /\ newPos \in Position /\ newPos.file \in Nat /\ newPos.line \in Nat
           /\ currentPos \in Position /\ currentPos.file \in Nat /\ currentPos.line \in Nat
           /\ lastName \in Nat /\ writerFile \in Nat
           /\ SavedPos \in Position /\ SavedPos.file \in Nat /\ SavedPos.line \in Nat
  <1>1. /\ DOMAIN disk \subseteq 1..lastName /\ IsFiniteSet(DOMAIN disk) /\ lastName \in Nat /\ writerFile \in Nat
        /\ \A f \in DOMAIN disk : disk[f] \in Seq(Events)
        /\ newPos \in Position /\ currentPos \in Position /\ stateFile \in Position \cup {Torn}
    BY DEF FileTypeOK
  <1>2. \A f \in DOMAIN disk : Len(disk[f]) \in Nat /\ DOMAIN disk[f] = 1..Len(disk[f])
    BY <1>1, LenProperties
  <1>3. \A f \in DOMAIN disk : \A k \in DOMAIN disk[f] : disk[f][k] \in Events
    BY <1>1, <1>2, ElementOfSeq
  <1>4. SavedPos \in Position
    BY <1>1 DEF SavedPos, Pos, Position
  <1>5. \A p \in Position : p.file \in Nat /\ p.line \in Nat
    BY DEF Position
  <1>6. \A f \in 1..lastName : f \in Nat /\ 0 < f /\ f <= lastName
    BY <1>1
  <1>7. QED
    BY <1>1, <1>2, <1>3, <1>4, <1>5, <1>6

LEMMA IInvImplies == IInv => FilesInPlace /\ LossWindows /\ DoneStaysDone /\ PacksInOrder
  <1> SUFFICES ASSUME IInv PROVE FilesInPlace /\ LossWindows /\ DoneStaysDone /\ PacksInOrder
    OBVIOUS
  <1> USE DEF IInv
  <1>1. Unread = ToBeRead
    BY TypesOfFiles, WhatIsUnread
  <1>2. writerFile = Greatest(DOMAIN disk)
    BY TypesOfFiles, GreatestIs DEF DiskOK
  <1>3. FilesInPlace
    BY <1>2 DEF FilesInPlace, DiskOK
  <1>4. Pending = InBatch \cup ToBeRead
    BY <1>1 DEF Pending, InBatch
  <1>5. LossWindows
    BY <1>4 DEF LossWindows, Accounts, Accepted
  <1>6. DoneStaysDone
    BY <1>4 DEF DoneStaysDone, Accounts
  <1>7. PacksInOrder
    BY <1>1 DEF PacksInOrder, Order, InBatch
  <1>8. QED
    BY <1>3, <1>5, <1>6, <1>7

LEMMA InitIInv == Init => IInv
  <1> SUFFICES ASSUME Init PROVE IInv
    OBVIOUS
  <1>1. DOMAIN disk = {1} /\ disk[1] = <<>> /\ lastName = 1 /\ newPos = Pos(1, 0) /\ currentPos = Pos(1, 0)
        /\ stateFile = Pos(1, 0) /\ batch = <<>> /\ accepted = <<>> /\ writerFile = 1 /\ toRead = 0
    BY DEF Init
  <1>2. \A S : <<>> \in Seq(S) /\ Len(<<>>) = 0
    BY EmptySeq
  <1>3. Pos(1, 0) \in Position /\ Pos(1, 0).file = 1 /\ Pos(1, 0).line = 0
    BY DEF Pos, Position
  <1>4. IsFiniteSet({1})
    BY FS_Singleton
  <1>5. FileTypeOK
    <2>1. IsFiniteSet(DOMAIN disk) /\ DOMAIN disk \subseteq 1..lastName
      BY <1>1, <1>4
    <2>2. stopped \in BOOLEAN /\ torn \in BOOLEAN
      BY Zenon DEF Init
    <2>3. /\ stateFile \in Position \cup {Torn} /\ currentPos \in Position /\ newPos \in Position
          /\ currentPos = newPos /\ lastName \in Nat /\ writerFile \in Nat
      BY <1>1, <1>3
    <2>4. /\ \A f \in DOMAIN disk : disk[f] \in Seq(Events)
          /\ batch \in Seq(Events) /\ Len(batch) = 0 /\ accepted \in Seq(Events)
      BY <1>1, <1>2
    <2>5. Len(batch) <= MaxReadRecords /\ toRead \in 0 .. MaxReadRecords
      BY <1>1, <2>4
    <2>6. /\ writer \in {"idle", "writing"} /\ recordsCount \in Nat
          /\ reader \in {"idle", "lines", "switch", "truncated", "written"}
          /\ crashes = 0 /\ done = {} /\ raced = {} /\ cleared = {}
      BY DEF Init
    <2>7. crashes \in 0 .. MaxCrashes /\ UNION {done, raced, cleared} \subseteq Events
      BY <2>6
    <2>8. QED
      BY <2>1, <2>2, <2>3, <2>6, <2>7, <2>4, <2>5, Zenon DEF FileTypeOK
  <1>6. DiskOK
    <2>1. {f \in DOMAIN disk : disk[f] # <<>>} = {}
      BY <1>1
    <2>2. Cardinality({f \in DOMAIN disk : disk[f] # <<>>}) = 0
      BY <2>1, FS_EmptySet
    <2>3. QED
      BY <1>1, <1>2, <1>3, <2>2 DEF Init, DiskOK
  <1>7. PositionsOK
    BY <1>1, <1>2, <1>3 DEF Init, PositionsOK
  <1>8. InBatch = {} /\ Accepted = {} /\ DOMAIN batch = {} /\ DOMAIN accepted = {}
    BY <1>1 DEF InBatch, Accepted, ElementsOf
  <1>9. \A p : EventsBehind(disk, p) = {}
    BY <1>1 DEF EventsBehind
  <1>10. Order
    BY <1>1, <1>8, <1>9 DEF Order, LinesInOrder, ToBeRead
  <1>11. Accounts
    BY <1>8, <1>9 DEF Init, Accounts, ToBeRead, Unsaved
  <1>12. QED
    BY <1>5, <1>6, <1>7, <1>10, <1>11 DEF IInv

-----------------------------------------------------------------------------
FlagsOK == stopped \in BOOLEAN /\ torn \in BOOLEAN
OthersOK ==
    /\ IsFiniteSet(DOMAIN disk) /\ DOMAIN disk \subseteq 1 .. lastName
    /\ \A f \in DOMAIN disk : disk[f] \in Seq(Events)
    /\ lastName \in Nat
    /\ stateFile \in Position \cup {Torn}
    /\ writer \in {"idle", "writing"}
    /\ writerFile \in Nat /\ recordsCount \in Nat
    /\ reader \in {"idle", "lines", "switch", "truncated", "written"}
    /\ currentPos \in Position /\ newPos \in Position
    /\ aliased => currentPos = newPos
    /\ batch \in Seq(Events) /\ Len(batch) <= MaxReadRecords
    /\ toRead \in 0 .. MaxReadRecords
    /\ crashes \in 0 .. MaxCrashes
    /\ accepted \in Seq(Events)
    /\ done \subseteq Events /\ raced \subseteq Events /\ cleared \subseteq Events

LEMMA TypesInParts == FileTypeOK <=> FlagsOK /\ OthersOK
  <1>1. UNION {done, raced, cleared} \subseteq Events
           <=> done \subseteq Events /\ raced \subseteq Events /\ cleared \subseteq Events
    OBVIOUS
  <1>2. QED
    BY <1>1, Zenon DEF FileTypeOK, FlagsOK, OthersOK

LEMMA NextKeepsFlags ==
    ASSUME FlagsOK, [Next]_vars
    PROVE  FlagsOK'
  <1> USE DEF FlagsOK, writerVars, history
  <1>1. CASE Stop
    BY <1>1, Zenon DEF Stop
  <1>2. CASE Restart
    BY <1>2, Zenon DEF Restart
  <1>3. CASE BeginWrite \/ WriteFails \/ \E e \in Events : WriteRecord(e)
    BY <1>3 DEF BeginWrite, WriteFails, WriteRecord
  <1>4. CASE BeginRead \/ ReadLines \/ ReadTornLine \/ LeaveFile \/ ReturnPack
    BY <1>4 DEF BeginRead, ReadLines, ReadTornLine, LeaveFile, ReturnPack
  <1>5. CASE TruncateState \/ WriteState \/ RemoveProcessedFiles \/ UNCHANGED vars
    BY <1>5 DEF TruncateState, WriteState, RemoveProcessedFiles, vars
  <1>6. QED
    BY <1>1, <1>2, <1>3, <1>4, <1>5 DEF Next

(* The invariant without the flags.                                         *)
Parts == OthersOK /\ DiskOK /\ PositionsOK /\ Order /\ Accounts

\* Steps that touch neither files nor positions nor the pack.
LEMMA IdleStepsKeep ==
    ASSUME IInv, WriteFails \/ BeginRead \/ ReturnPack \/ Stop \/ UNCHANGED vars
    PROVE  Parts'
  <1> USE DEF IInv
  <1>1. OthersOK
    BY TypesInParts
  <1>2. /\ UNCHANGED <<disk, lastName, stateFile, writerFile, recordsCount, currentPos, newPos, aliased,
                       batch, crashes, accepted, done, raced, cleared, torn>>
        /\ writer' = writer \/ writer' = "idle"
        /\ reader' = reader \/ (reader # "written" /\ reader' \in {"lines", "idle"})
        /\ toRead' = toRead \/ (batch = <<>> /\ toRead' = MaxReadRecords)
    BY DEF WriteFails, BeginRead, ReturnPack, Stop, vars, diskVars, writerVars, readerVars, history
  <1>3. UNCHANGED <<SavedPos, Unsaved, ToBeRead, InBatch, Accepted>> /\ \A e : Place(e)' = Place(e)
    BY <1>2 DEF SavedPos, Unsaved, ToBeRead, InBatch, Accepted, Place
  <1>4. OthersOK'
    BY <1>1, <1>2 DEF OthersOK
  <1>5. DiskOK'
    BY <1>2 DEF DiskOK
  <1>6. PositionsOK'
    BY <1>2, EmptySeq DEF PositionsOK
  <1>7. Order'
    BY <1>2, <1>3 DEF Order
  <1>8. Accounts'
    BY <1>2, <1>3 DEF Accounts
  <1>9. QED
    BY <1>4, <1>5, <1>6, <1>7, <1>8 DEF Parts

\* The writer goes on with its file, or starts a new one.
LEMMA BeginWriteKeeps ==
    ASSUME IInv, BeginWrite
    PROVE  Parts'
  <1> USE DEF IInv
  <1> DEFINE n == lastName + 1
  <1>1. OthersOK
    BY TypesInParts
  <1>2. /\ writer' = "writing" /\ Cardinality(DOMAIN disk) <= MaxFileCount
        /\ UNCHANGED <<stateFile, reader, currentPos, newPos, aliased, batch, toRead, crashes, accepted,
                       done, raced, cleared, torn>>
        /\ recordsCount' = 0 \/ recordsCount' = recordsCount
    BY DEF BeginWrite, readerVars, history
  <1>3. \/ UNCHANGED <<disk, lastName, writerFile>>
        \/ disk' = WithFile(n) /\ lastName' = n /\ writerFile' = n
    BY DEF BeginWrite, CreateDatafile, diskVars
  <1>4. n \notin DOMAIN disk /\ n \in Nat
    BY TypesOfFiles
  <1>5. DOMAIN WithFile(n) = DOMAIN disk \cup {n} /\ WithFile(n)[n] = <<>>
        /\ \A f \in DOMAIN disk : WithFile(n)[f] = disk[f]
    BY <1>4 DEF WithFile
  <1> HIDE DEF n
  <1>6. /\ \A f \in DOMAIN disk : f \in DOMAIN disk' /\ disk'[f] = disk[f]
        /\ \A f \in DOMAIN disk' : f \in DOMAIN disk \/ (f = n /\ disk'[f] = <<>>)
        /\ DOMAIN disk' = DOMAIN disk \/ DOMAIN disk' = DOMAIN disk \cup {n}
    BY <1>3, <1>5
  <1>7. OthersOK'
    <2>1. IsFiniteSet(DOMAIN disk')
      <3>1. IsFiniteSet(DOMAIN disk) /\ IsFiniteSet(DOMAIN disk \cup {n})
        BY TypesOfFiles, FS_AddElement
      <3>2. QED
        BY <1>6, <3>1
    <2>2. \A f \in DOMAIN disk' : disk'[f] \in Seq(Events)
      BY <1>6, TypesOfFiles, EmptySeq
    <2>3. lastName' \in Nat /\ writerFile' \in Nat /\ DOMAIN disk' \subseteq 1 .. lastName'
      BY <1>3, <1>4, <1>5, TypesOfFiles DEF n
    <2>4. QED
      BY <1>1, <1>2, <2>1, <2>2, <2>3 DEF OthersOK
  <1>8. DiskOK'
    <2>1. Cardinality(DOMAIN disk') <= MaxFileCount + 1
      <3>1. Cardinality(DOMAIN disk) \in Nat
        BY TypesOfFiles, FS_CardinalityType
      <3>2. Cardinality(DOMAIN disk') = Cardinality(DOMAIN disk) \/ Cardinality(DOMAIN disk') = Cardinality(DOMAIN disk) + 1
        BY <1>6, TypesOfFiles, FS_AddElement
      <3>3. QED
        BY <1>2, <3>1, <3>2
    <2>2. {f \in DOMAIN disk' : disk'[f] # <<>>} = {f \in DOMAIN disk : disk[f] # <<>>}
      BY <1>6
    <2>3. writerFile' \in DOMAIN disk' /\ \A f \in DOMAIN disk' : currentPos.file <= f /\ f <= writerFile'
      BY <1>3, <1>4, <1>5, TypesOfFiles DEF DiskOK, n
    <2>4. newPos.file \in DOMAIN disk' /\ newPos.line <= Len(disk'[newPos.file])
      BY <1>6 DEF DiskOK
    <2>5. currentPos.file \in DOMAIN disk' => newPos.file = currentPos.file
      <3>1. currentPos.file # n
        BY TypesOfFiles DEF DiskOK, n
      <3>2. QED
        BY <1>6, <3>1 DEF DiskOK
    <2>6. QED
      BY <1>2, <2>1, <2>2, <2>3, <2>4, <2>5 DEF DiskOK
  <1>9. stateFile # Torn => (stateFile.file \in DOMAIN disk' <=> stateFile.file \in DOMAIN disk)
                            /\ stateFile.file <= lastName'
    <2>1. stateFile # Torn => stateFile.file \in Nat /\ stateFile.file <= lastName
      BY <1>1 DEF OthersOK, Position, PositionsOK
    <2>2. stateFile # Torn => stateFile.file # n
      BY <2>1, TypesOfFiles DEF n
    <2>3. lastName <= lastName'
      BY <1>3, TypesOfFiles DEF n
    <2>4. QED
      BY <1>6, <2>1, <2>2, <2>3, <1>3, <1>4, TypesOfFiles DEF n
  <1>10. PositionsOK'
    BY <1>2, <1>6, <1>9 DEF PositionsOK
  <1>11. UNCHANGED SavedPos
    BY <1>2, <1>9 DEF SavedPos
  <1>12. Within(disk', disk) /\ Within(disk, disk')
    BY <1>6 DEF Within
  <1>13. UNCHANGED <<Unsaved, ToBeRead, InBatch, Accepted>> /\ \A e : Place(e)' = Place(e)
    <2>1. \A p : EventsBehind(disk', p) = EventsBehind(disk, p)
      BY <1>12, FewerLines
    <2>2. UNCHANGED <<Unsaved, ToBeRead>>
      BY <1>2, <1>11, <2>1 DEF Unsaved, ToBeRead
    <2>3. QED
      BY <1>2, <2>2 DEF InBatch, Accepted, Place
  <1>14. Order'
    BY <1>2, <1>12, <1>13, FewerLines DEF Order
  <1>15. Accounts'
    BY <1>2, <1>13 DEF Accounts
  <1>16. QED
    BY <1>7, <1>8, <1>10, <1>14, <1>15 DEF Parts

\* A line more at the end of the newest file.
LEMMA WriteRecordKeeps ==
    ASSUME IInv, NEW e \in Events, WriteRecord(e)
    PROVE  Parts'
  <1> USE DEF IInv
  <1> DEFINE w == writerFile
             n == Len(disk[w]) + 1
  <1>1. OthersOK
    BY TypesInParts
  <1>2. /\ writer = "writing" /\ writer' = "idle" /\ e \notin Accepted
        /\ disk' = [disk EXCEPT ![w] = Append(disk[w], e)] /\ accepted' = Append(accepted, e)
        /\ recordsCount' = recordsCount + 1
        /\ UNCHANGED <<lastName, stateFile, writerFile, reader, currentPos, newPos, aliased, batch, toRead,
                       crashes, done, raced, cleared, torn>>
    BY DEF WriteRecord, readerVars, Accepted
  <1>3. w \in DOMAIN disk /\ w \in Nat /\ disk[w] \in Seq(Events) /\ Len(disk[w]) \in Nat
    BY TypesOfFiles DEF DiskOK
  <1>4. /\ Append(disk[w], e) \in Seq(Events) /\ Len(Append(disk[w], e)) = n
        /\ Append(disk[w], e)[n] = e /\ \A k \in 1..Len(disk[w]) : Append(disk[w], e)[k] = disk[w][k]
    BY <1>3, AppendProperties
  <1>5. DOMAIN disk' = DOMAIN disk /\ disk'[w] = Append(disk[w], e) /\ \A f \in DOMAIN disk : f # w => disk'[f] = disk[f]
    BY <1>2, <1>3
  <1>6. /\ \A f \in DOMAIN disk : disk'[f] \in Seq(Events) /\ Len(disk[f]) <= Len(disk'[f])
        /\ \A f \in DOMAIN disk : \A k \in DOMAIN disk[f] : k \in DOMAIN disk'[f] /\ disk'[f][k] = disk[f][k]
        /\ \A f \in DOMAIN disk : \A k \in DOMAIN disk'[f] :
              (k \in DOMAIN disk[f] /\ disk'[f][k] = disk[f][k]) \/ (f = w /\ k = n /\ disk'[f][k] = e)
        /\ n \in Nat /\ n \in DOMAIN disk'[w] /\ disk'[w][n] = e
        /\ \A k \in DOMAIN disk[w] : k < n
    <2>1. DOMAIN disk'[w] = 1..n /\ DOMAIN disk[w] = 1..Len(disk[w])
      BY <1>3, <1>4, <1>5, LenProperties
    <2>2. \A f \in DOMAIN disk : disk'[f] \in Seq(Events) /\ Len(disk[f]) <= Len(disk'[f])
      <3>1. disk'[w] \in Seq(Events) /\ Len(disk[w]) <= Len(disk'[w])
        <4>1. Len(disk[w]) <= n
          BY <1>3
        <4>2. QED
          BY <1>4, <1>5, <4>1, Zenon
      <3>2. \A f \in DOMAIN disk : disk[f] \in Seq(Events) /\ Len(disk[f]) <= Len(disk[f])
        BY TypesOfFiles
      <3>3. QED
        BY <1>5, <3>1, <3>2, Zenon
    <2>3. \A k \in DOMAIN disk[w] : k \in DOMAIN disk'[w] /\ disk'[w][k] = disk[w][k] /\ k < n
      BY <1>3, <1>4, <1>5, <2>1
    <2>4. \A k \in DOMAIN disk'[w] : k \in DOMAIN disk[w] \/ k = n
      BY <1>3, <2>1
    <2>5. n \in Nat /\ n \in DOMAIN disk'[w] /\ disk'[w][n] = e
      BY <1>3, <1>4, <1>5, <2>1
    <2> HIDE DEF n
    <2>6. QED
      BY <1>5, <2>2, <2>3, <2>4, <2>5
  <1> HIDE DEF n
  <1>7. /\ accepted' \in Seq(Events)
        /\ \A k, l \in DOMAIN accepted' : accepted'[k] = accepted'[l] => k = l
        /\ Accepted' = Accepted \cup {e}
        /\ \A x \in Accepted : Place(x)' = Place(x) /\ Place(x) < PlaceIn(accepted', e)
    <2>1. accepted \in Seq(Events) /\ e \notin ElementsOf(accepted)
          /\ \A k, l \in DOMAIN accepted : accepted[k] = accepted[l] => k = l
      BY <1>1, <1>2 DEF OthersOK, Order, Accepted
    <2>2. QED
      BY <1>2, <2>1, PlaceAppended DEF Accepted, Place
  <1>8. OthersOK'
    BY <1>1, <1>2, <1>5, <1>6, <1>7 DEF OthersOK
  <1>9. DiskOK'
    <2>1. newPos.line <= Len(disk'[newPos.file])
      <3>1. newPos.file \in DOMAIN disk /\ newPos.line <= Len(disk[newPos.file]) /\ newPos.line \in Nat
            /\ Len(disk[newPos.file]) \in Nat
        BY TypesOfFiles DEF DiskOK
      <3>2. disk'[newPos.file] \in Seq(Events) /\ Len(disk[newPos.file]) <= Len(disk'[newPos.file])
        BY <1>6, <3>1
      <3>3. Len(disk'[newPos.file]) \in Nat
        BY <3>2, LenProperties
      <3>4. QED
        BY <3>1, <3>2, <3>3
    <2>2. Cardinality({f \in DOMAIN disk' : disk'[f] # <<>>}) <= MaxFileCount + 1
      <3> DEFINE T == {f \in DOMAIN disk' : disk'[f] # <<>>}
      <3>1. Cardinality(T) <= Cardinality(DOMAIN disk) /\ IsFiniteSet(T)
        BY <1>5, TypesOfFiles, FS_Subset
      <3>2. Cardinality(T) \in Nat /\ Cardinality(DOMAIN disk) \in Nat
        BY <3>1, TypesOfFiles, FS_CardinalityType
      <3>3. Cardinality(DOMAIN disk) <= MaxFileCount + 1
        BY <1>2 DEF DiskOK
      <3> HIDE DEF T
      <3>4. Cardinality(T) <= MaxFileCount + 1
        BY <3>1, <3>2, <3>3
      <3>5. QED
        BY <3>4 DEF T
    <2>3. QED
      BY <1>2, <1>5, <2>1, <2>2 DEF DiskOK
  <1>10. PositionsOK'
    <2>1. stateFile # Torn /\ stateFile.file \in DOMAIN disk => stateFile.line <= Len(disk'[stateFile.file])
      <3>1. stateFile # Torn => stateFile.line \in Nat
        BY <1>1 DEF OthersOK, Position
      <3>2. SUFFICES ASSUME stateFile # Torn, stateFile.file \in DOMAIN disk
                     PROVE  stateFile.line <= Len(disk'[stateFile.file])
        OBVIOUS
      <3>3. /\ stateFile.line <= Len(disk[stateFile.file]) /\ stateFile.line \in Nat
            /\ Len(disk[stateFile.file]) \in Nat
        BY <3>1, <3>2, TypesOfFiles DEF PositionsOK
      <3>4. disk'[stateFile.file] \in Seq(Events) /\ Len(disk[stateFile.file]) <= Len(disk'[stateFile.file])
        BY <1>6, <3>2
      <3>5. Len(disk'[stateFile.file]) \in Nat
        BY <3>4, LenProperties
      <3>6. QED
        BY <3>3, <3>4, <3>5
    <2>2. QED
      BY <1>2, <1>5, <2>1 DEF PositionsOK
  <1>11. UNCHANGED SavedPos
    BY <1>2, <1>5 DEF SavedPos
  <1>12. Behind(newPos, w, n) /\ Behind(SavedPos, w, n)
    <2>1. newPos.file <= w /\ newPos.line <= Len(disk[newPos.file])
      BY DEF DiskOK
    <2>2. Behind(newPos, w, n)
      BY <1>3, <2>1, TypesOfFiles DEF Behind, n
    <2>3. SavedPos.file <= w /\ (SavedPos.file = w => SavedPos.line <= Len(disk[w]))
      <3>1. CASE stateFile # Torn /\ stateFile.file \in DOMAIN disk
        BY <3>1 DEF SavedPos, PositionsOK, DiskOK
      <3>2. CASE ~(stateFile # Torn /\ stateFile.file \in DOMAIN disk)
        <4>1. SavedPos.file = 0 /\ SavedPos.line = 0
          BY <3>2 DEF SavedPos, Pos
        <4>2. QED
          BY <1>3, <4>1
      <3>3. QED
        BY <3>1, <3>2
    <2>4. Behind(SavedPos, w, n)
      BY <1>3, <2>3, TypesOfFiles DEF Behind, n
    <2>5. QED
      BY <2>2, <2>4
  <1>13. ASSUME NEW p, Behind(p, w, n) PROVE EventsBehind(disk', p) = EventsBehind(disk, p) \cup {e}
    BY <1>3, <1>5, <1>6, <1>13 DEF EventsBehind
  <1>14. ToBeRead' = ToBeRead \cup {e} /\ Unsaved' = Unsaved \cup {e} /\ UNCHANGED InBatch
    BY <1>2, <1>11, <1>12, <1>13 DEF ToBeRead, Unsaved, InBatch
  <1>15. LinesInOrder(disk', accepted')
    <2> SUFFICES ASSUME NEW f \in DOMAIN disk', NEW g \in DOMAIN disk',
                        NEW k \in DOMAIN disk'[f], NEW l \in DOMAIN disk'[g]
                 PROVE  /\ disk'[f][k] \in ElementsOf(accepted')
                        /\ f < g \/ (f = g /\ k < l) =>
                              PlaceIn(accepted', disk'[f][k]) < PlaceIn(accepted', disk'[g][l])
      BY DEF LinesInOrder
    <2>1. f <= w /\ f \in Nat /\ w \in Nat /\ g <= w /\ g \in Nat /\ f \in DOMAIN disk /\ g \in DOMAIN disk
      BY <1>3, <1>5, TypesOfFiles DEF DiskOK
    <2>2. \A h \in DOMAIN disk : \A m : m \in DOMAIN disk[h] => disk[h][m] \in Accepted
      BY DEF Order, LinesInOrder, Accepted
    <2>3. disk'[f][k] \in Accepted'
      BY <1>6, <1>7, <2>1, <2>2
    <2>4. ASSUME f < g \/ (f = g /\ k < l)
          PROVE  PlaceIn(accepted', disk'[f][k]) < PlaceIn(accepted', disk'[g][l])
      <3>1. CASE l \in DOMAIN disk[g] /\ k \in DOMAIN disk[f]
        <4>1. disk'[f][k] = disk[f][k] /\ disk'[g][l] = disk[g][l]
          BY <1>6, <2>1, <3>1
        <4>2. PlaceIn(accepted, disk[f][k]) < PlaceIn(accepted, disk[g][l])
          BY <2>1, <2>4, <3>1 DEF Order, LinesInOrder
        <4>3. QED
          BY <1>7, <2>1, <2>2, <3>1, <4>1, <4>2 DEF Place
      <3>2. CASE l \notin DOMAIN disk[g]
        <4>1. g = w /\ l = n /\ disk'[g][l] = e
          BY <1>6, <2>1, <3>2
        <4>2. k \in DOMAIN disk[f]
          <5>1. ~(f = w /\ k = n)
            BY <1>6, <2>1, <2>4, <4>1
          <5>2. QED
            BY <1>6, <2>1, <5>1
        <4>3. disk'[f][k] = disk[f][k] /\ disk[f][k] \in Accepted
          BY <1>6, <2>1, <2>2, <4>2
        <4>4. QED
          BY <1>7, <4>1, <4>3 DEF Place
      <3>3. CASE k \notin DOMAIN disk[f]
        <4>1. f = w /\ k = n
          BY <1>6, <2>1, <3>3
        <4>2. g = w /\ k < l
          BY <2>1, <2>4, <4>1
        <4>3. FALSE
          BY <1>6, <2>1, <4>1, <4>2
        <4>4. QED
          BY <4>3
      <3>4. QED
        BY <3>1, <3>2, <3>3
    <2>5. QED
      BY <2>3, <2>4 DEF Accepted
  <1>16. Order'
    <2>1. ASSUME NEW x \in InBatch, NEW u \in ToBeRead' PROVE Place(x)' < Place(u)'
      <3>1. x \in Accepted
        BY DEF Order
      <3>2. CASE u = e
        BY <1>7, <3>1, <3>2 DEF Place
      <3>3. CASE u \in ToBeRead
        <4>1. u \in Accepted /\ Place(x) < Place(u)
          BY <3>3 DEF Order, LinesInOrder, ToBeRead, EventsBehind, Accepted
        <4>2. QED
          BY <1>7, <3>1, <4>1
      <3>4. QED
        BY <1>14, <3>2, <3>3
    <2>2. ASSUME NEW a \in DOMAIN batch, NEW b \in DOMAIN batch, a < b PROVE Place(batch[a])' < Place(batch[b])'
      <3>1. batch[a] \in Accepted /\ batch[b] \in Accepted /\ Place(batch[a]) < Place(batch[b])
        BY <2>2 DEF Order, InBatch, ElementsOf
      <3>2. batch' = batch
        BY <1>2
      <3>3. QED
        BY <1>7, <3>1, <3>2 DEF Place
    <2>3. \A a, b \in DOMAIN batch' : a < b => Place(batch[a])' < Place(batch[b])'
      BY <1>2, <2>2
    <2>4. \A x \in InBatch', u \in ToBeRead' : Place(x)' < Place(u)'
      BY <1>14, <2>1
    <2>5. InBatch' \subseteq Accepted'
      BY <1>7, <1>14 DEF Order
    <2>6. QED
      BY <1>7, <1>15, <2>3, <2>4, <2>5 DEF Order
  <1>17. Accounts'
    BY <1>2, <1>7, <1>14 DEF Accounts, Order
  <1>18. QED
    BY <1>8, <1>9, <1>10, <1>16, <1>17 DEF Parts

LEMMA UnreadIsUnsaved ==
    ASSUME IInv
    PROVE  ToBeRead \subseteq Unsaved
  <1> USE DEF IInv
  <1>1. SavedPos.file < newPos.file \/ (SavedPos.file = newPos.file /\ SavedPos.line <= newPos.line)
    <2>1. CASE stateFile # Torn /\ stateFile.file \in DOMAIN disk
      BY <2>1 DEF SavedPos, PositionsOK
    <2>2. CASE ~(stateFile # Torn /\ stateFile.file \in DOMAIN disk)
      <3>1. SavedPos.file = 0
        BY <2>2 DEF SavedPos, Pos
      <3>2. QED
        BY <3>1, TypesOfFiles DEF DiskOK
    <2>3. QED
      BY <2>1, <2>2
  <1>2. QED
    BY <1>1, TypesOfFiles, FurtherOn DEF ToBeRead, Unsaved

\* The reader goes on in its file.
LEMMA ReadKeeps ==
    ASSUME IInv, ReadLines \/ ReadTornLine
    PROVE  Parts'
  <1> USE DEF IInv
  <1> DEFINE f == newPos.file
             L == newPos.line
             n == LinesRead
             part == SubSeq(disk[f], L + 1, L + n)
  <1>1. OthersOK
    BY TypesInParts
  <1>2. /\ batch' = batch \o part /\ toRead' = toRead - n
        /\ newPos' = [newPos EXCEPT !.line = L + n]
        /\ currentPos' = IF aliased THEN newPos' ELSE currentPos
        /\ reader = "lines" /\ reader' \in {"idle", "switch"}
        /\ UNCHANGED <<disk, lastName, stateFile, writer, writerFile, recordsCount, aliased, crashes,
                       accepted, done, raced, cleared, torn>>
    BY DEF ReadLines, ReadTornLine, MoveTo, diskVars, writerVars, history
  <1>3. /\ f \in DOMAIN disk /\ f \in Nat /\ L \in Nat /\ L <= Len(disk[f]) /\ Len(disk[f]) \in Nat
        /\ disk[f] \in Seq(Events) /\ DOMAIN disk[f] = 1..Len(disk[f])
        /\ \A k \in DOMAIN disk[f] : disk[f][k] \in Events
    BY TypesOfFiles DEF DiskOK
  <1>4. n \in Nat /\ n <= toRead /\ toRead \in Nat /\ L + n <= Len(disk[f])
    BY <1>1, <1>3 DEF OthersOK, LinesRead
  <1>5. newPos' \in Position /\ newPos'.file = f /\ newPos'.line = L + n
    <2>1. newPos \in Position /\ L + n \in Nat /\ newPos' = [newPos EXCEPT !.line = L + n]
      <3>1. newPos \in Position
        BY <1>1 DEF OthersOK
      <3>2. L + n \in Nat
        BY <1>3, <1>4
      <3>3. QED
        BY <1>2, <3>1, <3>2
    <2> HIDE DEF n, L
    <2>2. QED
      BY <2>1, LineMoved
  <1> HIDE DEF n
  <1>6. /\ part \in Seq(Events) /\ Len(part) = n
        /\ \A i \in 1..n : part[i] = disk[f][L + i]
    <2> HIDE DEF f, L
    <2>0. \A i \in L + 1 .. L + n : i \in 1..Len(disk[f])
      BY <1>3, <1>4
    <2>1. \A i \in L + 1 .. L + n : disk[f][i] \in Events
      BY <1>3, <2>0
    <2>2. /\ part \in Seq(Events) /\ Len(part) = IF L + 1 <= L + n THEN (L + n) - (L + 1) + 1 ELSE 0
          /\ \A i \in 1 .. (L + n) - (L + 1) + 1 : part[i] = disk[f][(L + 1) + i - 1]
      BY <1>3, <1>4, <2>1, SubSeqProperties
    <2> HIDE DEF part
    <2>3. Len(part) = n
      BY <1>3, <1>4, <2>2
    <2>4. ASSUME NEW i \in 1..n PROVE part[i] = disk[f][L + i]
      <3>1. i \in 1 .. (L + n) - (L + 1) + 1 /\ (L + 1) + i - 1 = L + i
        BY <1>3, <1>4
      <3>2. QED
        BY <2>2, <3>1
    <2>5. QED
      BY <2>2, <2>3, <2>4
  <1> HIDE DEF part, f, L
  <1>7. batch \in Seq(Events) /\ Len(batch) \in Nat /\ DOMAIN batch = 1..Len(batch) /\ DOMAIN part = 1..n
    BY <1>1, <1>6, LenProperties DEF OthersOK
  <1>8. /\ batch' \in Seq(Events) /\ Len(batch') = Len(batch) + n /\ DOMAIN batch' = 1..(Len(batch) + n)
        /\ \A i \in 1..(Len(batch) + n) : batch'[i] = IF i <= Len(batch) THEN batch[i] ELSE part[i - Len(batch)]
    <2>1. batch' \in Seq(Events) /\ Len(batch') = Len(batch) + n
      BY <1>2, <1>6, <1>7, ConcatProperties
    <2>2. QED
      BY <1>2, <1>6, <1>7, <2>1, ConcatProperties, LenProperties
  <1>9. \A i \in DOMAIN batch' :
           \/ i \in DOMAIN batch /\ i <= Len(batch) /\ batch'[i] = batch[i]
           \/ i > Len(batch) /\ i - Len(batch) \in 1..n /\ batch'[i] = disk[f][L + (i - Len(batch))]
    <2> SUFFICES ASSUME NEW i \in DOMAIN batch'
                 PROVE  \/ i \in DOMAIN batch /\ i <= Len(batch) /\ batch'[i] = batch[i]
                        \/ i > Len(batch) /\ i - Len(batch) \in 1..n /\ batch'[i] = disk[f][L + (i - Len(batch))]
      OBVIOUS
    <2>1. CASE i <= Len(batch)
      BY <1>4, <1>7, <1>8, <2>1
    <2>2. CASE ~(i <= Len(batch))
      <3>1. i \in Nat /\ i > Len(batch) /\ i - Len(batch) \in 1..n
        BY <1>4, <1>7, <1>8, <2>2
      <3>2. batch'[i] = part[i - Len(batch)]
        BY <1>8, <2>2
      <3>3. QED
        BY <1>6, <3>1, <3>2
    <2>3. QED
      BY <2>1, <2>2
  <1>10. \A i \in 1..n : L + i \in DOMAIN disk[f] /\ Behind(newPos, f, L + i)
    BY <1>3, <1>4 DEF Behind, f, L
  <1>11. \A i \in 1..n : disk[f][L + i] \in ToBeRead
    BY <1>3, <1>10 DEF ToBeRead, EventsBehind
  <1>12. \A e \in InBatch' : e \in InBatch \/ \E i \in 1..n : e = disk[f][L + i]
    BY <1>9 DEF InBatch, ElementsOf
  <1>13. InBatch \subseteq InBatch' /\ \A i \in 1..n : disk[f][L + i] \in InBatch'
    <2>1. \A i \in DOMAIN batch : i \in DOMAIN batch' /\ batch'[i] = batch[i]
      BY <1>4, <1>7, <1>8
    <2>2. ASSUME NEW i \in 1..n PROVE i + Len(batch) \in DOMAIN batch' /\ batch'[i + Len(batch)] = disk[f][L + i]
      <3>1. /\ i + Len(batch) \in 1..(Len(batch) + n) /\ ~(i + Len(batch) <= Len(batch))
            /\ (i + Len(batch)) - Len(batch) = i
        BY <1>4, <1>7
      <3>2. QED
        BY <1>6, <1>8, <3>1
    <2>3. QED
      BY <2>1, <2>2 DEF InBatch, ElementsOf
  <1>14. ToBeRead' \subseteq ToBeRead
    <2>1. newPos.file = newPos'.file /\ newPos.line <= newPos'.line
      BY <1>3, <1>4, <1>5 DEF f, L
    <2>2. EventsBehind(disk, newPos') \subseteq EventsBehind(disk, newPos)
      BY <1>5, <2>1, TypesOfFiles, FurtherOn
    <2>3. QED
      BY <1>2, <2>2 DEF ToBeRead
  <1>15. ToBeRead \subseteq ToBeRead' \cup InBatch'
    <2> SUFFICES ASSUME NEW e \in ToBeRead, e \notin ToBeRead' PROVE e \in InBatch'
      OBVIOUS
    <2>0. PICK g \in DOMAIN disk : \E k \in DOMAIN disk[g] : Behind(newPos, g, k) /\ disk[g][k] = e
      BY DEF ToBeRead, EventsBehind
    <2>1. PICK k \in DOMAIN disk[g] : Behind(newPos, g, k) /\ disk[g][k] = e
      BY <2>0
    <2>2. ~Behind(newPos', g, k)
      BY <1>2, <2>1 DEF ToBeRead, EventsBehind
    <2>3. g \in Nat /\ k \in Nat
      BY <2>1, TypesOfFiles
    <2>4. g = f /\ k > L /\ ~(k > L + n)
      BY <1>3, <1>5, <2>1, <2>2, <2>3 DEF Behind, f, L
    <2>5. k - L \in 1..n /\ k = L + (k - L)
      BY <1>3, <1>4, <2>3, <2>4
    <2>6. QED
      BY <1>13, <2>1, <2>4, <2>5
  <1>16. UNCHANGED <<SavedPos, Unsaved, Accepted>> /\ \A e : Place(e)' = Place(e)
    BY <1>2 DEF SavedPos, Unsaved, Accepted, Place
  <1>17. currentPos' \in Position /\ currentPos'.file = currentPos.file /\ (aliased => currentPos' = newPos')
    BY <1>1, <1>2, <1>5 DEF OthersOK, f
  <1>18. Len(batch') + toRead' <= MaxReadRecords /\ toRead' \in 0..MaxReadRecords /\ Len(batch') <= MaxReadRecords
    <2>1. Len(batch) + toRead <= MaxReadRecords /\ Len(batch) \in Nat /\ MaxReadRecords \in Nat
      BY <1>1, LenProperties DEF OthersOK, PositionsOK
    <2>2. Len(batch') = Len(batch) + n /\ toRead' = toRead - n
      BY <1>2, <1>7, <1>8
    <2>3. QED
      BY <1>4, <2>1, <2>2
  <1>19. OthersOK'
    BY <1>1, <1>2, <1>5, <1>8, <1>17, <1>18 DEF OthersOK
  <1>20. DiskOK'
    BY <1>2, <1>3, <1>4, <1>5, <1>17 DEF DiskOK, f
  <1>21. PositionsOK'
    <2>1. stateFile # Torn => stateFile.line \in Nat
      BY <1>1 DEF OthersOK, Position
    <2>2. stateFile # Torn /\ stateFile.file \in DOMAIN disk =>
             stateFile.file < f \/ (stateFile.file = f /\ stateFile.line <= L + n)
      BY <1>3, <1>4, <2>1 DEF PositionsOK, f, L
    <2>3. QED
      BY <1>2, <1>5, <1>18, <2>2 DEF PositionsOK
  <1>22. Order'
    <2>1. InBatch' \subseteq Accepted'
      BY <1>3, <1>10, <1>12, <1>16 DEF Order, LinesInOrder, Accepted
    <2>2. ASSUME NEW a \in DOMAIN batch', NEW b \in DOMAIN batch', a < b
          PROVE  Place(batch'[a]) < Place(batch'[b])
      <3>1. a \in Nat /\ b \in Nat
        BY <1>4, <1>7, <1>8
      <3>2. CASE b \in DOMAIN batch /\ b <= Len(batch) /\ batch'[b] = batch[b]
        <4>1. a \in DOMAIN batch /\ batch'[a] = batch[a]
          BY <1>7, <1>9, <2>2, <3>1, <3>2
        <4>2. QED
          BY <2>2, <3>2, <4>1 DEF Order
      <3>3. CASE b > Len(batch) /\ b - Len(batch) \in 1..n /\ batch'[b] = disk[f][L + (b - Len(batch))]
        <4>1. batch'[b] \in ToBeRead
          BY <1>11, <3>3
        <4>2. CASE a \in DOMAIN batch /\ batch'[a] = batch[a]
          BY <4>1, <4>2 DEF Order, InBatch, ElementsOf
        <4>3. CASE a - Len(batch) \in 1..n /\ batch'[a] = disk[f][L + (a - Len(batch))]
          <5>1. L + (a - Len(batch)) < L + (b - Len(batch))
            BY <1>3, <1>7, <2>2, <3>1
          <5>2. QED
            BY <1>3, <1>10, <3>3, <4>3, <5>1 DEF Order, LinesInOrder, Place
        <4>4. QED
          BY <1>9, <4>2, <4>3
      <3>4. QED
        BY <1>9, <3>2, <3>3
    <2>3. ASSUME NEW e \in InBatch', NEW u \in ToBeRead' PROVE Place(e) < Place(u)
      <3>1. u \in ToBeRead
        BY <1>14
      <3>2. CASE e \in InBatch
        BY <3>1, <3>2 DEF Order
      <3>3. ASSUME NEW i \in 1..n, e = disk[f][L + i] PROVE Place(e) < Place(u)
        <4>0. PICK g \in DOMAIN disk : \E k \in DOMAIN disk[g] : Behind(newPos', g, k) /\ disk[g][k] = u
          BY <1>2 DEF ToBeRead, EventsBehind
        <4>1. PICK k \in DOMAIN disk[g] : Behind(newPos', g, k) /\ disk[g][k] = u
          BY <4>0
        <4>2. g \in Nat /\ k \in Nat
          BY <4>1, TypesOfFiles
        <4>3. f < g \/ (f = g /\ L + i < k)
          BY <1>3, <1>4, <1>5, <3>3, <4>1, <4>2 DEF Behind
        <4>4. QED
          BY <1>3, <1>10, <3>3, <4>1, <4>3 DEF Order, LinesInOrder, Place
      <3>4. QED
        BY <1>12, <3>2, <3>3
    <2>4. \A a, b \in DOMAIN batch' : a < b => Place(batch[a])' < Place(batch[b])'
      BY <1>16, <2>2 DEF Place
    <2>5. QED
      BY <1>2, <1>16, <2>1, <2>3, <2>4 DEF Order
  <1>23. Accounts'
    <2>1. InBatch' \subseteq InBatch \cup ToBeRead /\ InBatch \subseteq InBatch'
      BY <1>11, <1>12, <1>13
    <2>2. QED
      BY <1>2, <1>14, <1>15, <1>16, <2>1, UnreadIsUnsaved DEF Accounts
  <1>24. QED
    BY <1>19, <1>20, <1>21, <1>22, <1>23 DEF Parts

\* Files are removed.
LEMMA FilesRemoved ==
    ASSUME FileTypeOK, NEW S
    PROVE  LET d == Without(S)
           IN  /\ DOMAIN d = DOMAIN disk \ S /\ \A f \in DOMAIN d : d[f] = disk[f]
               /\ Within(d, disk) /\ IsFiniteSet(DOMAIN d)
               /\ Cardinality(DOMAIN d) \in Nat /\ Cardinality(DOMAIN disk) \in Nat
               /\ Cardinality(DOMAIN d) <= Cardinality(DOMAIN disk)
               /\ Cardinality({f \in DOMAIN d : d[f] # <<>>}) \in Nat
               /\ Cardinality({f \in DOMAIN disk : disk[f] # <<>>}) \in Nat
               /\ Cardinality({f \in DOMAIN d : d[f] # <<>>}) <= Cardinality({f \in DOMAIN disk : disk[f] # <<>>})
  <1> DEFINE d == Without(S)
             D == {f \in DOMAIN d : d[f] # <<>>}
             E == {f \in DOMAIN disk : disk[f] # <<>>}
  <1>1. DOMAIN d = DOMAIN disk \ S /\ \A f \in DOMAIN d : d[f] = disk[f]
    BY DEF Without
  <1> HIDE DEF d
  <1>2. DOMAIN d \subseteq DOMAIN disk /\ D \subseteq E /\ E \subseteq DOMAIN disk /\ Within(d, disk)
    BY <1>1 DEF Within
  <1> HIDE DEF D, E
  <1>3. IsFiniteSet(DOMAIN disk)
    BY TypesOfFiles
  <1>4. IsFiniteSet(DOMAIN d) /\ Cardinality(DOMAIN d) <= Cardinality(DOMAIN disk)
    BY <1>2, <1>3, FS_Subset
  <1>5. IsFiniteSet(E)
    BY <1>2, <1>3, FS_Subset
  <1>6. IsFiniteSet(D) /\ Cardinality(D) <= Cardinality(E)
    BY <1>2, <1>5, FS_Subset
  <1>7. /\ Cardinality(D) \in Nat /\ Cardinality(E) \in Nat
        /\ Cardinality(DOMAIN d) \in Nat /\ Cardinality(DOMAIN disk) \in Nat
    BY <1>3, <1>4, <1>5, <1>6, FS_CardinalityType
  <1>8. QED
    BY <1>1, <1>2, <1>4, <1>6, <1>7 DEF d, D, E

\* The reader goes on to the next file; the one of current_pos is deleted.
LEMMA LeaveFileKeeps ==
    ASSUME IInv, LeaveFile
    PROVE  Parts'
  <1> USE DEF IInv
  <1> DEFINE old == currentPos.file
             q == Least(NextFiles)
             d == Without({old})
             lost == IF old \in DOMAIN disk THEN ElementsOf(disk[old]) \cap ElementsOf(batch) ELSE {}
  <1>1. OthersOK
    BY TypesInParts
  <1>2. /\ NextFiles # {} /\ disk' = d /\ newPos' = Pos(q, 0) /\ aliased' = FALSE
        /\ raced' = raced \cup UnreadOf(newPos.file, newPos.line) /\ cleared' = cleared \cup lost
        /\ reader = "switch" /\ reader' \in {"lines", "idle"}
        /\ UNCHANGED <<lastName, stateFile, writer, writerFile, recordsCount, currentPos, batch, toRead,
                       crashes, accepted, done, torn>>
    BY DEF LeaveFile, writerVars
  <1>3. q \in DOMAIN disk /\ q \in Nat /\ q > newPos.file /\ \A f \in DOMAIN disk : f > newPos.file => q <= f
    <2>1. NextFiles \in SUBSET Nat
      BY TypesOfFiles DEF NextFiles
    <2>2. q \in NextFiles /\ \A f \in NextFiles : q <= f
      BY <1>2, <2>1, LeastIn
    <2> HIDE DEF q
    <2>3. QED
      BY <2>1, <2>2 DEF NextFiles
  <1>4. /\ DOMAIN d = DOMAIN disk \ {old} /\ \A f \in DOMAIN d : d[f] = disk[f]
        /\ Within(d, disk) /\ IsFiniteSet(DOMAIN d)
        /\ Cardinality(DOMAIN d) \in Nat /\ Cardinality(DOMAIN disk) \in Nat
        /\ Cardinality(DOMAIN d) <= Cardinality(DOMAIN disk)
        /\ Cardinality({f \in DOMAIN d : d[f] # <<>>}) \in Nat
        /\ Cardinality({f \in DOMAIN disk : disk[f] # <<>>}) \in Nat
        /\ Cardinality({f \in DOMAIN d : d[f] # <<>>}) <= Cardinality({f \in DOMAIN disk : disk[f] # <<>>})
    BY FilesRemoved
  <1> HIDE DEF q, d
  <1>5. old \in Nat /\ old <= newPos.file /\ newPos.file \in Nat /\ q > old /\ writerFile >= q
        /\ \A f \in DOMAIN d : f \in Nat /\ f > old
    <2>1. /\ \A f \in DOMAIN disk : f \in Nat /\ old <= f /\ f <= writerFile
          /\ newPos.file \in DOMAIN disk /\ old \in Nat /\ writerFile \in Nat
      BY TypesOfFiles DEF DiskOK
    <2>2. DOMAIN d = DOMAIN disk \ {old}
      BY <1>4
    <2>3. QED
      BY <1>3, <2>1, <2>2
  <1> HIDE DEF old
  <1>6. newPos' \in Position /\ newPos'.file = q /\ newPos'.line = 0
    BY <1>2, <1>3 DEF Pos, Position
  <1>7. UnreadOf(newPos.file, newPos.line) \subseteq Events /\ lost \subseteq Events
    <2>1. newPos.file \in DOMAIN disk /\ newPos.line \in Nat
      BY TypesOfFiles DEF DiskOK
    <2>2. \A k \in newPos.line + 1 .. Len(disk[newPos.file]) : k \in DOMAIN disk[newPos.file]
      BY <2>1, TypesOfFiles
    <2>3. UnreadOf(newPos.file, newPos.line) \subseteq Events
      BY <2>1, <2>2, TypesOfFiles DEF UnreadOf
    <2>4. old \in DOMAIN disk => ElementsOf(disk[old]) \subseteq Events
      BY TypesOfFiles DEF ElementsOf
    <2>5. QED
      BY <2>3, <2>4
  <1>8. InBatch' = InBatch /\ Accepted' = Accepted /\ \A e : Place(e)' = Place(e)
    BY <1>2 DEF InBatch, Accepted, Place
  <1>9. ToBeRead' \subseteq ToBeRead
    <2>1. EventsBehind(disk, newPos') \subseteq EventsBehind(disk, newPos)
      BY <1>3, <1>6, TypesOfFiles, FurtherOn
    <2>2. EventsBehind(d, newPos') \subseteq EventsBehind(disk, newPos')
      BY <1>4, FewerLines
    <2>3. QED
      BY <1>2, <2>1, <2>2 DEF ToBeRead
  <1>10. ToBeRead \subseteq ToBeRead' \cup raced'
    <2> SUFFICES ASSUME NEW e \in ToBeRead PROVE e \in ToBeRead' \/ e \in UnreadOf(newPos.file, newPos.line)
      BY <1>2
    <2>1. PICK g \in DOMAIN disk : \E k \in DOMAIN disk[g] : Behind(newPos, g, k) /\ disk[g][k] = e
      BY DEF ToBeRead, EventsBehind
    <2>2. PICK k \in DOMAIN disk[g] : Behind(newPos, g, k) /\ disk[g][k] = e
      BY <2>1
    <2>3. g \in Nat /\ k \in Nat /\ 0 < k /\ k <= Len(disk[g]) /\ Len(disk[g]) \in Nat /\ newPos.line \in Nat
      BY <2>2, TypesOfFiles
    <2>4. CASE g > newPos.file
      <3>1. g >= q /\ g \in DOMAIN d /\ d[g] = disk[g]
        BY <1>3, <1>4, <1>5, <2>3, <2>4
      <3>2. Behind(newPos', g, k)
        BY <1>3, <1>6, <2>3, <3>1 DEF Behind
      <3>3. QED
        BY <1>2, <2>2, <3>1, <3>2 DEF ToBeRead, EventsBehind
    <2>5. CASE ~(g > newPos.file)
      <3>1. g = newPos.file /\ k \in newPos.line + 1 .. Len(disk[newPos.file])
        BY <1>5, <2>2, <2>3, <2>5 DEF Behind
      <3>2. QED
        BY <2>2, <3>1 DEF UnreadOf
    <2>6. QED
      BY <2>4, <2>5
  <1>11. \/ SavedPos' = SavedPos
         \/ SavedPos' = Pos(0, 0) /\ SavedPos = stateFile /\ SavedPos.file = old
    BY <1>2, <1>4 DEF SavedPos
  <1>12. Unsaved' \subseteq Unsaved
    <2>1. CASE SavedPos' = SavedPos
      BY <1>2, <1>4, <2>1, FewerLines DEF Unsaved
    <2>2. CASE SavedPos.file = old
      <3>1. \A f \in DOMAIN d : \A k : Behind(SavedPos, f, k)
        BY <1>5, <2>2 DEF Behind
      <3>2. EventsBehind(d, SavedPos') \subseteq EventsBehind(d, SavedPos)
        BY <3>1 DEF EventsBehind
      <3>3. EventsBehind(d, SavedPos) \subseteq EventsBehind(disk, SavedPos)
        BY <1>4, FewerLines
      <3>4. QED
        BY <1>2, <3>2, <3>3 DEF Unsaved
    <2>3. QED
      BY <1>11, <2>1, <2>2
  <1>13. InBatch \cap Unsaved \subseteq Unsaved' \cup cleared'
    <2> SUFFICES ASSUME NEW e \in InBatch, e \in Unsaved PROVE e \in Unsaved' \/ e \in lost
      BY <1>2
    <2>1. PICK g \in DOMAIN disk : \E k \in DOMAIN disk[g] : Behind(SavedPos, g, k) /\ disk[g][k] = e
      BY DEF Unsaved, EventsBehind
    <2>2. PICK k \in DOMAIN disk[g] : Behind(SavedPos, g, k) /\ disk[g][k] = e
      BY <2>1
    <2>3. CASE g = old
      BY <2>2, <2>3 DEF ElementsOf, InBatch
    <2>4. CASE g # old
      <3>1. g \in DOMAIN d /\ d[g] = disk[g] /\ g > 0
        BY <1>4, <2>4, TypesOfFiles
      <3>2. Behind(SavedPos', g, k)
        BY <1>11, <2>2, <3>1 DEF Behind, Pos
      <3>3. e \in Events
        BY DEF Unsaved, EventsBehind
      <3>4. QED
        BY <1>2, <2>2, <3>1, <3>2, <3>3 DEF Unsaved, EventsBehind
    <2>5. QED
      BY <2>3, <2>4
  <1> HIDE DEF lost
  <1>14. OthersOK'
    <2>1. DOMAIN disk' \subseteq 1 .. lastName /\ \A f \in DOMAIN disk' : disk'[f] \in Seq(Events)
      BY <1>1, <1>2, <1>4 DEF OthersOK
    <2>2. QED
      BY <1>1, <1>2, <1>4, <1>6, <1>7, <2>1 DEF OthersOK
  <1>15. DiskOK'
    <2>1. q \in DOMAIN d /\ 0 <= Len(d[q]) /\ writerFile \in DOMAIN d
      <3>1. q \in DOMAIN disk /\ writerFile \in DOMAIN disk /\ q # old /\ writerFile # old
        BY <1>3, <1>5, TypesOfFiles DEF DiskOK
      <3>2. q \in DOMAIN d /\ writerFile \in DOMAIN d /\ d[q] = disk[q]
        BY <1>4, <3>1
      <3>3. Len(disk[q]) \in Nat
        BY <3>1, TypesOfFiles
      <3>4. QED
        BY <3>2, <3>3
    <2>2. \A f \in DOMAIN d : old <= f /\ f <= writerFile
      BY <1>4 DEF DiskOK, old
    <2>3. writer = "writing" => Cardinality(DOMAIN d) <= MaxFileCount + 1
      BY <1>4 DEF DiskOK
    <2>4. Cardinality({f \in DOMAIN d : d[f] # <<>>}) <= MaxFileCount + 1
      BY <1>4 DEF DiskOK
    <2>5. old \notin DOMAIN d
      BY <1>4
    <2>6. QED
      BY <1>2, <1>6, <2>1, <2>2, <2>3, <2>4, <2>5 DEF DiskOK, old
  <1>16. PositionsOK'
    <2>1. stateFile # Torn => stateFile.file \in Nat
      BY <1>1 DEF OthersOK, Position
    <2>2. stateFile # Torn /\ stateFile.file \in DOMAIN d =>
             stateFile.line <= Len(d[stateFile.file]) /\ stateFile.file < q
      BY <1>3, <1>4, <1>5, <2>1 DEF PositionsOK
    <2>3. QED
      BY <1>2, <1>6, <2>2 DEF PositionsOK
  <1>17. Order'
    <2>1. LinesInOrder(disk', accepted')
      BY <1>2, <1>4, FewerLines DEF Order
    <2>2. \A x, y \in DOMAIN batch' : x < y => Place(batch[x])' < Place(batch[y])'
      BY <1>2, <1>8 DEF Order
    <2>3. \A e \in InBatch', u \in ToBeRead' : Place(e)' < Place(u)'
      BY <1>8, <1>9 DEF Order
    <2>4. InBatch' \subseteq Accepted' /\ \A k, l \in DOMAIN accepted' : accepted'[k] = accepted'[l] => k = l
      BY <1>2, <1>8 DEF Order
    <2>5. QED
      BY <2>1, <2>2, <2>3, <2>4 DEF Order
  <1>18. Accounts'
    BY <1>2, <1>8, <1>9, <1>10, <1>12, <1>13 DEF Accounts
  <1>19. QED
    BY <1>14, <1>15, <1>16, <1>17, <1>18 DEF Parts

\* discard_batch empties the state file, writes it, and deletes the files read.
LEMMA TruncateStateKeeps ==
    ASSUME IInv, TruncateState
    PROVE  Parts'
  <1> USE DEF IInv
  <1>1. OthersOK
    BY TypesInParts
  <1>2. /\ stateFile' = Torn /\ reader = "idle" /\ reader' = "truncated"
        /\ UNCHANGED <<disk, lastName, writer, writerFile, recordsCount, currentPos, newPos, aliased, batch,
                       toRead, crashes, accepted, done, raced, cleared, torn>>
    BY DEF TruncateState, diskVars, writerVars, history
  <1>3. UNCHANGED <<ToBeRead, InBatch, Accepted>> /\ \A e : Place(e)' = Place(e)
    BY <1>2 DEF ToBeRead, InBatch, Accepted, Place
  <1>4. Unsaved \subseteq Unsaved'
    <2>1. SavedPos' = Pos(0, 0)
      BY <1>2 DEF SavedPos
    <2>2. \A f \in DOMAIN disk : \A k \in DOMAIN disk[f] : Behind(Pos(0, 0), f, k)
      BY TypesOfFiles DEF Behind, Pos
    <2>3. QED
      BY <1>2, <2>1, <2>2 DEF Unsaved, EventsBehind
  <1>5. OthersOK'
    BY <1>1, <1>2 DEF OthersOK
  <1>6. DiskOK' /\ PositionsOK'
    BY <1>2 DEF DiskOK, PositionsOK
  <1>7. Order'
    BY <1>2, <1>3 DEF Order
  <1>8. Accounts'
    BY <1>2, <1>3, <1>4 DEF Accounts
  <1>9. QED
    BY <1>5, <1>6, <1>7, <1>8 DEF Parts

LEMMA WriteStateKeeps ==
    ASSUME IInv, WriteState
    PROVE  Parts'
  <1> USE DEF IInv
  <1>1. OthersOK
    BY TypesInParts
  <1>2. /\ stateFile' = newPos /\ reader' = "written" /\ done' = done \cup InBatch
        /\ UNCHANGED <<disk, lastName, writer, writerFile, recordsCount, currentPos, newPos, aliased, batch,
                       toRead, crashes, accepted, raced, cleared, torn>>
    BY DEF WriteState, diskVars, writerVars, InBatch
  <1>3. UNCHANGED <<ToBeRead, InBatch, Accepted>> /\ \A e : Place(e)' = Place(e)
    BY <1>2 DEF ToBeRead, InBatch, Accepted, Place
  <1>4. InBatch \cap ToBeRead = {}
    <2>1. \A e \in Accepted : Place(e) \in DOMAIN accepted /\ DOMAIN accepted \subseteq Int
      BY <1>1, PlaceOf, LenProperties DEF Order, OthersOK, Accepted, Place
    <2>2. \A e \in InBatch \cap ToBeRead : Place(e) < Place(e) /\ Place(e) \in Int
      BY <2>1 DEF Order
    <2>3. QED
      BY <2>2
  <1>5. stateFile' # Torn => Unsaved' = ToBeRead
    BY <1>2 DEF SavedPos, Unsaved, ToBeRead, DiskOK
  <1>6. OthersOK'
    <2>1. InBatch \subseteq Events
      BY <1>1, LenProperties, ElementOfSeq DEF OthersOK, InBatch, ElementsOf
    <2>2. QED
      BY <1>1, <1>2, <2>1 DEF OthersOK
  <1>7. DiskOK'
    BY <1>2 DEF DiskOK
  <1>8. PositionsOK'
    <2>1. newPos.file <= lastName /\ newPos.line <= Len(disk[newPos.file]) /\ newPos.line <= newPos.line
      BY TypesOfFiles DEF DiskOK
    <2>2. QED
      BY <1>2, <2>1 DEF PositionsOK
  <1>9. Order'
    BY <1>2, <1>3 DEF Order
  <1>10. Accounts'
    <2>1. done' \subseteq Accepted' /\ InBatch' \subseteq done'
      BY <1>2, <1>3 DEF Accounts, Order
    <2>2. Accepted' \subseteq UNION {done', InBatch', ToBeRead', raced', cleared'}
      BY <1>2, <1>3 DEF Accounts
    <2>3. torn' \/ done' \cap ToBeRead' = {}
      BY <1>2, <1>3, <1>4 DEF Accounts
    <2>4. torn' \/ stateFile' = Torn \/ done' \cap Unsaved' = {}
      BY <1>2, <1>3, <1>5, <2>3
    <2>5. QED
      BY <1>2, <2>1, <2>2, <2>3, <2>4 DEF Accounts
  <1>11. QED
    BY <1>6, <1>7, <1>8, <1>9, <1>10 DEF Parts

LEMMA RemoveKeeps ==
    ASSUME IInv, RemoveProcessedFiles
    PROVE  Parts'
  <1> USE DEF IInv
  <1> DEFINE d == Without(ProcessedFiles)
  <1>1. OthersOK
    BY TypesInParts
  <1>2. /\ reader = "written" /\ disk' = d /\ currentPos' = newPos /\ aliased' = TRUE /\ batch' = <<>>
        /\ reader' = "idle"
        /\ UNCHANGED <<lastName, stateFile, writer, writerFile, recordsCount, newPos, toRead,
                       crashes, accepted, done, raced, cleared, torn>>
    BY DEF RemoveProcessedFiles, writerVars, history
  <1>3. ProcessedFiles = {f \in DOMAIN disk : f < newPos.file}
    BY DEF ProcessedFiles, DiskOK
  <1>4. /\ DOMAIN d = DOMAIN disk \ ProcessedFiles /\ \A f \in DOMAIN d : d[f] = disk[f]
        /\ Within(d, disk) /\ IsFiniteSet(DOMAIN d)
        /\ Cardinality(DOMAIN d) \in Nat /\ Cardinality(DOMAIN disk) \in Nat
        /\ Cardinality(DOMAIN d) <= Cardinality(DOMAIN disk)
        /\ Cardinality({f \in DOMAIN d : d[f] # <<>>}) \in Nat
        /\ Cardinality({f \in DOMAIN disk : disk[f] # <<>>}) \in Nat
        /\ Cardinality({f \in DOMAIN d : d[f] # <<>>}) <= Cardinality({f \in DOMAIN disk : disk[f] # <<>>})
    BY FilesRemoved
  <1> HIDE DEF d
  <1>5. \A f \in DOMAIN disk : f \in DOMAIN d <=> newPos.file <= f
    BY <1>3, <1>4, TypesOfFiles
  <1>6. stateFile = newPos /\ newPos.file \in DOMAIN d /\ writerFile \in DOMAIN d
    BY <1>2, <1>5, TypesOfFiles DEF PositionsOK, DiskOK
  <1>7. batch' \in Seq(Events) /\ Len(batch') = 0 /\ DOMAIN batch' = {} /\ InBatch' = {}
    BY <1>2, EmptySeq DEF InBatch, ElementsOf
  <1>8. UNCHANGED <<SavedPos, Accepted>> /\ \A e : Place(e)' = Place(e)
    BY <1>2, <1>6 DEF SavedPos, Accepted, Place, DiskOK
  <1>9. Unsaved' \subseteq Unsaved
    BY <1>2, <1>4, <1>8, FewerLines DEF Unsaved
  <1>10. ToBeRead' = ToBeRead
    <2>1. ToBeRead' \subseteq ToBeRead
      BY <1>2, <1>4, FewerLines DEF ToBeRead
    <2>2. \A f \in DOMAIN disk : \A k \in DOMAIN disk[f] :
              Behind(newPos, f, k) => f \in DOMAIN d /\ d[f] = disk[f]
      BY <1>4, <1>5, TypesOfFiles DEF Behind
    <2>3. ToBeRead \subseteq ToBeRead'
      BY <1>2, <2>2 DEF ToBeRead, EventsBehind
    <2>4. QED
      BY <2>1, <2>3
  <1>11. OthersOK'
    <2>1. DOMAIN d \subseteq 1 .. lastName /\ \A f \in DOMAIN d : d[f] \in Seq(Events)
      BY <1>1, <1>4 DEF OthersOK
    <2>2. Len(batch') <= MaxReadRecords
      BY <1>7
    <2>3. QED
      BY <1>1, <1>2, <1>4, <1>7, <2>1, <2>2 DEF OthersOK
  <1>12. DiskOK'
    <2>1. newPos.line <= Len(d[newPos.file])
      BY <1>4, <1>6 DEF DiskOK
    <2>2. \A f \in DOMAIN d : newPos.file <= f /\ f <= writerFile
      BY <1>4, <1>5 DEF DiskOK
    <2>3. writer = "writing" => Cardinality(DOMAIN d) <= MaxFileCount + 1
      BY <1>4 DEF DiskOK
    <2>4. Cardinality({f \in DOMAIN d : d[f] # <<>>}) <= MaxFileCount + 1
      BY <1>4 DEF DiskOK
    <2>5. QED
      BY <1>2, <1>6, <2>1, <2>2, <2>3, <2>4 DEF DiskOK
  <1>13. PositionsOK'
    <2>1. stateFile.file <= lastName /\ stateFile.line <= Len(d[stateFile.file]) /\ stateFile.line <= newPos.line
      BY <1>4, <1>6, TypesOfFiles DEF DiskOK
    <2>2. Len(batch') + toRead <= MaxReadRecords
      BY <1>1, <1>7 DEF OthersOK
    <2>3. QED
      BY <1>2, <1>6, <2>1, <2>2 DEF PositionsOK
  <1>14. Order'
    <2>1. LinesInOrder(disk', accepted')
      BY <1>2, <1>4, FewerLines DEF Order
    <2>2. QED
      BY <1>2, <1>7, <1>8, <2>1 DEF Order
  <1>15. Accounts'
    BY <1>2, <1>7, <1>8, <1>9, <1>10 DEF Accounts
  <1>16. QED
    BY <1>11, <1>12, <1>13, <1>14, <1>15 DEF Parts

\* The next process starts where the state file says, if that file is there.
LEMMA RestartKeeps ==
    ASSUME IInv, Restart
    PROVE  Parts'
  <1> USE DEF IInv
  <1> DEFINE n == lastName + 1
             files == FilesFound
             start == StartPosition(files)
             top == Greatest(DOMAIN files)
             valid == stateFile # Torn /\ stateFile.file \in DOMAIN disk
  <1>1. OthersOK
    BY TypesInParts
  <1>2. /\ crashes < MaxCrashes /\ crashes' = crashes + 1
        /\ disk' = [f \in {g \in DOMAIN files : g >= start.file} |-> files[f]]
        /\ lastName' = Greatest(DOMAIN files \cup {lastName})
        /\ writer' = "idle" /\ writerFile' = top /\ recordsCount' = Len(files[top])
        /\ reader' = "idle" /\ currentPos' = start /\ newPos' = start /\ aliased' = TRUE
        /\ batch' = <<>> /\ toRead' = 0
        /\ UNCHANGED <<stateFile, accepted, done, raced, cleared>>
    BY DEF Restart
  <1>3. torn' \/ (~torn /\ stateFile # Torn)
    BY Zenon DEF Restart
  <1>4. n \notin DOMAIN disk /\ n \in Nat
    BY TypesOfFiles
  <1>5. \/ files = disk
        \/ files = WithFile(n)
    BY DEF FilesFound
  <1>6. /\ DOMAIN WithFile(n) = DOMAIN disk \cup {n} /\ WithFile(n)[n] = <<>>
        /\ \A f \in DOMAIN disk : WithFile(n)[f] = disk[f]
    BY <1>4 DEF WithFile
  <1>7. \/ DOMAIN files = DOMAIN disk /\ top = writerFile /\ lastName' = lastName
        \/ DOMAIN files = DOMAIN disk \cup {n} /\ files[n] = <<>> /\ top = n /\ lastName' = n
    <2>1. CASE files = disk
      <3>1. top = writerFile
        BY <2>1, TypesOfFiles, GreatestIs DEF DiskOK
      <3>2. Greatest(DOMAIN files \cup {lastName}) = lastName
        BY <2>1, TypesOfFiles, GreatestIs
      <3>3. QED
        BY <1>2, <2>1, <3>1, <3>2
    <2>2. CASE files = WithFile(n)
      <3>1. n \in DOMAIN files /\ DOMAIN files \in SUBSET Nat /\ (DOMAIN files \cup {lastName}) \in SUBSET Nat
        BY <1>4, <1>6, <2>2, TypesOfFiles
      <3>2. \A f \in DOMAIN files \cup {lastName} : f <= n
        BY <1>4, <1>6, <2>2, TypesOfFiles DEF n
      <3> HIDE DEF n, files
      <3>3. Greatest(DOMAIN files) = n /\ Greatest(DOMAIN files \cup {lastName}) = n
        BY <3>1, <3>2, GreatestIs
      <3>4. QED
        BY <1>2, <1>6, <2>2, <3>3
    <2>3. QED
      BY <1>5, <2>1, <2>2
  <1>8. /\ \A f \in DOMAIN disk : f \in DOMAIN files /\ files[f] = disk[f]
        /\ \A f \in DOMAIN files : f \in DOMAIN disk \/ (f = n /\ files[f] = <<>>)
        /\ IsFiniteSet(DOMAIN files)
    <2>1. IsFiniteSet(DOMAIN disk) /\ IsFiniteSet(DOMAIN disk \cup {n})
      BY TypesOfFiles, FS_AddElement
    <2>2. QED
      BY <1>5, <1>6, <2>1
  <1>9. lastName' \in Nat /\ lastName <= lastName' /\ \A f \in DOMAIN files : f \in Nat /\ 0 < f /\ f <= top /\ f <= lastName'
    <2>1. /\ \A f \in DOMAIN disk : f \in Nat /\ 0 < f /\ f <= lastName /\ f <= writerFile
          /\ lastName \in Nat /\ writerFile \in Nat /\ writerFile \in DOMAIN disk
      BY TypesOfFiles DEF DiskOK
    <2>2. n \in Nat /\ lastName < n
      BY <2>1 DEF n
    <2> HIDE DEF n, top, files
    <2>3. CASE DOMAIN files = DOMAIN disk /\ top = writerFile /\ lastName' = lastName
      BY <2>1, <2>3
    <2>4. CASE DOMAIN files = DOMAIN disk \cup {n} /\ top = n /\ lastName' = n
      BY <2>1, <2>2, <2>4
    <2>5. QED
      BY <1>7, <2>3, <2>4
  <1>10. top \in DOMAIN files
    BY <1>7 DEF DiskOK
  <1>11. \A f \in DOMAIN files : files[f] \in Seq(Events) /\ Len(files[f]) \in Nat
    <2>1. \A f \in DOMAIN disk : disk[f] \in Seq(Events)
      BY TypesOfFiles
    <2> HIDE DEF files, n
    <2>2. \A f \in DOMAIN files : files[f] \in Seq(Events)
      BY <1>8, <2>1, EmptySeq
    <2>3. QED
      BY <2>2, LenProperties
  <1>12. stateFile # Torn => stateFile \in Position /\ stateFile.file \in Nat /\ stateFile.line \in Nat
                             /\ stateFile.file # n /\ stateFile.file <= lastName'
    <2>1. stateFile # Torn => stateFile.file \in Nat /\ stateFile.line \in Nat /\ stateFile.file <= lastName
      BY <1>1 DEF OthersOK, Position, PositionsOK
    <2>2. QED
      BY <1>1, <1>9, <2>1, TypesOfFiles DEF OthersOK, n
  <1>13. /\ valid => start = stateFile
         /\ ~valid => start = Pos(Least(DOMAIN files), 0)
    BY <1>8, <1>12 DEF StartPosition
  <1>14. Least(DOMAIN files) \in DOMAIN files /\ \A f \in DOMAIN files : Least(DOMAIN files) <= f
    BY <1>9, <1>10, LeastIn
  <1> HIDE DEF files, start, top, n
  <1>15. /\ start \in Position /\ start.file \in DOMAIN files /\ start.file \in Nat
         /\ start.line \in Nat /\ start.line <= Len(files[start.file])
    <2>1. CASE valid
      BY <1>8, <1>12, <1>13, <2>1 DEF PositionsOK
    <2>2. CASE ~valid
      <3>1. start.file = Least(DOMAIN files) /\ start.line = 0 /\ start \in Position
        BY <1>9, <1>13, <1>14, <2>2 DEF Pos, Position
      <3>2. QED
        BY <1>9, <1>11, <1>14, <3>1
    <2>3. QED
      BY <2>1, <2>2
  <1>16. DOMAIN disk' = {g \in DOMAIN files : g >= start.file} /\ \A f \in DOMAIN disk' : disk'[f] = files[f]
    BY <1>2
  <1>17. start.file \in DOMAIN disk' /\ top \in DOMAIN disk' /\ IsFiniteSet(DOMAIN disk')
    <2>1. start.file \in DOMAIN disk' /\ top \in DOMAIN disk'
      BY <1>9, <1>10, <1>15, <1>16
    <2>2. DOMAIN disk' \subseteq DOMAIN files
      BY <1>16
    <2>3. QED
      BY <1>8, <2>1, <2>2, FS_Subset
  <1>18. Within(disk', disk)
    BY <1>8, <1>16 DEF Within
  <1>19. SavedPos' = SavedPos /\ (valid => SavedPos = start) /\ (~valid => SavedPos = Pos(0, 0))
    <2>1. CASE valid
      BY <1>2, <1>13, <1>17, <2>1 DEF SavedPos
    <2>2. CASE ~valid
      <3>1. ~(stateFile # Torn /\ stateFile.file \in DOMAIN disk')
        BY <1>8, <1>12, <1>16, <2>2
      <3>2. QED
        BY <1>2, <2>2, <3>1 DEF SavedPos
    <2>3. QED
      BY <2>1, <2>2
  <1>20. Unsaved' \subseteq Unsaved
    BY <1>18, <1>19, FewerLines DEF Unsaved
  <1>21. ToBeRead' = Unsaved
    <2>1. \A f \in DOMAIN disk : \A k \in DOMAIN disk[f] :
             Behind(SavedPos, f, k) => f \in DOMAIN disk' /\ disk'[f] = disk[f] /\ Behind(start, f, k)
      <3> SUFFICES ASSUME NEW f \in DOMAIN disk, NEW k \in DOMAIN disk[f], Behind(SavedPos, f, k)
                   PROVE  f >= start.file /\ Behind(start, f, k)
        BY <1>8, <1>16
      <3>1. f \in Nat /\ k \in Nat /\ 0 < k
        BY TypesOfFiles
      <3>2. CASE valid
        BY <1>15, <1>19, <3>1, <3>2 DEF Behind
      <3>3. CASE ~valid
        <4>1. start.file <= f /\ start.line = 0
          BY <1>8, <1>13, <1>14, <3>3 DEF Pos
        <4>2. QED
          BY <1>15, <3>1, <4>1 DEF Behind
      <3>4. QED
        BY <3>2, <3>3
    <2>2. Unsaved \subseteq EventsBehind(disk', start)
      BY <2>1 DEF Unsaved, EventsBehind
    <2>3. SavedPos.file < start.file \/ (SavedPos.file = start.file /\ SavedPos.line <= start.line)
      <3>1. CASE valid
        BY <1>15, <1>19, <3>1
      <3>2. CASE ~valid
        BY <1>9, <1>15, <1>19, <3>2 DEF Pos
      <3>3. QED
        BY <3>1, <3>2
    <2>4. EventsBehind(disk, start) \subseteq Unsaved
      BY <1>15, <2>3, TypesOfFiles, FurtherOn DEF Unsaved
    <2>5. EventsBehind(disk', start) \subseteq EventsBehind(disk, start)
      BY <1>18, FewerLines
    <2>6. ToBeRead' = EventsBehind(disk', start)
      BY <1>2 DEF ToBeRead
    <2>7. QED
      BY <2>2, <2>4, <2>5, <2>6
  <1>22. batch' \in Seq(Events) /\ Len(batch') = 0 /\ DOMAIN batch' = {} /\ InBatch' = {}
    BY <1>2, EmptySeq DEF InBatch, ElementsOf
  <1>23. Accepted' = Accepted /\ \A e : Place(e)' = Place(e)
    BY <1>2 DEF Accepted, Place
  <1>24. OthersOK'
    <2>1. DOMAIN disk' \subseteq 1 .. lastName' /\ \A f \in DOMAIN disk' : disk'[f] \in Seq(Events)
      BY <1>9, <1>11, <1>16
    <2>2. crashes' \in 0 .. MaxCrashes
      BY <1>1, <1>2 DEF OthersOK
    <2>3. Len(batch') <= MaxReadRecords /\ toRead' \in 0 .. MaxReadRecords
      BY <1>2, <1>22
    <2>4. writerFile' \in Nat /\ recordsCount' \in Nat
      BY <1>2, <1>9, <1>10, <1>11
    <2>5. QED
      BY <1>1, <1>2, <1>9, <1>15, <1>17, <1>22, <2>1, <2>2, <2>3, <2>4 DEF OthersOK
  <1>25. DiskOK'
    <2>1. start.line <= Len(disk'[start.file])
      BY <1>15, <1>16, <1>17
    <2>2. \A f \in DOMAIN disk' : start.file <= f /\ f <= top
      BY <1>9, <1>15, <1>16
    <2>3. Cardinality({f \in DOMAIN disk' : disk'[f] # <<>>}) <= MaxFileCount + 1
      <3> DEFINE D == {f \in DOMAIN disk' : disk'[f] # <<>>}
                 E == {f \in DOMAIN disk : disk[f] # <<>>}
      <3>1. D \subseteq E /\ E \subseteq DOMAIN disk
        BY <1>8, <1>16
      <3>2. Cardinality(E) <= MaxFileCount + 1
        BY DEF DiskOK
      <3> HIDE DEF D, E
      <3>3. IsFiniteSet(E)
        BY <3>1, TypesOfFiles, FS_Subset
      <3>4. IsFiniteSet(D) /\ Cardinality(D) <= Cardinality(E)
        BY <3>1, <3>3, FS_Subset
      <3>5. Cardinality(D) \in Nat /\ Cardinality(E) \in Nat
        BY <3>3, <3>4, FS_CardinalityType
      <3>6. Cardinality(D) <= MaxFileCount + 1
        BY <3>2, <3>4, <3>5
      <3>7. QED
        BY <3>6 DEF D
    <2>4. QED
      BY <1>2, <1>17, <2>1, <2>2, <2>3 DEF DiskOK
  <1>26. PositionsOK'
    <2>1. stateFile # Torn /\ stateFile.file \in DOMAIN disk' => start = stateFile
      BY <1>8, <1>12, <1>13, <1>16
    <2>2. start.line <= Len(disk'[start.file]) /\ start.line <= start.line
      BY <1>15, <1>16, <1>17
    <2>3. Len(batch') + toRead' <= MaxReadRecords
      BY <1>2, <1>22
    <2>4. QED
      BY <1>2, <1>12, <2>1, <2>2, <2>3 DEF PositionsOK
  <1>27. Order'
    <2>1. LinesInOrder(disk', accepted')
      BY <1>2, <1>18, FewerLines DEF Order
    <2>2. QED
      BY <1>2, <1>22, <1>23, <2>1 DEF Order
  <1>28. Accounts'
    <2>1. Accepted \subseteq UNION {done, Unsaved, raced, cleared}
      BY UnreadIsUnsaved DEF Accounts
    <2>2. Accepted' \subseteq UNION {done', InBatch', ToBeRead', raced', cleared'} /\ done' \subseteq Accepted'
      BY <1>2, <1>21, <1>23, <2>1 DEF Accounts
    <2>3. torn' \/ done' \cap ToBeRead' = {}
      BY <1>2, <1>3, <1>21 DEF Accounts
    <2>4. torn' \/ stateFile' = Torn \/ done' \cap Unsaved' = {}
      BY <1>2, <1>3, <1>20 DEF Accounts
    <2>5. QED
      BY <1>2, <1>22, <2>2, <2>3, <2>4 DEF Accounts
  <1>29. QED
    BY <1>24, <1>25, <1>26, <1>27, <1>28 DEF Parts

-----------------------------------------------------------------------------
LEMMA Invariant == Spec => []IInv
  <1>1. IInv /\ [Next]_vars => IInv'
    <2> SUFFICES ASSUME IInv, [Next]_vars PROVE IInv'
      OBVIOUS
    <2>1. FlagsOK'
      BY TypesInParts, NextKeepsFlags DEF IInv
    <2>2. ASSUME WriteFails \/ BeginRead \/ ReturnPack \/ Stop \/ UNCHANGED vars PROVE Parts'
      BY <2>2, IdleStepsKeep
    <2>3. ASSUME BeginWrite PROVE Parts'
      BY <2>3, BeginWriteKeeps
    <2>4. ASSUME NEW e \in Events, WriteRecord(e) PROVE Parts'
      BY <2>4, WriteRecordKeeps
    <2>5. ASSUME ReadLines \/ ReadTornLine PROVE Parts'
      BY <2>5, ReadKeeps
    <2>6. ASSUME LeaveFile PROVE Parts'
      BY <2>6, LeaveFileKeeps
    <2>7. ASSUME TruncateState PROVE Parts'
      BY <2>7, TruncateStateKeeps
    <2>8. ASSUME WriteState PROVE Parts'
      BY <2>8, WriteStateKeeps
    <2>9. ASSUME RemoveProcessedFiles PROVE Parts'
      BY <2>9, RemoveKeeps
    <2>10. ASSUME Restart PROVE Parts'
      BY <2>10, RestartKeeps
    <2>11. Parts'
      BY <2>2, <2>3, <2>4, <2>5, <2>6, <2>7, <2>8, <2>9, <2>10, Zenon DEF Next
    <2>12. FileTypeOK'
      <3>1. FileTypeOK' <=> FlagsOK' /\ OthersOK'
        BY TypesInParts, PTL
      <3>2. QED
        BY <2>1, <2>11, <3>1, Zenon DEF Parts
    <2>13. QED
      BY <2>11, <2>12, Zenon DEF Parts, IInv
  <1>2. QED
    BY InitIInv, <1>1, PTL DEF Spec

\* Whatever the two threads and the restarts do, the reader stands within a
\* file that is there and the writer appends to the newest one: no step of
\* read() or _remove_processed_files takes the file put() writes to.
THEOREM FilesStayInPlace == Spec => []FilesInPlace
  <1>1. IInv => FilesInPlace
    BY IInvImplies
  <1>2. QED
    BY <1>1, Invariant, PTL

\* A line put() wrote is read, or read again after a restart, unless the pack
\* is done or read() lost it in one of its two windows.
THEOREM LossHasAWindow == Spec => []LossWindows
  <1>1. IInv => LossWindows
    BY IInvImplies
  <1>2. QED
    BY <1>1, Invariant, PTL

\* What discard_batch has processed is not handed out again, but for a crash
\* between emptying and writing state_file.txt.
THEOREM DoneIsForgotten == Spec => []DoneStaysDone
  <1>1. IInv => DoneStaysDone
    BY IInvImplies
  <1>2. QED
    BY <1>1, Invariant, PTL

\* A pack follows the order of put(), also across files and restarts, and
\* leaves no line behind that is older than one it holds.
THEOREM PackOrderIsPutOrder == Spec => []PacksInOrder
  <1>1. IInv => PacksInOrder
    BY IInvImplies
  <1>2. QED
    BY <1>1, Invariant, PTL
=============================================================================
