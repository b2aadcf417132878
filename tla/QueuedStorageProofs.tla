------------------------- MODULE QueuedStorageProofs ------------------------
(***************************************************************************)
(* The event storages whose put() fills a queue in memory.                 *)
(*                                                                         *)
(* For every queue size, pack size and set of events: the in-memory        *)
(* storage loses and reorders nothing, and implements EventStorage.        *)
(*                                                                         *)
(* For any limits, messages and number of restarts of the SQLite storage:  *)
(* what put() answered True for is never lost without a known reason, a    *)
(* pack is handed out again only for a prefetch that was under way, and    *)
(* the reader loses its database only to a rotation of the writer.  The    *)
(* argument: a file is written by the one object it was created for and,   *)
(* as long as it is there, read by the read database only; so what the     *)
(* sending thread deletes is what it handed out, and what it finds drained *)
(* stays so but for what the writer adds.                                  *)
(***************************************************************************)
EXTENDS MemoryEventStorage, SqliteEventStorage, TLAPS, SequenceTheorems, FiniteSetTheorems

-----------------------------------------------------------------------------
(* The queue in memory                                                     *)

\* get_nowait() never meets an empty queue: what the range still asks for is in
\* the queue, because the consumer alone removes events.
RangeIsCovered ==
    /\ left <= Len(eventsQueue)
    /\ left > 0 => eventPack = <<>>
    /\ left = 0 => collecting = <<>>

MemoryIInv == MemoryTypeOK /\ RangeIsCovered /\ NothingDropped

(* Concatenation is associative and closed, <<>> is its unit.                *)
LEMMA Concat ==
    \A a, b, c \in Seq(Events) :
        /\ (a \o b) \o c = a \o (b \o c)
        /\ a \o <<>> = a
        /\ <<>> \o a = a
        /\ a \o b \in Seq(Events)
  BY SMT

(* put(): appending behind a concatenation appends to its last part.         *)
LEMMA AppendBehind ==
    \A t, q \in Seq(Events), e \in Events :
        Append(t \o q, e) = t \o Append(q, e)
  BY SMT

(* get_nowait(): taking the head of q onto c leaves c \o q as it is.         *)
LEMMA TakeHeadTypes ==
    \A c, q \in Seq(Events) : q # <<>> =>
        /\ Append(c, Head(q)) \in Seq(Events)
        /\ Tail(q) \in Seq(Events)
        /\ Len(Tail(q)) = Len(q) - 1
  BY HeadTailProperties, AppendProperties, SMT

LEMMA TakeHead ==
    \A t, c, q \in Seq(Events) : q # <<>> =>
        (t \o Append(c, Head(q))) \o Tail(q) = (t \o c) \o q
  <1> SUFFICES ASSUME NEW t \in Seq(Events), NEW c \in Seq(Events), NEW q \in Seq(Events), q # <<>>
               PROVE  (t \o Append(c, Head(q))) \o Tail(q) = (t \o c) \o q
    OBVIOUS
  <1>1. /\ Tail(q) \in Seq(Events)
        /\ Append(c, Head(q)) \in Seq(Events)
    BY TakeHeadTypes, Zenon
  <1>2. Append(c, Head(q)) \o Tail(q) = c \o q
    BY <1>1, SMT
  <1>3. (t \o Append(c, Head(q))) \o Tail(q) = t \o (Append(c, Head(q)) \o Tail(q))
    <2>1. PICK d \in Seq(Events) : d = Append(c, Head(q))
      BY <1>1, Zenon
    <2>2. PICK r \in Seq(Events) : r = Tail(q)
      BY <1>1, Zenon
    <2>3. (t \o d) \o r = t \o (d \o r)
      BY SMTT(30)
    <2>4. QED
      BY <2>1, <2>2, <2>3, Zenon
  <1>4. (t \o c) \o q = t \o (c \o q)
    BY Concat, SMT
  <1>5. QED
    BY <1>1, <1>2, <1>3, <1>4

(* IInv holds initially and every operation of the storage preserves it.     *)
LEMMA IInvInductive ==
    /\ MemoryInit => MemoryIInv
    /\ MemoryIInv /\ [MemoryNext]_memoryVars => MemoryIInv'
  <1> USE MemoryStorageAssumption
  <1>1. MemoryInit => MemoryIInv
    <2>1. ((<<>> \o <<>>) \o <<>>) \o <<>> = <<>>
      BY EmptySeq, ConcatEmptySeq, Zenon
    <2>2. MemoryInit => MemoryTypeOK /\ RangeIsCovered
      <3>1. <<>> \in Seq(Events) /\ Len(<<>>) = 0
        BY EmptySeq
      <3>2. QED
        <4>1. MemoryInit => RangeIsCovered
          BY <3>1, SMT DEF MemoryInit, RangeIsCovered
        <4>2. MemoryInit => isStopped \in BOOLEAN
          BY Zenon DEF MemoryInit
        <4>3. 0 <= MaxRecordsCount /\ 0 \in 0 .. ReadRecordsCount
          BY SMT DEF MemoryStorageAssumption
        <4>4. QED
          BY <3>1, <4>1, <4>2, <4>3, Zenon DEF MemoryInit, MemoryTypeOK
    <2>3. QED
      BY <2>1, <2>2, Zenon DEF MemoryInit, MemoryIInv, NothingDropped
  <1>2. ASSUME MemoryIInv, [MemoryNext]_memoryVars PROVE MemoryIInv'
    <2> USE <1>2 DEF MemoryIInv
    <2>1. CASE \E e \in Events : PutEvent(e)
      <3>1. PICK e \in Events : PutEvent(e)
        BY <2>1
      <3>2. MemoryTypeOK'
        BY <3>1, AppendProperties, SMT DEF PutEvent, MemoryTypeOK
      <3>3. RangeIsCovered'
        BY <3>1, SMT DEF PutEvent, MemoryTypeOK, RangeIsCovered
      <3>4. NothingDropped'
        <4> DEFINE t == (cleared \o eventPack) \o collecting
        <4>1. t \in Seq(Events) /\ eventsQueue \in Seq(Events)
          BY Concat, Zenon DEF MemoryTypeOK
        <4>2. Append(t \o eventsQueue, e) = t \o Append(eventsQueue, e)
          BY <4>1, AppendBehind, Zenon
        <4>3. QED
          BY <3>1, <4>2, Zenon DEF PutEvent, NothingDropped
      <3>5. QED
        BY <3>2, <3>3, <3>4
    <2>2. CASE OpenPack
      BY <2>2, SMT DEF OpenPack, MemoryTypeOK, RangeIsCovered, NothingDropped
    <2>3. CASE GetNowait
      <3>1. eventsQueue # <<>>
        BY <2>3, SMT DEF GetNowait, MemoryTypeOK, RangeIsCovered
      <3> DEFINE t == cleared \o eventPack
      <3>2. t \in Seq(Events) /\ t \o <<>> = t /\ cleared \o <<>> = cleared
        BY Concat DEF MemoryTypeOK
      <3>3. /\ Append(collecting, Head(eventsQueue)) \in Seq(Events)
            /\ Tail(eventsQueue) \in Seq(Events)
            /\ Len(Tail(eventsQueue)) = Len(eventsQueue) - 1
            /\ (t \o Append(collecting, Head(eventsQueue))) \o Tail(eventsQueue) = (t \o collecting) \o eventsQueue
        <4>1. collecting \in Seq(Events) /\ eventsQueue \in Seq(Events)
          BY DEF MemoryTypeOK
        <4> HIDE DEF t
        <4>2. QED
          <5>1. (t \o Append(collecting, Head(eventsQueue))) \o Tail(eventsQueue) = (t \o collecting) \o eventsQueue
            BY <3>1, <3>2, <4>1, TakeHead, Zenon
          <5>2. QED
            BY <3>1, <4>1, <5>1, TakeHeadTypes, Zenon
      <3>4. CASE left = 1
        <4>1. /\ eventPack = <<>> /\ collecting' = <<>> /\ eventsQueue' = Tail(eventsQueue)
              /\ eventPack' = Append(collecting, Head(eventsQueue)) /\ left' = 0
              /\ UNCHANGED <<isStopped, admitted, cleared>>
          BY <2>3, <3>1, <3>4 DEF GetNowait, RangeIsCovered
        <4>2. MemoryTypeOK' /\ RangeIsCovered'
          BY <4>1, <3>3, SMT DEF MemoryTypeOK, RangeIsCovered
        <4>3. (cleared \o Append(collecting, Head(eventsQueue))) \o <<>>
                = cleared \o Append(collecting, Head(eventsQueue))
          BY <3>3, Concat DEF MemoryTypeOK
        <4>4. t = cleared
          BY <4>1, <3>2
        <4>5. QED
          BY <4>1, <4>2, <4>3, <4>4, <3>3 DEF NothingDropped
      <3>5. CASE left # 1
        <4>1. /\ collecting' = Append(collecting, Head(eventsQueue)) /\ eventsQueue' = Tail(eventsQueue)
              /\ left' = left - 1 /\ left > 1
              /\ UNCHANGED <<eventPack, isStopped, admitted, cleared>>
          BY <2>3, <3>1, <3>5 DEF GetNowait, MemoryTypeOK
        <4>2. MemoryTypeOK' /\ RangeIsCovered'
          BY <4>1, <3>3, SMT DEF MemoryTypeOK, RangeIsCovered
        <4>3. QED
          BY <4>1, <4>2, <3>3 DEF NothingDropped
      <3>6. QED
        BY <3>4, <3>5
    <2>4. CASE EventPackProcessingDone
      BY <2>4, ConcatProperties, ConcatEmptySeq, SMT
         DEF EventPackProcessingDone, MemoryTypeOK, RangeIsCovered, NothingDropped
    <2>5. CASE StopMemory
      BY <2>5, SMT DEF StopMemory, MemoryTypeOK, RangeIsCovered, NothingDropped
    <2>6. CASE UNCHANGED memoryVars
      BY <2>6, SMT DEF memoryVars, MemoryTypeOK, RangeIsCovered, NothingDropped
    <2>7. QED
      BY <1>2, <2>1, <2>2, <2>3, <2>4, <2>5, <2>6 DEF MemoryNext
  <1>3. QED
    BY <1>1, <1>2

(* The state of the storage is well formed: the queue never exceeds          *)
(* max_records_count, the pack holds events.                                 *)
THEOREM MemoryTypeCorrect == MemorySpec => []MemoryTypeOK
  BY IInvInductive, PTL DEF MemorySpec, MemoryIInv

(* put() racing with get_event_pack() never loses or reorders an event.      *)
THEOREM MemoryLosesNothing == MemorySpec => []NothingDropped
  BY IInvInductive, PTL DEF MemorySpec, MemoryIInv

-----------------------------------------------------------------------------
(* Moving an event from the queue to the list keeps what the users see.      *)
LEMMA TakeHeadKeepsView ==
    ASSUME eventPack \in Seq(Events), collecting \in Seq(Events),
           eventsQueue \in Seq(Events), eventsQueue # <<>>
    PROVE  /\ Append(collecting, Head(eventsQueue)) \in Seq(Events)
           /\ Tail(eventsQueue) \in Seq(Events)
           /\ (eventPack \o Append(collecting, Head(eventsQueue))) \o Tail(eventsQueue)
                = (eventPack \o collecting) \o eventsQueue
  <1>1. /\ Append(collecting, Head(eventsQueue)) \in Seq(Events)
        /\ Tail(eventsQueue) \in Seq(Events)
    BY TakeHeadTypes, ZenonT(60)
  <1>2. (eventPack \o Append(collecting, Head(eventsQueue))) \o Tail(eventsQueue)
          = (eventPack \o collecting) \o eventsQueue
    BY TakeHead, ZenonT(60)
  <1>3. QED
    BY <1>1, <1>2, Zenon

(* The view the users have of the storage changes only as EventStorage says. *)
LEMMA StepRefines ==
    ASSUME MemoryIInv, [MemoryNext]_memoryVars
    PROVE  [Storage!EventStorageNext]_(Storage!esVars)
  <1> DEFINE view == (eventPack \o collecting) \o eventsQueue
  <1>0. /\ eventPack \in Seq(Events) /\ collecting \in Seq(Events) /\ eventsQueue \in Seq(Events)
        /\ eventPack \o collecting \in Seq(Events)
        /\ view \in Seq(Events)
    BY Concat, Zenon DEF MemoryIInv, MemoryTypeOK
  <1>1. CASE \E e \in Events : PutEvent(e)
    <2>1. PICK e \in Events : PutEvent(e)
      BY <1>1
    <2>2. view' = Append(view, e) /\ UNCHANGED eventPack
      BY <1>0, <2>1, AppendBehind, Zenon DEF PutEvent
    <2>3. QED
      BY <2>2, Zenon DEF Storage!EventStorageNext, Storage!Put
  <1>2. CASE OpenPack
    BY <1>2, Zenon DEF OpenPack, Storage!esVars
  <1>4. CASE EventPackProcessingDone
    <2>1. eventPack' = <<>> /\ collecting = <<>> /\ UNCHANGED <<collecting, eventsQueue>>
      BY <1>4 DEF EventPackProcessingDone, MemoryIInv, RangeIsCovered
    <2>2. view' = eventsQueue /\ view = eventPack \o eventsQueue
      BY <1>0, <2>1, Concat, EmptySeq, Zenon
    <2>3. SubSeq(eventPack \o eventsQueue, Len(eventPack) + 1, Len(eventPack \o eventsQueue)) = eventsQueue
      BY <1>0, SMT
    <2>4. Len(eventPack') = 0
      BY <2>1
    <2>5. QED
      BY <2>1, <2>2, <2>3, <2>4, Zenon
         DEF Storage!EventStorageNext, Storage!EventPackProcessingDone
  <1>5. CASE StopMemory
    BY <1>5, Zenon DEF StopMemory, Storage!esVars
  <1>6. CASE UNCHANGED memoryVars
    BY <1>6, Zenon DEF memoryVars, Storage!esVars
  <1>3. CASE GetNowait
    <2>1. eventsQueue # <<>>
      BY <1>3, SMT DEF GetNowait, MemoryIInv, MemoryTypeOK, RangeIsCovered
    <2>2. /\ Append(collecting, Head(eventsQueue)) \in Seq(Events)
          /\ Tail(eventsQueue) \in Seq(Events)
          /\ (eventPack \o Append(collecting, Head(eventsQueue))) \o Tail(eventsQueue) = view
      BY <1>0, <2>1, TakeHeadKeepsView
    <2>3. CASE left = 1
      <3>1. /\ eventPack = <<>> /\ collecting' = <<>> /\ eventsQueue' = Tail(eventsQueue)
            /\ eventPack' = Append(collecting, Head(eventsQueue))
        BY <1>3, <2>1, <2>3 DEF GetNowait, MemoryIInv, RangeIsCovered
      <3>2. view' = view
        <4>1. view' = Append(collecting, Head(eventsQueue)) \o Tail(eventsQueue)
          BY <2>2, <3>1, Concat, Zenon
        <4>2. QED
          BY <2>2, <3>1, <4>1, Concat, Zenon
      <3>3. Len(eventPack') \in 1 .. Len(view)
        <4>1. view = eventPack' \o Tail(eventsQueue)
          BY <2>2, <3>1, <3>2, Concat, Zenon
        <4>2. Len(eventPack') >= 1 /\ Len(view) = Len(eventPack') + Len(Tail(eventsQueue))
          <5>1. eventPack' \in Seq(Events) /\ Len(eventPack') >= 1
            BY <3>1, <2>2, <1>0, SMT
          <5>2. QED
            BY <4>1, <5>1, <2>2, ConcatProperties
        <4>3. QED
          BY <4>2, <2>2, <3>1, SMT
      <3>4. QED
        BY <3>1, <3>2, <3>3 DEF Storage!EventStorageNext, Storage!GetEventPack
    <2>4. CASE left # 1
      <3>1. /\ collecting' = Append(collecting, Head(eventsQueue)) /\ eventsQueue' = Tail(eventsQueue)
            /\ UNCHANGED eventPack
        BY <1>3, <2>1, <2>4 DEF GetNowait
      <3>2. QED
        BY <2>2, <3>1, Zenon DEF Storage!esVars
    <2>5. QED
      BY <2>3, <2>4
  <1>7. QED
    BY <1>1, <1>2, <1>3, <1>4, <1>5, <1>6 DEF MemoryNext

(* The in-memory storage keeps the promise of every event storage, whatever  *)
(* the sizes of its queue and of its packs.                                  *)
THEOREM MemoryImplementsEventStorage == MemorySpec => ImplementsEventStorage
  <1>1. MemoryInit => Storage!EventStorageInit
    BY EmptySeq, ConcatEmptySeq, Zenon DEF MemoryInit, Storage!EventStorageInit
  <1>2. QED
    BY <1>1, IInvInductive, StepRefines, PTL
       DEF MemorySpec, ImplementsEventStorage, Storage!EventStorageSpec

-----------------------------------------------------------------------------
(* SQLite                                                                  *)

Objects == DOMAIN db
FileOf(i) == db[i].file
Open(i) == ~db[i].stop /\ ~db[i].closed
Rows(f) == disk[f].rows
Gone(f) == disk[f].gone
There(f) == disk[f].there

\* The databases and the files belong together: an object is on a file that was
\* created, and the list holds the files that are there.
Structure ==
    /\ files \in Seq(Nat) /\ \A k, l \in DOMAIN files : files[k] = files[l] => k = l
    /\ \A f \in DOMAIN disk : There(f) <=> f \in Elements(files)
    /\ \A f \in DOMAIN disk : Gone(f) <= Len(Rows(f))
    /\ db # <<>> /\ \A i \in Objects : FileOf(i) \in DOMAIN disk

\* The sending thread works on a database, and some thread is about to start one
\* when none writes.
Rotation ==
    /\ sender # "idle" => readDb # 0
    /\ sender = "remove" => There(FileOf(readDb)) /\ ~Open(readDb)
    /\ sender = "reopen" => ~There(FileOf(readDb))
    /\ writeDb = 0 => sender = "start" \/ \E i \in Objects : db[i].pc = "start"

\* A file is written by the one object it was created for, and read by one: the
\* read database, as long as the file is there.
OneReader ==
    /\ \A i, j \in Objects : db[i].callback /\ db[j].callback /\ FileOf(i) = FileOf(j) => i = j
    /\ \A i \in Objects : db[i].callback \/ db[i].reads
    /\ \A i \in Objects : Open(i) => db[i].callback \/ There(FileOf(i))
    /\ \A i \in Objects : Open(i) /\ db[i].reads /\ There(FileOf(i)) => i = readDb
    /\ \A i \in Objects : db[i].reads \/ (db[i].next = <<>> /\ db[i].selected = <<>>)

\* A message is in one place: the queue holds the newest, a batch is held only for
\* its insert, and rows processed are those that were deleted.
Left == accepted - Len(queue)
OnePlace ==
    /\ Len(queue) <= accepted /\ \A k \in DOMAIN queue : queue[k] = Left + k
    /\ \A i \in Objects : db[i].pc = "insert" \/ db[i].batch = <<>>
    /\ \A i \in Objects : \A a \in DOMAIN db[i].batch : db[i].batch[a] <= Left
    /\ \A f \in DOMAIN disk : \A k \in DOMAIN Rows(f) : Rows(f)[k] <= Left
    /\ \A i, j \in Objects : \A a \in DOMAIN db[i].batch : \A b \in DOMAIN db[j].batch :
          db[i].batch[a] = db[j].batch[b] => i = j /\ a = b
    /\ \A f, g \in DOMAIN disk : \A k \in DOMAIN Rows(f) : \A l \in DOMAIN Rows(g) :
          Rows(f)[k] = Rows(g)[l] => f = g /\ k = l
    /\ \A i \in Objects : \A f \in DOMAIN disk : \A a \in DOMAIN db[i].batch : \A k \in DOMAIN Rows(f) :
          db[i].batch[a] # Rows(f)[k]
    /\ \A m \in done : \E f \in DOMAIN disk : \E k \in DOMAIN Rows(f) : k <= Gone(f) /\ Rows(f)[k] = m

\* What a query answers of a file of so many rows when at most that many are deleted.
Answer(s, gone, rows) ==
    \E g \in 0 .. gone : g + Len(s) <= rows /\ \A k \in DOMAIN s : s[k] = g + k
FromFile(s, f) == Answer(s, Gone(f), Len(Rows(f)))

\* What was queried and then deleted is known.
Fetches ==
    /\ \A i \in Objects : FromFile(db[i].next, FileOf(i)) /\ FromFile(db[i].selected, FileOf(i))
    /\ \A i \in Objects : Open(i) /\ ~(sender = "deleted" /\ i = readDb) =>
          \A k \in Elements(db[i].next) \cup Elements(db[i].selected) :
              k <= Gone(FileOf(i)) => Rows(FileOf(i))[k] \in inFlight

\* The pack holds what will be deleted.
Packs ==
    /\ sender = "got" =>
          /\ deletePoint <= Len(Rows(FileOf(readDb)))
          /\ \A k \in Gone(FileOf(readDb)) + 1 .. deletePoint : Rows(FileOf(readDb))[k] \in Elements(pack)
          /\ \A m \in Elements(pack) : \E k \in 1 .. deletePoint : Rows(FileOf(readDb))[k] = m
    /\ sender # "got" /\ readDb # 0 /\ Open(readDb) => deletePoint <= Gone(FileOf(readDb))
    /\ reread \subseteq inFlight

\* A database is closed without having been told only after stop(), which also
\* tells the one the sending thread works on; so a file found drained is.
Drains ==
    /\ \A i \in Objects : db[i].closed => db[i].stop \/ stopped
    /\ stopped /\ sender \in {"got", "deleted", "prepared", "cleanup", "start", "finalize"} => db[readDb].stop
    /\ sender = "got" => stopped \/ Open(readDb)
    /\ sender \in {"cleanup", "start", "finalize"} /\ There(FileOf(readDb)) /\ ~db[readDb].stop =>
          drained <= Gone(FileOf(readDb))
    /\ \A p \in lost : p[2] # "unread"

\* Where a message put() answered True for is.
Located(m) ==
    \/ m \in Elements(queue)
    \/ \E i \in Objects : m \in Elements(db[i].batch)
    \/ \E f \in DOMAIN disk : There(f) /\ \E k \in DOMAIN Rows(f) : k > Gone(f) /\ Rows(f)[k] = m
    \/ m \in done
    \/ \E p \in lost : p[1] = m
AllLocated == \A m \in 1 .. accepted : Located(m)

IInv == SqliteTypeOK /\ Structure /\ Rotation /\ OneReader /\ OnePlace /\ Fetches /\ Packs /\ Drains /\ AllLocated

USE SqliteAssumption DEF SqliteAssumption

-----------------------------------------------------------------------------
(* Objects and files in their sequences.                                    *)
LEMMA Updated ==
    ASSUME NEW S, NEW o \in Seq(S), NEW i \in DOMAIN o, NEW x \in S
    PROVE  LET p == [o EXCEPT ![i] = x]
           IN  /\ p \in Seq(S) /\ Len(p) = Len(o) /\ DOMAIN p = DOMAIN o /\ p[i] = x
               /\ \A j \in DOMAIN o : j # i => p[j] = o[j]
  BY ExceptSeq, LenProperties

LEMMA Appended ==
    ASSUME NEW S, NEW o \in Seq(S), NEW x \in S
    PROVE  LET p == Append(o, x)
               n == Len(o) + 1
           IN  /\ p \in Seq(S) /\ Len(p) = n /\ n \in Nat \ {0} /\ DOMAIN p = 1 .. n /\ DOMAIN o = 1 .. Len(o)
               /\ p[n] = x /\ \A j \in DOMAIN o : p[j] = o[j]
  BY AppendProperties, LenProperties

(* The fields of an object and of a file.                                   *)
LEMMA ObjectFields ==
    ASSUME db \in Seq(DatabaseObject), NEW i \in Objects
    PROVE  /\ db[i] \in DatabaseObject /\ i \in Nat \ {0}
           /\ FileOf(i) \in Nat /\ db[i].next \in Seq(Nat) /\ db[i].selected \in Seq(Nat)
           /\ db[i].batch \in Seq(Messages)
  <1>1. db[i] \in DatabaseObject /\ i \in Nat \ {0}
    BY ElementOfSeq, LenProperties DEF Objects
  <1>2. QED
    BY <1>1 DEF DatabaseObject, FileOf

LEMMA FileFields ==
    ASSUME disk \in Seq(DiskFile), NEW f \in DOMAIN disk
    PROVE  /\ disk[f] \in DiskFile /\ f \in Nat \ {0}
           /\ Rows(f) \in Seq(Messages) /\ Len(Rows(f)) \in Nat /\ DOMAIN Rows(f) = 1 .. Len(Rows(f))
           /\ Gone(f) \in Nat
  <1>1. disk[f] \in DiskFile /\ f \in Nat \ {0}
    BY ElementOfSeq, LenProperties
  <1>2. Rows(f) \in Seq(Messages) /\ Gone(f) \in Nat
    BY <1>1 DEF DiskFile, Rows, Gone
  <1>3. QED
    BY <1>1, <1>2, LenProperties

-----------------------------------------------------------------------------
(* What no step but a restart does: an object changes its file, is opened   *)
(* again or closed unasked; a file loses rows or gets back deleted ones.    *)
Follows(o, x) ==
    /\ x.file = o.file /\ x.callback = o.callback
    /\ o.stop => x.stop
    /\ o.closed => x.closed
    /\ o.reads => x.reads
    /\ x.closed => o.closed \/ x.stop \/ stopped
SameHands(o, x) ==
    /\ x.next = o.next /\ x.selected = o.selected /\ x.batch = o.batch
    /\ o.pc = "insert" => x.pc = "insert"
ObjectsKept ==
    /\ db' \in Seq(DatabaseObject) /\ Len(db) <= Len(db') /\ Len(db') <= MaxDatabases
    /\ \A i \in Objects : Follows(db[i], db'[i])
    /\ \A i \in DOMAIN db' \ Objects :
          /\ db'[i].next = <<>> /\ db'[i].selected = <<>> /\ db'[i].batch = <<>>
          /\ db'[i].callback \/ db'[i].reads
          /\ ~db'[i].closed
          /\ db'[i].file \in DOMAIN disk'
HandsKept == \A i \in Objects : SameHands(db[i], db'[i])
ReadsKept(i) == db'[i].next = db[i].next /\ db'[i].selected = db[i].selected
FilesKept ==
    /\ disk' \in Seq(DiskFile) /\ Len(disk) <= Len(disk')
    /\ \A f \in DOMAIN disk :
          /\ Len(Rows(f)) <= Len(disk'[f].rows)
          /\ \A k \in DOMAIN Rows(f) : disk'[f].rows[k] = Rows(f)[k]
          /\ Gone(f) <= disk'[f].gone /\ disk'[f].gone <= Len(disk'[f].rows)
          /\ disk'[f].there => There(f)
    /\ \A f \in DOMAIN disk' \ DOMAIN disk : disk'[f] = NewFile

LEMMA OneFollows ==
    ASSUME SqliteTypeOK, NEW i \in Objects, NEW x \in DatabaseObject, db' = [db EXCEPT ![i] = x], Follows(db[i], x)
    PROVE  /\ ObjectsKept /\ DOMAIN db' = Objects /\ db'[i] = x
           /\ \A j \in Objects : j # i => db'[j] = db[j]
           /\ SameHands(db[i], x) => HandsKept
  <1>1. db \in Seq(DatabaseObject) /\ Len(db) <= MaxDatabases /\ Len(db) \in Nat
    BY LenProperties DEF SqliteTypeOK
  <1>2. db' \in Seq(DatabaseObject) /\ Len(db') = Len(db) /\ DOMAIN db' = Objects /\ db'[i] = x
        /\ \A j \in Objects : j # i => db'[j] = db[j]
    BY <1>1, Updated DEF Objects
  <1>3. \A j \in Objects : Follows(db[j], db'[j])
    <2>1. TAKE j \in Objects
    <2>2. CASE j = i
      BY <1>2, <2>2
    <2>3. CASE j # i
      BY <1>2, <2>3 DEF Follows
    <2>4. QED
      BY <2>2, <2>3
  <1>4. ObjectsKept
    BY <1>1, <1>2, <1>3 DEF ObjectsKept
  <1>5. ASSUME SameHands(db[i], x) PROVE HandsKept
    <2>1. SUFFICES ASSUME NEW j \in Objects PROVE SameHands(db[j], db'[j])
      BY DEF HandsKept
    <2>2. CASE j = i
      BY <1>2, <1>5, <2>2
    <2>3. CASE j # i
      BY <1>2, <2>3 DEF SameHands
    <2>4. QED
      BY <2>2, <2>3
  <1>6. QED
    BY <1>2, <1>4, <1>5

LEMMA OneAdded ==
    ASSUME SqliteTypeOK, NEW o \in Seq(DatabaseObject), NEW x \in DatabaseObject, db' = Append(o, x),
           Len(o) = Len(db), Len(o) < MaxDatabases, \A i \in Objects : Follows(db[i], o[i]) /\ SameHands(db[i], o[i]),
           x.next = <<>>, x.selected = <<>>, x.batch = <<>>, x.callback \/ x.reads, ~x.closed, x.file \in DOMAIN disk'
    PROVE  /\ ObjectsKept /\ HandsKept
           /\ Len(db) + 1 \in Nat \ {0} /\ DOMAIN db' = Objects \cup {Len(db) + 1} /\ Len(db) + 1 \notin Objects
           /\ db'[Len(db) + 1] = x
           /\ \A i \in Objects : db'[i] = o[i]
  <1>1. db \in Seq(DatabaseObject) /\ Len(db) \in Nat /\ Objects = 1 .. Len(db)
    BY LenProperties DEF SqliteTypeOK, Objects
  <1>2. db' \in Seq(DatabaseObject) /\ Len(db') = Len(db) + 1 /\ DOMAIN db' = 1 .. Len(db) + 1 /\ DOMAIN o = Objects
        /\ db'[Len(db) + 1] = x /\ \A i \in Objects : db'[i] = o[i]
    BY <1>1, Appended, LenProperties
  <1>3. DOMAIN db' = Objects \cup {Len(db) + 1} /\ Len(db) + 1 \notin Objects /\ Len(db) + 1 \in Nat \ {0}
    BY <1>1, <1>2
  <1>4. \A i \in Objects : Follows(db[i], db'[i]) /\ SameHands(db[i], db'[i])
    BY <1>2
  <1>5. Len(db) <= Len(db') /\ Len(db') <= MaxDatabases
    BY <1>1, <1>2
  <1>6. QED
    BY <1>2, <1>3, <1>4, <1>5 DEF ObjectsKept, HandsKept

LEMMA NothingMoves ==
    ASSUME SqliteTypeOK
    PROVE  /\ db' = db => ObjectsKept /\ HandsKept /\ DOMAIN db' = Objects
           /\ (\A f \in DOMAIN disk : Gone(f) <= Len(Rows(f))) /\ disk' = disk => FilesKept /\ DOMAIN disk' = DOMAIN disk
  <1>1. db \in Seq(DatabaseObject) /\ Len(db) \in Nat /\ Len(db) <= MaxDatabases
    BY LenProperties DEF SqliteTypeOK
  <1>2. ASSUME db' = db PROVE ObjectsKept /\ HandsKept /\ DOMAIN db' = Objects
    <2>1. \A i \in Objects : Follows(db[i], db'[i]) /\ SameHands(db[i], db'[i])
      BY <1>2 DEF Follows, SameHands
    <2>2. QED
      BY <1>1, <1>2, <2>1 DEF ObjectsKept, HandsKept, Objects
  <1>3. ASSUME \A f \in DOMAIN disk : Gone(f) <= Len(Rows(f)), disk' = disk
        PROVE  FilesKept /\ DOMAIN disk' = DOMAIN disk
    <2>1. disk \in Seq(DiskFile)
      BY DEF SqliteTypeOK
    <2>2. QED
      BY <1>3, <2>1, FileFields, LenProperties DEF FilesKept, Rows, Gone, There
  <1>4. QED
    BY <1>2, <1>3

LEMMA Later ==
    ASSUME SqliteTypeOK, ObjectsKept, FilesKept
    PROVE  /\ Objects \subseteq DOMAIN db' /\ DOMAIN disk \subseteq DOMAIN disk'
           /\ \A f \in DOMAIN disk' :
                /\ Rows(f)' \in Seq(Messages) /\ Len(Rows(f)') \in Nat /\ DOMAIN Rows(f)' = 1 .. Len(Rows(f)')
                /\ Gone(f)' \in Nat
           /\ \A i \in Objects : FileOf(i)' = FileOf(i) /\ (Open(i)' => Open(i)) /\ (db'[i].callback <=> db[i].callback)
  <1>1. Len(db) \in Nat /\ Objects = 1 .. Len(db) /\ Len(db') \in Nat /\ DOMAIN db' = 1 .. Len(db') /\ Len(db) <= Len(db')
    BY LenProperties DEF Objects, SqliteTypeOK, ObjectsKept
  <1>2. Len(disk) \in Nat /\ DOMAIN disk = 1 .. Len(disk) /\ Len(disk') \in Nat /\ DOMAIN disk' = 1 .. Len(disk')
        /\ Len(disk) <= Len(disk')
    BY LenProperties DEF SqliteTypeOK, FilesKept
  <1>3. \A f \in DOMAIN disk' : disk'[f] \in DiskFile
    BY <1>2, ElementOfSeq DEF FilesKept
  <1>4. \A f \in DOMAIN disk' : Rows(f)' \in Seq(Messages) /\ Gone(f)' \in Nat
    BY <1>3 DEF DiskFile, Rows, Gone
  <1>5. \A i \in Objects : FileOf(i)' = FileOf(i) /\ (Open(i)' => Open(i)) /\ (db'[i].callback <=> db[i].callback)
    BY DEF ObjectsKept, Follows, FileOf, Open
  <1>6. QED
    BY <1>1, <1>2, <1>4, <1>5, LenProperties

-----------------------------------------------------------------------------
(* A part of the invariant is kept by a step that leaves what it is about.  *)
LEMMA StructureKept ==
    ASSUME SqliteTypeOK, Structure, ObjectsKept, FilesKept, files' = files, DOMAIN disk' = DOMAIN disk,
           \A f \in DOMAIN disk : disk'[f].there <=> There(f)
    PROVE  Structure'
  <1>1. \A f \in DOMAIN disk' : There(f)' <=> f \in Elements(files')
    BY DEF Structure, There
  <1>2. \A f \in DOMAIN disk' : Gone(f)' <= Len(Rows(f)')
    BY DEF FilesKept, Gone, Rows
  <1>3. \A i \in DOMAIN db' : FileOf(i)' \in DOMAIN disk'
    BY DEF ObjectsKept, Structure, Follows, FileOf, Objects
  <1>4. db' # <<>>
    <2>1. Len(db) \in Nat /\ Len(db) # 0 /\ Len(db') \in Nat /\ Len(db) <= Len(db')
      BY EmptySeq, LenProperties DEF Structure, SqliteTypeOK, ObjectsKept
    <2>2. QED
      BY <2>1, EmptySeq
  <1>5. QED
    BY <1>1, <1>2, <1>3, <1>4 DEF Structure, Objects

LEMMA OneReaderKept ==
    ASSUME OneReader, Structure, ObjectsKept, DOMAIN db' = Objects, readDb' = readDb,
           \A i \in Objects : (db'[i].reads => db[i].reads) /\ (There(FileOf(i))' <=> There(FileOf(i))),
           \A i \in Objects : db'[i].reads \/ ReadsKept(i)
    PROVE  OneReader'
  <1>1. \A i \in Objects : FileOf(i)' = FileOf(i) /\ (db'[i].callback <=> db[i].callback)
                           /\ (Open(i)' => Open(i)) /\ (db'[i].reads <=> db[i].reads)
    BY DEF ObjectsKept, Follows, FileOf, Open
  <1>2. \A i, j \in DOMAIN db' : db'[i].callback /\ db'[j].callback /\ FileOf(i)' = FileOf(j)' => i = j
    BY <1>1 DEF OneReader
  <1>3. \A i \in DOMAIN db' : db'[i].callback \/ db'[i].reads
    BY <1>1 DEF OneReader
  <1>4. \A i \in DOMAIN db' : Open(i)' => db'[i].callback \/ There(FileOf(i))'
    BY <1>1 DEF OneReader
  <1>5. \A i \in DOMAIN db' : Open(i)' /\ db'[i].reads /\ There(FileOf(i))' => i = readDb'
    BY <1>1 DEF OneReader
  <1>6. \A i \in DOMAIN db' : db'[i].reads \/ (db'[i].next = <<>> /\ db'[i].selected = <<>>)
    BY <1>1 DEF OneReader, ReadsKept
  <1>7. QED
    BY <1>2, <1>3, <1>4, <1>5, <1>6 DEF OneReader, Objects

LEMMA AnswerLater ==
    ASSUME NEW s \in Seq(Nat), NEW g \in Nat, NEW r \in Nat, NEW h \in Nat, NEW q \in Nat,
           Answer(s, g, r), g <= h, r <= q
    PROVE  Answer(s, h, q) /\ Elements(s) \subseteq 1 .. r
  <1>1. PICK a \in 0 .. g : a + Len(s) <= r /\ \A k \in DOMAIN s : s[k] = a + k
    BY DEF Answer
  <1>2. Len(s) \in Nat /\ DOMAIN s = 1 .. Len(s)
    BY LenProperties
  <1>3. a \in 0 .. h /\ a + Len(s) <= q
    BY <1>1, <1>2
  <1>4. \A k \in DOMAIN s : s[k] \in 1 .. r
    BY <1>1, <1>2
  <1>5. QED
    BY <1>1, <1>3, <1>4 DEF Answer, Elements

LEMMA FetchesKept ==
    ASSUME SqliteTypeOK, Structure, Fetches, ObjectsKept, \A i \in Objects : ReadsKept(i), FilesKept, inFlight \subseteq inFlight',
           \A f \in DOMAIN disk : disk'[f].gone = Gone(f),
           sender = "deleted" => sender' = "deleted" /\ readDb' = readDb
    PROVE  Fetches'
  <1>1. \A i \in Objects : i \in DOMAIN db' /\ FileOf(i)' = FileOf(i) /\ FileOf(i) \in DOMAIN disk /\ (Open(i)' => Open(i))
                           /\ db'[i].next = db[i].next /\ db'[i].selected = db[i].selected
    BY Later DEF Structure, ReadsKept
  <1>2. \A f \in DOMAIN disk : disk'[f].gone = Gone(f) /\ Len(Rows(f)) <= Len(disk'[f].rows)
                               /\ \A k \in DOMAIN Rows(f) : disk'[f].rows[k] = Rows(f)[k]
    BY DEF FilesKept
  <1>3. \A f \in DOMAIN disk' : disk'[f].gone \in Nat /\ Len(disk'[f].rows) \in Nat
    BY Later DEF Rows, Gone
  <1>4. ASSUME NEW i \in Objects, NEW s \in {db[i].next, db[i].selected}
        PROVE  /\ Answer(s, disk'[FileOf(i)].gone, Len(disk'[FileOf(i)].rows))
               /\ Elements(s) \subseteq DOMAIN Rows(FileOf(i))
    <2>1. Answer(s, Gone(FileOf(i)), Len(Rows(FileOf(i))))
      BY DEF Fetches, FromFile
    <2>2. s \in Seq(Nat)
      BY ObjectFields DEF SqliteTypeOK
    <2>3. Gone(FileOf(i)) \in Nat /\ Len(Rows(FileOf(i))) \in Nat /\ DOMAIN Rows(FileOf(i)) = 1 .. Len(Rows(FileOf(i)))
      BY <1>1, FileFields DEF SqliteTypeOK
    <2>4. disk'[FileOf(i)].gone \in Nat /\ Len(disk'[FileOf(i)].rows) \in Nat
      BY <1>1, <1>3, Later
    <2>5. QED
      BY <1>1, <1>2, <2>1, <2>2, <2>3, <2>4, AnswerLater
  <1>5. ASSUME NEW i \in DOMAIN db'
        PROVE  FromFile(db[i].next, FileOf(i))' /\ FromFile(db[i].selected, FileOf(i))'
    <2>1. CASE i \in Objects
      <3>1. /\ Answer(db[i].next, disk'[FileOf(i)].gone, Len(disk'[FileOf(i)].rows))
            /\ Answer(db[i].selected, disk'[FileOf(i)].gone, Len(disk'[FileOf(i)].rows))
        BY <1>4, <2>1
      <3>2. QED
        BY <1>1, <2>1, <3>1 DEF FromFile, Gone, Rows
    <2>2. CASE i \notin Objects
      <3>1. db'[i].next = <<>> /\ db'[i].selected = <<>> /\ FileOf(i)' \in DOMAIN disk'
        BY <1>5, <2>2 DEF ObjectsKept, FileOf
      <3>2. Gone(FileOf(i))' \in Nat /\ Len(Rows(FileOf(i))') \in Nat
        BY <3>1, Later
      <3>3. 0 \in 0 .. Gone(FileOf(i))' /\ 0 + Len(<<>>) <= Len(Rows(FileOf(i))') /\ DOMAIN <<>> = {}
        BY <3>2
      <3>4. Answer(<<>>, Gone(FileOf(i))', Len(Rows(FileOf(i))'))
        BY <3>3 DEF Answer
      <3>5. QED
        BY <3>1, <3>4 DEF FromFile, FileOf
    <2>3. QED
      BY <2>1, <2>2
  <1>6. ASSUME NEW i \in DOMAIN db', Open(i)', ~(sender' = "deleted" /\ i = readDb'),
               NEW k \in Elements(db'[i].next) \cup Elements(db'[i].selected), k <= Gone(FileOf(i))'
        PROVE  Rows(FileOf(i))'[k] \in inFlight'
    <2>1. CASE i \in Objects
      <3>1. Open(i) /\ ~(sender = "deleted" /\ i = readDb)
        BY <1>1, <1>6, <2>1
      <3>2. k \in Elements(db[i].next) \cup Elements(db[i].selected) /\ k <= Gone(FileOf(i))
        BY <1>1, <1>2, <1>6, <2>1 DEF Gone
      <3>3. Rows(FileOf(i))[k] \in inFlight
        BY <2>1, <3>1, <3>2 DEF Fetches
      <3>4. k \in DOMAIN Rows(FileOf(i))
        BY <1>4, <2>1, <3>2
      <3>5. QED
        BY <1>1, <1>2, <2>1, <3>3, <3>4 DEF Rows
    <2>2. CASE i \notin Objects
      BY <1>6, <2>2 DEF ObjectsKept, Elements
    <2>3. QED
      BY <2>1, <2>2
  <1>7. QED
    BY <1>5, <1>6 DEF Fetches, Objects

LEMMA MessagesInHands ==
    ASSUME SqliteTypeOK
    PROVE  /\ \A i \in Objects : \A a \in DOMAIN db[i].batch : db[i].batch[a] \in Messages /\ a \in Nat \ {0}
           /\ \A f \in DOMAIN disk : \A k \in DOMAIN Rows(f) : Rows(f)[k] \in Messages /\ k \in Nat \ {0}
           /\ \A k \in DOMAIN queue : queue[k] \in Messages /\ k \in Nat \ {0}
  <1>1. \A i \in Objects : db[i].batch \in Seq(Messages)
    BY ObjectFields DEF SqliteTypeOK
  <1>2. \A f \in DOMAIN disk : Rows(f) \in Seq(Messages)
    BY FileFields DEF SqliteTypeOK
  <1>3. queue \in Seq(Messages)
    BY DEF SqliteTypeOK
  <1>4. \A s \in Seq(Messages) : \A a \in DOMAIN s : s[a] \in Messages /\ a \in Nat \ {0}
    BY ElementOfSeq, LenProperties
  <1>5. QED
    BY <1>1, <1>2, <1>3, <1>4

BatchesKept ==
    \A i \in DOMAIN db' : db'[i].batch # <<>> =>
        i \in Objects /\ db'[i].batch = db[i].batch /\ (db[i].pc = "insert" => db'[i].pc = "insert")
RowsKept == \A f \in DOMAIN disk : disk'[f].rows = Rows(f)

LEMMA RowsLater ==
    ASSUME SqliteTypeOK, FilesKept, RowsKept
    PROVE  /\ DOMAIN disk \subseteq DOMAIN disk'
           /\ \A f \in DOMAIN disk' : \A k \in DOMAIN Rows(f)' :
                f \in DOMAIN disk /\ Rows(f)' = Rows(f) /\ k \in DOMAIN Rows(f)
  <1>1. Len(disk) \in Nat /\ DOMAIN disk = 1 .. Len(disk) /\ Len(disk') \in Nat /\ DOMAIN disk' = 1 .. Len(disk')
        /\ Len(disk) <= Len(disk')
    BY LenProperties DEF SqliteTypeOK, FilesKept
  <1>2. \A f \in DOMAIN disk' \ DOMAIN disk : DOMAIN disk'[f].rows = {}
    BY DEF FilesKept, NewFile
  <1>3. QED
    BY <1>1, <1>2 DEF RowsKept, Rows


LEMMA OnePlaceKept ==
    ASSUME SqliteTypeOK, OnePlace, BatchesKept, FilesKept, RowsKept,
           Len(queue') <= accepted', \A k \in DOMAIN queue' : queue'[k] = accepted' - Len(queue') + k,
           Len(queue') \in Nat, accepted' \in Nat, Left <= accepted' - Len(queue'),
           \A m \in done' \ done : \E f \in DOMAIN disk : \E k \in DOMAIN Rows(f) : k <= disk'[f].gone /\ Rows(f)[k] = m
    PROVE  OnePlace'
  <1>1. \A i \in DOMAIN db' : \A a \in DOMAIN db'[i].batch : i \in Objects /\ db'[i].batch = db[i].batch
    BY DEF BatchesKept
  <1>2. \A f \in DOMAIN disk' : \A k \in DOMAIN Rows(f)' :
            f \in DOMAIN disk /\ Rows(f)' = Rows(f) /\ k \in DOMAIN Rows(f)
    BY RowsLater
  <1>3. Left \in Int /\ Left' \in Int /\ Left <= Left'
    <2>1. accepted \in Nat /\ Len(queue) \in Nat
      BY LenProperties DEF SqliteTypeOK
    <2>2. Left = accepted - Len(queue) /\ Left' = accepted' - Len(queue')
      BY DEF Left
    <2>3. QED
      BY <2>1, <2>2
  <1>4. \A i \in DOMAIN db' : db'[i].pc = "insert" \/ db'[i].batch = <<>>
    BY DEF OnePlace, BatchesKept
  <1>5. \A i \in DOMAIN db' : \A a \in DOMAIN db'[i].batch : db'[i].batch[a] <= Left'
    <2>1. TAKE i \in DOMAIN db'
    <2>2. TAKE a \in DOMAIN db'[i].batch
    <2>3. i \in Objects /\ a \in DOMAIN db[i].batch /\ db'[i].batch[a] = db[i].batch[a]
      BY <1>1
    <2>4. db[i].batch[a] \in Nat /\ db[i].batch[a] <= Left
      BY <2>3, MessagesInHands DEF OnePlace, Messages
    <2>5. QED
      BY <1>3, <2>3, <2>4
  <1>6. \A f \in DOMAIN disk' : \A k \in DOMAIN Rows(f)' : Rows(f)'[k] <= Left'
    <2>1. TAKE f \in DOMAIN disk'
    <2>2. TAKE k \in DOMAIN Rows(f)'
    <2>3. f \in DOMAIN disk /\ k \in DOMAIN Rows(f) /\ Rows(f)'[k] = Rows(f)[k]
      BY <1>2
    <2>4. Rows(f)[k] \in Nat /\ Rows(f)[k] <= Left
      BY <2>3, MessagesInHands DEF OnePlace, Messages
    <2>5. QED
      BY <1>3, <2>3, <2>4
  <1>7. \A i, j \in DOMAIN db' : \A a \in DOMAIN db'[i].batch : \A b \in DOMAIN db'[j].batch :
          db'[i].batch[a] = db'[j].batch[b] => i = j /\ a = b
    BY <1>1 DEF OnePlace
  <1>8. \A f, g \in DOMAIN disk' : \A k \in DOMAIN Rows(f)' : \A l \in DOMAIN Rows(g)' :
          Rows(f)'[k] = Rows(g)'[l] => f = g /\ k = l
    BY <1>2 DEF OnePlace
  <1>9. \A i \in DOMAIN db' : \A f \in DOMAIN disk' : \A a \in DOMAIN db'[i].batch : \A k \in DOMAIN Rows(f)' :
          db'[i].batch[a] # Rows(f)'[k]
    BY <1>1, <1>2 DEF OnePlace
  <1>10. \A m \in done' : \E f \in DOMAIN disk' : \E k \in DOMAIN Rows(f)' : k <= Gone(f)' /\ Rows(f)'[k] = m
    <2>1. TAKE m \in done'
    <2>2. PICK f \in DOMAIN disk : \E k \in DOMAIN Rows(f) : k <= disk'[f].gone /\ Rows(f)[k] = m
      <3>1. CASE m \in done
        <4>1. PICK f \in DOMAIN disk : \E k \in DOMAIN Rows(f) : k <= Gone(f) /\ Rows(f)[k] = m
          BY <3>1 DEF OnePlace
        <4>2. PICK k \in DOMAIN Rows(f) : k <= Gone(f) /\ Rows(f)[k] = m
          BY <4>1
        <4>3. k \in Nat /\ Gone(f) \in Nat /\ disk'[f].gone \in Nat /\ Gone(f) <= disk'[f].gone
          <5>1. f \in DOMAIN disk' /\ disk'[f] \in DiskFile
            BY RowsLater, ElementOfSeq, LenProperties DEF FilesKept
          <5>2. disk'[f].gone \in Nat
            BY <5>1 DEF DiskFile
          <5>3. k \in Nat /\ Gone(f) \in Nat
            BY MessagesInHands, FileFields DEF SqliteTypeOK
          <5>4. QED
            BY <5>2, <5>3 DEF FilesKept
        <4>4. k <= disk'[f].gone
          BY <4>2, <4>3
        <4>5. QED
          BY <4>2, <4>4
      <3>2. CASE m \notin done
        BY <3>2
      <3>3. QED
        BY <3>1, <3>2
    <2>3. f \in DOMAIN disk' /\ Rows(f)' = Rows(f) /\ Gone(f)' = disk'[f].gone
      BY RowsLater DEF RowsKept, Rows, Gone
    <2>4. QED
      BY <2>2, <2>3
  <1>11. QED
    BY <1>4, <1>5, <1>6, <1>7, <1>8, <1>9, <1>10 DEF OnePlace, Objects, Left

LEMMA LocatedKept ==
    ASSUME SqliteTypeOK, AllLocated, ObjectsKept, FilesKept, RowsKept, accepted' = accepted,
           Elements(queue) \subseteq Elements(queue'), \A i \in Objects : db'[i].batch = db[i].batch,
           \A f \in DOMAIN disk : (There(f) => There(f)') /\ disk'[f].gone = Gone(f),
           done \subseteq done', lost \subseteq lost'
    PROVE  AllLocated'
  <1>1. Objects \subseteq DOMAIN db' /\ DOMAIN disk \subseteq DOMAIN disk'
    BY Later
  <1>2. ASSUME NEW m \in 1 .. accepted, Located(m)
        PROVE  Located(m)'
    <2>1. CASE m \in Elements(queue)
      BY <2>1 DEF Located
    <2>2. CASE \E i \in Objects : m \in Elements(db[i].batch)
      BY <1>1, <2>2 DEF Located, Objects
    <2>3. CASE \E f \in DOMAIN disk : There(f) /\ \E k \in DOMAIN Rows(f) : k > Gone(f) /\ Rows(f)[k] = m
      <3>1. PICK f \in DOMAIN disk : There(f) /\ \E k \in DOMAIN Rows(f) : k > Gone(f) /\ Rows(f)[k] = m
        BY <2>3
      <3>2. f \in DOMAIN disk' /\ There(f)' /\ Gone(f)' = Gone(f) /\ Rows(f)' = Rows(f)
        BY <1>1, <3>1 DEF RowsKept, Rows, Gone
      <3>3. QED
        BY <3>1, <3>2 DEF Located
    <2>4. CASE m \in done \/ \E p \in lost : p[1] = m
      BY <2>4 DEF Located
    <2>5. QED
      BY <1>2, <2>1, <2>2, <2>3, <2>4 DEF Located
  <1>3. QED
    BY <1>2 DEF AllLocated

LEMMA PacksKept ==
    ASSUME SqliteTypeOK, Structure, Rotation, Packs, ObjectsKept, FilesKept, readDb' = readDb,
           deletePoint' = deletePoint, pack' = pack, reread' = reread, inFlight \subseteq inFlight',
           sender' = "got" <=> sender = "got", \A f \in DOMAIN disk : disk'[f].gone = Gone(f)
    PROVE  Packs'
  <1>1. ASSUME readDb # 0
        PROVE  /\ readDb \in Objects /\ FileOf(readDb) \in DOMAIN disk
               /\ FileOf(readDb)' = FileOf(readDb) /\ (Open(readDb)' => Open(readDb))
    <2>1. readDb \in Objects
      BY <1>1, LenProperties DEF SqliteTypeOK, Objects
    <2>2. QED
      BY <2>1, Later DEF Structure
  <1>2. ASSUME NEW f \in DOMAIN disk
        PROVE  /\ Gone(f)' = Gone(f) /\ Gone(f) \in Nat /\ Len(Rows(f)) \in Nat /\ Len(Rows(f)') \in Nat
               /\ Len(Rows(f)) <= Len(Rows(f)')
               /\ \A k \in 1 .. Len(Rows(f)) : Rows(f)'[k] = Rows(f)[k]
    <2>1. f \in DOMAIN disk' /\ DOMAIN Rows(f) = 1 .. Len(Rows(f))
      BY Later, FileFields DEF SqliteTypeOK
    <2>2. QED
      BY <2>1, Later, FileFields DEF SqliteTypeOK, FilesKept, Rows, Gone
  <1>3. ASSUME sender' = "got"
        PROVE  /\ deletePoint' <= Len(Rows(FileOf(readDb))')
               /\ \A k \in Gone(FileOf(readDb))' + 1 .. deletePoint' : Rows(FileOf(readDb))'[k] \in Elements(pack')
               /\ \A m \in Elements(pack') : \E k \in 1 .. deletePoint' : Rows(FileOf(readDb))'[k] = m
    <2>1. sender = "got" /\ readDb # 0
      BY <1>3 DEF Rotation
    <2>2. PICK f \in DOMAIN disk : f = FileOf(readDb) /\ FileOf(readDb)' = f
      BY <1>1, <2>1
    <2>3. /\ deletePoint <= Len(Rows(f))
          /\ \A k \in Gone(f) + 1 .. deletePoint : Rows(f)[k] \in Elements(pack)
          /\ \A m \in Elements(pack) : \E k \in 1 .. deletePoint : Rows(f)[k] = m
      BY <2>1, <2>2 DEF Packs
    <2>4. deletePoint \in Nat
      BY DEF SqliteTypeOK
    <2>5. deletePoint <= Len(Rows(f)') /\ \A k \in 1 .. deletePoint : k \in 1 .. Len(Rows(f)) /\ Rows(f)'[k] = Rows(f)[k]
      BY <1>2, <2>2, <2>3, <2>4
    <2>6. \A k \in Gone(f)' + 1 .. deletePoint : k \in 1 .. deletePoint /\ k \in Gone(f) + 1 .. deletePoint
      BY <1>2, <2>2, <2>4
    <2>7. /\ \A k \in Gone(f)' + 1 .. deletePoint : Rows(f)'[k] \in Elements(pack)
          /\ \A m \in Elements(pack) : \E k \in 1 .. deletePoint : Rows(f)'[k] = m
      BY <2>3, <2>5, <2>6
    <2>8. Rows(f)' = disk'[f].rows /\ Gone(f)' = disk'[f].gone /\ Rows(FileOf(readDb))' = disk'[f].rows
          /\ Gone(FileOf(readDb))' = disk'[f].gone
      BY <2>2 DEF Rows, Gone
    <2>9. QED
      BY <2>5, <2>7, <2>8
  <1>4. ASSUME sender' # "got", readDb' # 0, Open(readDb)'
        PROVE  deletePoint' <= Gone(FileOf(readDb))'
    <2>1. readDb # 0 /\ readDb' = readDb /\ sender # "got"
      BY <1>4
    <2>2. deletePoint <= Gone(FileOf(readDb))
      BY <1>1, <1>4, <2>1 DEF Packs
    <2>3. QED
      BY <1>1, <1>2, <2>1, <2>2 DEF Gone
  <1>5. QED
    BY <1>3, <1>4 DEF Packs

LEMMA DrainsKept ==
    ASSUME SqliteTypeOK, Structure, Rotation, Drains, ObjectsKept, FilesKept, readDb' = readDb,
           sender' = sender, drained' = drained, stopped => stopped',
           stopped' /\ readDb # 0 => stopped \/ db'[readDb].stop,
           sender = "got" => stopped' \/ Open(readDb)',
           \A p \in lost' \ lost : p[2] # "unread"
    PROVE  Drains'
  <1>1. ASSUME readDb # 0
        PROVE  /\ readDb \in Objects /\ FileOf(readDb) \in DOMAIN disk
               /\ FileOf(readDb)' = FileOf(readDb) /\ (db[readDb].stop => db'[readDb].stop)
    <2>1. readDb \in Objects
      BY <1>1, LenProperties DEF SqliteTypeOK, Objects
    <2>2. QED
      BY <2>1, Later DEF Structure, ObjectsKept, Follows
  <1>2. \A i \in DOMAIN db' : db'[i].closed => db'[i].stop \/ stopped'
    BY DEF Drains, ObjectsKept, Follows
  <1>3. ASSUME stopped', sender' \in {"got", "deleted", "prepared", "cleanup", "start", "finalize"}
        PROVE  db'[readDb'].stop
    BY <1>1, <1>3 DEF Drains, Rotation
  <1>4. sender' = "got" => stopped' \/ Open(readDb)'
    OBVIOUS
  <1>5. ASSUME sender' \in {"cleanup", "start", "finalize"}, There(FileOf(readDb))', ~db'[readDb'].stop
        PROVE  drained' <= Gone(FileOf(readDb))'
    <2>1. readDb # 0
      BY <1>5 DEF Rotation
    <2> DEFINE f == FileOf(readDb)
    <2>2. f \in DOMAIN disk /\ There(f)' /\ ~db[readDb].stop /\ FileOf(readDb)' = f
      BY <1>1, <1>5, <2>1 DEF There
    <2>3. There(f) /\ Gone(f) <= disk'[f].gone /\ Gone(FileOf(readDb))' = disk'[f].gone
      BY <2>2 DEF FilesKept, There, Gone
    <2>4. drained <= Gone(f)
      BY <1>5, <2>2, <2>3 DEF Drains
    <2>5. Gone(f) \in Nat /\ disk'[f].gone \in Nat /\ drained \in Nat
      <3>1. f \in DOMAIN disk'
        BY <2>2, Later
      <3>2. QED
        BY <2>2, <3>1, Later, FileFields DEF SqliteTypeOK, Gone
    <2>6. QED
      BY <2>3, <2>4, <2>5
  <1>6. \A p \in lost' : p[2] # "unread"
    BY DEF Drains
  <1>7. QED
    BY <1>2, <1>3, <1>4, <1>5, <1>6 DEF Drains, Objects

(* A step of the threads that leaves the messages where they are.           *)
LEMMA QuietStep ==
    ASSUME IInv, ObjectsKept, HandsKept, DOMAIN db' = Objects, \A i \in Objects : db'[i].reads => db[i].reads,
           UNCHANGED <<queue, disk, files, readDb, senderVars, history>>,
           isMax' \in BOOLEAN, stopped' \in BOOLEAN, writeDb' \in 0 .. Len(db'),
           stopped => stopped', stopped' /\ readDb # 0 => stopped \/ db'[readDb].stop,
           sender = "got" => stopped' \/ Open(readDb)',
           writeDb' = 0 => sender = "start" \/ \E i \in DOMAIN db' : db'[i].pc = "start"
    PROVE  IInv'
  <1>1. SqliteTypeOK /\ Structure /\ Rotation /\ OneReader /\ OnePlace /\ Fetches /\ Packs /\ Drains /\ AllLocated
    BY DEF IInv
  <1>2. /\ FilesKept /\ DOMAIN disk' = DOMAIN disk
        /\ \A f \in DOMAIN disk : disk'[f].gone = Gone(f) /\ disk'[f].rows = Rows(f) /\ (There(f)' <=> There(f))
                                  /\ (disk'[f].there <=> There(f))
    BY <1>1, NothingMoves DEF Structure, Gone, Rows, There
  <1>3. Len(db') \in Nat /\ Len(db) \in Nat /\ Len(db) <= Len(db')
    BY <1>1, LenProperties DEF ObjectsKept, SqliteTypeOK
  <1>4. SqliteTypeOK'
    BY <1>1, <1>3 DEF SqliteTypeOK, ObjectsKept, senderVars, history
  <1>5. Structure'
    BY <1>1, <1>2, StructureKept
  <1>6. \A i \in Objects : FileOf(i)' = FileOf(i) /\ FileOf(i) \in DOMAIN disk
    BY <1>1, <1>2, Later DEF Structure
  <1>7. Rotation'
    <2>1. ASSUME readDb # 0 PROVE FileOf(readDb)' = FileOf(readDb) /\ FileOf(readDb) \in DOMAIN disk /\ (Open(readDb)' => Open(readDb))
      <3>1. readDb \in Objects
        BY <1>1, <2>1, LenProperties DEF SqliteTypeOK, Objects
      <3>2. QED
        BY <1>1, <1>2, <1>6, <3>1, Later
    <2>2. sender' = sender /\ readDb' = readDb
      BY DEF senderVars
    <2>3. QED
      BY <1>1, <1>2, <2>1, <2>2 DEF Rotation, Objects, There
  <1>8. OneReader'
    BY <1>1, <1>2, <1>6, OneReaderKept DEF HandsKept, SameHands, ReadsKept, There
  <1>9. OnePlace'
    <2>1. BatchesKept
      BY DEF HandsKept, SameHands, BatchesKept
    <2>2. Left \in Int /\ Len(queue) \in Nat /\ accepted \in Nat
      BY <1>1, LenProperties DEF Left, SqliteTypeOK
    <2>3. /\ Len(queue') <= accepted' /\ \A k \in DOMAIN queue' : queue'[k] = accepted' - Len(queue') + k
          /\ Len(queue') \in Nat /\ accepted' \in Nat /\ Left <= accepted' - Len(queue') /\ done' \ done = {}
      BY <1>1, <2>2 DEF OnePlace, Left, history
    <2>4. QED
      BY <1>1, <1>2, <2>1, <2>3, OnePlaceKept DEF RowsKept
  <1>10. Fetches'
    BY <1>1, <1>2, FetchesKept DEF HandsKept, SameHands, ReadsKept, senderVars, history
  <1>11. Packs'
    BY <1>1, <1>2, PacksKept DEF senderVars, history
  <1>12. Drains'
    BY <1>1, <1>2, DrainsKept DEF senderVars, history
  <1>13. AllLocated'
    BY <1>1, <1>2, LocatedKept DEF RowsKept, HandsKept, SameHands, history
  <1>14. QED
    BY <1>4, <1>5, <1>7, <1>8, <1>9, <1>10, <1>11, <1>12, <1>13 DEF IInv

LEMMA RunEndsKeeps ==
    ASSUME IInv, NEW i \in Objects, RunEnds(i)
    PROVE  IInv'
  <1>1. SqliteTypeOK /\ Drains /\ Rotation /\ Structure /\ db[i] \in DatabaseObject
    BY ObjectFields DEF IInv, SqliteTypeOK
  <1> DEFINE x == [db[i] EXCEPT !.pc = "end", !.closed = TRUE]
  <1>2. db[i].pc = "top" /\ (stopped \/ db[i].stop) /\ db' = [db EXCEPT ![i] = x]
    BY DEF RunEnds
  <1>3. x \in DatabaseObject /\ Follows(db[i], x) /\ SameHands(db[i], x) /\ (x.reads => db[i].reads)
    BY <1>1, <1>2 DEF DatabaseObject, Follows, SameHands
  <1>4. ObjectsKept /\ HandsKept /\ DOMAIN db' = Objects /\ db'[i] = x /\ \A j \in Objects : j # i => db'[j] = db[j]
    <2> HIDE DEF x
    <2>1. QED
      BY <1>1, <1>2, <1>3, OneFollows
  <1>5. UNCHANGED <<queue, disk, files, readDb, writeDb, isMax, stopped, senderVars, history>>
    BY DEF RunEnds
  <1>6. ASSUME sender = "got" PROVE stopped \/ Open(readDb)'
    <2>1. readDb \in Objects /\ (stopped \/ Open(readDb))
      BY <1>1, <1>6, LenProperties DEF Drains, Rotation, SqliteTypeOK, Objects
    <2>2. CASE readDb = i
      BY <1>2, <2>1, <2>2 DEF Open
    <2>3. CASE readDb # i
      BY <1>4, <1>5, <2>1, <2>3 DEF Open
    <2>4. QED
      BY <2>2, <2>3
  <1>7. \A j \in Objects : db'[j].reads => db[j].reads
    BY <1>3, <1>4
  <1>8. writeDb' = 0 => sender = "start" \/ \E j \in DOMAIN db' : db'[j].pc = "start"
    <2>1. \A j \in Objects : db[j].pc = "start" => db'[j].pc = "start"
      BY <1>2, <1>4
    <2>2. QED
      BY <1>1, <1>4, <1>5, <2>1 DEF Rotation
  <1>9. isMax' \in BOOLEAN /\ stopped' \in BOOLEAN /\ writeDb' \in 0 .. Len(db') /\ stopped' = stopped
    <2>1. Len(db') = Len(db)
      BY <1>1, <1>4, LenProperties DEF SqliteTypeOK, ObjectsKept, Objects
    <2>2. QED
      BY <1>1, <1>5, <2>1 DEF SqliteTypeOK
  <1> HIDE DEF x
  <1>10. QED
    BY <1>4, <1>5, <1>6, <1>7, <1>8, <1>9, QuietStep

LEMMA Numbers ==
    ASSUME SqliteTypeOK
    PROVE  /\ readDb # 0 => readDb \in Objects
           /\ writeDb # 0 => writeDb \in Objects
           /\ Len(db) \in Nat /\ Objects = 1 .. Len(db) /\ readDb \in Nat /\ writeDb \in Nat
  BY LenProperties DEF SqliteTypeOK, Objects

LEMMA AllFollow ==
    ASSUME SqliteTypeOK, db' \in Seq(DatabaseObject), Len(db') = Len(db), \A j \in Objects : Follows(db[j], db'[j])
    PROVE  ObjectsKept /\ DOMAIN db' = Objects
  <1>1. DOMAIN db' = Objects
    BY LenProperties DEF SqliteTypeOK, Objects
  <1>2. QED
    BY <1>1, LenProperties DEF ObjectsKept, SqliteTypeOK

LEMMA ProcessFileLimitKeeps ==
    ASSUME IInv, NEW i \in Objects, ProcessFileLimit(i)
    PROVE  IInv'
  <1>1. SqliteTypeOK /\ Drains /\ Rotation /\ Structure /\ db[i] \in DatabaseObject
    BY ObjectFields DEF IInv, SqliteTypeOK
  <1> DEFINE o == [db EXCEPT ![i].limit = TRUE]
  <1>2. PICK p \in {"cleanup", "top"} : db' = [o EXCEPT ![i].pc = p]
    <2>1. db' = [o EXCEPT ![i].pc =
                     IF /\ db[i].callback /\ db[i].writes /\ writeDb # 0
                        /\ o[writeDb].limit /\ Len(files) < MaxDbAmount
                     THEN "cleanup" ELSE "top"]
      BY DEF ProcessFileLimit
    <2> HIDE DEF o
    <2>2. QED
      BY <2>1
  <1> DEFINE x == [db[i] EXCEPT !.limit = TRUE, !.pc = p]
  <1>3. db[i].pc = "top" /\ db' = [db EXCEPT ![i] = x]
    BY <1>2 DEF ProcessFileLimit
  <1>4. x \in DatabaseObject /\ Follows(db[i], x) /\ SameHands(db[i], x) /\ (x.reads => db[i].reads)
        /\ x.stop = db[i].stop /\ x.closed = db[i].closed
    BY <1>1, <1>3 DEF DatabaseObject, Follows, SameHands
  <1>5. ObjectsKept /\ HandsKept /\ DOMAIN db' = Objects /\ db'[i] = x /\ \A j \in Objects : j # i => db'[j] = db[j]
    <2> HIDE DEF x
    <2>1. QED
      BY <1>1, <1>3, <1>4, OneFollows
  <1>6. UNCHANGED <<queue, disk, files, readDb, writeDb, isMax, stopped, senderVars, history>>
    BY DEF ProcessFileLimit
  <1> HIDE DEF x
  <1>7. ASSUME sender = "got" PROVE stopped \/ Open(readDb)'
    <2>1. readDb \in Objects /\ (stopped \/ Open(readDb))
      BY <1>1, <1>7, Numbers DEF Drains, Rotation
    <2>2. QED
      BY <1>4, <1>5, <1>6, <2>1 DEF Open
  <1>8. writeDb' = 0 => sender = "start" \/ \E j \in DOMAIN db' : db'[j].pc = "start"
    <2>1. \A j \in Objects : db[j].pc = "start" => db'[j].pc = "start"
      BY <1>3, <1>5
    <2>2. QED
      BY <1>1, <1>5, <1>6, <2>1 DEF Rotation
  <1>9. isMax' \in BOOLEAN /\ stopped' \in BOOLEAN /\ writeDb' \in 0 .. Len(db') /\ stopped' = stopped
    <2>1. Len(db') = Len(db)
      BY <1>1, <1>5, LenProperties DEF SqliteTypeOK, ObjectsKept, Objects
    <2>2. QED
      BY <1>1, <1>6, <2>1 DEF SqliteTypeOK
  <1>10. \A j \in Objects : db'[j].reads => db[j].reads
    BY <1>4, <1>5
  <1>11. QED
    BY <1>5, <1>6, <1>7, <1>8, <1>9, <1>10, QuietStep

(* __cleanup_write_db_after_thread_termination().                           *)
LEMMA CleanedUpDoes ==
    ASSUME SqliteTypeOK, NEW o \in Seq(DatabaseObject), Len(o) = Len(db), writeDb # 0,
           NEW p, p = CleanedUp(o)
    PROVE  /\ p \in Seq(DatabaseObject) /\ Len(p) = Len(db)
           /\ \A j \in Objects :
                /\ Follows(o[j], p[j]) /\ SameHands(o[j], p[j]) /\ p[j].reads = o[j].reads /\ p[j].pc = o[j].pc
                /\ j = readDb => p[j].stop = o[j].stop /\ p[j].closed = o[j].closed
  <1>1. writeDb \in Objects /\ Objects = DOMAIN o
    BY Numbers, LenProperties DEF SqliteTypeOK, Objects
  <1>2. \A j \in Objects : o[j] \in DatabaseObject
    BY <1>1, ElementOfSeq, LenProperties
  <1>3. PICK w \in Objects : w = writeDb
    BY <1>1
  <1>4. CASE readDb # writeDb
    <2> DEFINE x == Closed(o[w])
    <2>1. x \in DatabaseObject /\ Follows(o[w], x) /\ SameHands(o[w], x) /\ x.reads = o[w].reads /\ x.pc = o[w].pc
      BY <1>2 DEF Closed, DatabaseObject, Follows, SameHands
    <2>2. p = [o EXCEPT ![w] = x]
      BY <1>3, <1>4 DEF CleanedUp
    <2> HIDE DEF x
    <2>3. p \in Seq(DatabaseObject) /\ Len(p) = Len(o) /\ p[w] = x /\ \A j \in Objects : j # w => p[j] = o[j]
      BY <1>1, <2>1, <2>2, Updated
    <2>4. \A j \in Objects : j # w => Follows(o[j], p[j]) /\ SameHands(o[j], p[j])
      BY <2>3 DEF Follows, SameHands
    <2>5. QED
      BY <1>3, <1>4, <2>1, <2>3, <2>4
  <1>5. CASE readDb = writeDb
    <2> DEFINE x == [o[w] EXCEPT !.writes = FALSE]
    <2>1. x \in DatabaseObject /\ Follows(o[w], x) /\ SameHands(o[w], x) /\ x.reads = o[w].reads /\ x.pc = o[w].pc
          /\ x.stop = o[w].stop /\ x.closed = o[w].closed
      BY <1>2 DEF DatabaseObject, Follows, SameHands
    <2>2. p = [o EXCEPT ![w] = x]
      BY <1>3, <1>5 DEF CleanedUp
    <2> HIDE DEF x
    <2>3. p \in Seq(DatabaseObject) /\ Len(p) = Len(o) /\ p[w] = x /\ \A j \in Objects : j # w => p[j] = o[j]
      BY <1>1, <2>1, <2>2, Updated
    <2>4. \A j \in Objects : j # w => Follows(o[j], p[j]) /\ SameHands(o[j], p[j])
      BY <2>3 DEF Follows, SameHands
    <2>5. QED
      BY <1>3, <1>5, <2>1, <2>3, <2>4
  <1>6. QED
    BY <1>4, <1>5

LEMMA FollowsOn ==
    ASSUME NEW a, NEW b, NEW c, Follows(a, b), SameHands(a, b), Follows(b, c), SameHands(b, c)
    PROVE  Follows(a, c) /\ SameHands(a, c)
  BY DEF Follows, SameHands

LEMMA RotateCleanupKeeps ==
    ASSUME IInv, NEW i \in Objects, RotateCleanup(i)
    PROVE  IInv'
  <1>1. SqliteTypeOK /\ Drains /\ Rotation /\ db[i] \in DatabaseObject /\ db \in Seq(DatabaseObject)
    BY ObjectFields DEF IInv, SqliteTypeOK
  <1>2. PICK p \in {"top", "start"} : p = IF writeDb = 0 THEN "top" ELSE "start"
    OBVIOUS
  <1> DEFINE x == [db[i] EXCEPT !.pc = p]
             o == [db EXCEPT ![i] = x]
  <1>3. db[i].pc = "cleanup" /\ db' = (IF writeDb = 0 THEN o ELSE CleanedUp(o))
        /\ writeDb' = (IF readDb = writeDb THEN writeDb ELSE 0)
    BY <1>2 DEF RotateCleanup
  <1>4. x \in DatabaseObject /\ Follows(db[i], x) /\ SameHands(db[i], x) /\ x.reads = db[i].reads /\ x.pc = p
        /\ x.stop = db[i].stop /\ x.closed = db[i].closed
    BY <1>1, <1>3 DEF DatabaseObject, Follows, SameHands
  <1>5. UNCHANGED <<queue, disk, files, readDb, isMax, stopped, senderVars, history>>
    BY DEF RotateCleanup
  <1> HIDE DEF x
  <1>6. o \in Seq(DatabaseObject) /\ Len(o) = Len(db) /\ o[i] = x /\ \A j \in Objects : j # i => o[j] = db[j]
    BY <1>1, <1>4, Updated DEF Objects
  <1> HIDE DEF o
  <1>7. \A j \in Objects : /\ Follows(db[j], o[j]) /\ SameHands(db[j], o[j]) /\ o[j].reads = db[j].reads
                           /\ o[j].stop = db[j].stop /\ o[j].closed = db[j].closed
    <2>1. \A j \in Objects : j # i => Follows(db[j], o[j]) /\ SameHands(db[j], o[j])
      BY <1>6 DEF Follows, SameHands
    <2>2. QED
      BY <1>4, <1>6, <2>1
  <1>8. /\ db' \in Seq(DatabaseObject) /\ Len(db') = Len(db)
        /\ \A j \in Objects :
             /\ Follows(o[j], db'[j]) /\ SameHands(o[j], db'[j]) /\ db'[j].reads = o[j].reads /\ db'[j].pc = o[j].pc
             /\ j = readDb => db'[j].stop = o[j].stop /\ db'[j].closed = o[j].closed
    <2>1. CASE writeDb = 0
      <3>1. \A j \in Objects : Follows(o[j], o[j]) /\ SameHands(o[j], o[j])
        BY DEF Follows, SameHands
      <3>2. QED
        BY <1>3, <1>6, <2>1, <3>1
    <2>2. CASE writeDb # 0
      BY <1>1, <1>3, <1>6, <2>2, CleanedUpDoes
    <2>3. QED
      BY <2>1, <2>2
  <1>9. \A j \in Objects : Follows(db[j], db'[j]) /\ SameHands(db[j], db'[j])
    BY <1>7, <1>8, FollowsOn
  <1>10. ObjectsKept /\ HandsKept /\ DOMAIN db' = Objects
    BY <1>1, <1>8, <1>9, AllFollow DEF HandsKept
  <1>11. ASSUME sender = "got" PROVE stopped \/ Open(readDb)'
    <2>1. readDb \in Objects /\ (stopped \/ Open(readDb))
      BY <1>1, <1>11, Numbers DEF Drains, Rotation
    <2>2. QED
      BY <1>5, <1>7, <1>8, <2>1 DEF Open
  <1>12. writeDb' = 0 => sender = "start" \/ \E j \in DOMAIN db' : db'[j].pc = "start"
    <2>1. CASE writeDb = 0
      <3>1. \A j \in Objects : db[j].pc = "start" => db'[j].pc = "start"
        BY <1>3, <1>6, <1>8
      <3>2. QED
        BY <1>1, <1>10, <2>1, <3>1 DEF Rotation
    <2>2. CASE writeDb # 0
      BY <1>2, <1>4, <1>6, <1>8, <1>10, <2>2
    <2>3. QED
      BY <2>1, <2>2
  <1>13. isMax' \in BOOLEAN /\ stopped' \in BOOLEAN /\ writeDb' \in 0 .. Len(db') /\ stopped' = stopped
    BY <1>1, <1>3, <1>5, <1>8, LenProperties DEF SqliteTypeOK
  <1>14. \A j \in Objects : db'[j].reads => db[j].reads
    BY <1>7, <1>8
  <1>15. QED
    BY <1>5, <1>10, <1>11, <1>12, <1>13, <1>14, QuietStep

LEMMA StopKeeps ==
    ASSUME IInv, Stop
    PROVE  IInv'
  <1>1. SqliteTypeOK /\ Drains /\ Rotation /\ db \in Seq(DatabaseObject) /\ \A j \in Objects : db[j] \in DatabaseObject
    BY ObjectFields DEF IInv, SqliteTypeOK
  <1> DEFINE x(j) == [db[j] EXCEPT !.stop = @ \/ j = readDb \/ (j = writeDb /\ readDb # 0)]
  <1>2. db' = [j \in 1 .. Len(db) |-> x(j)]
    BY <1>1, Numbers DEF Stop, Objects
  <1>3. \A j \in Objects : x(j) \in DatabaseObject /\ Follows(db[j], x(j)) /\ SameHands(db[j], x(j))
                           /\ (x(j).reads => db[j].reads) /\ x(j).pc = db[j].pc /\ (j = readDb => x(j).stop)
    <2> TAKE j \in Objects
    <2>1. PICK s \in BOOLEAN : s = (db[j].stop \/ j = readDb \/ (j = writeDb /\ readDb # 0))
      <3>1. db[j].stop \in BOOLEAN
        BY <1>1 DEF DatabaseObject
      <3>2. QED
        BY <3>1, Zenon
    <2>2. x(j) = [db[j] EXCEPT !.stop = s]
      BY <2>1, Zenon
    <2>3. db[j] \in DatabaseObject /\ (j = readDb => s)
      BY <1>1, <2>1
    <2> HIDE DEF x
    <2>4. db[j].stop => s
      BY <2>1
    <2>5. x(j) \in DatabaseObject /\ x(j).stop = s /\ x(j).pc = db[j].pc
      BY <2>2, <2>3 DEF DatabaseObject
    <2>6. Follows(db[j], x(j)) /\ x(j).reads = db[j].reads
      BY <2>2, <2>3, <2>4 DEF DatabaseObject, Follows
    <2>7. SameHands(db[j], x(j))
      BY <2>2, <2>3 DEF DatabaseObject, SameHands
    <2>8. QED
      BY <2>3, <2>5, <2>6, <2>7
  <1>4. ~stopped /\ stopped' = TRUE /\ UNCHANGED <<queue, disk, files, readDb, writeDb, isMax, senderVars, history>>
    BY DEF Stop
  <1> HIDE DEF x
  <1>5. db' \in Seq(DatabaseObject) /\ Len(db') = Len(db) /\ \A j \in Objects : db'[j] = x(j)
    <2>1. Len(db) \in Nat /\ Objects = 1 .. Len(db) /\ \A j \in 1 .. Len(db) : x(j) \in DatabaseObject
      BY <1>1, <1>3, Numbers
    <2>2. QED
      BY <1>2, <2>1
  <1>6. ObjectsKept /\ HandsKept /\ DOMAIN db' = Objects
    BY <1>1, <1>3, <1>5, AllFollow DEF HandsKept
  <1>7. readDb # 0 => db'[readDb].stop
    BY <1>1, <1>3, <1>5, Numbers
  <1>8. writeDb' = 0 => sender = "start" \/ \E j \in DOMAIN db' : db'[j].pc = "start"
    BY <1>1, <1>3, <1>4, <1>5, <1>6 DEF Rotation
  <1>9. isMax' \in BOOLEAN /\ stopped' \in BOOLEAN /\ writeDb' \in 0 .. Len(db')
    BY <1>1, <1>4, <1>5 DEF SqliteTypeOK
  <1>10. \A j \in Objects : db'[j].reads => db[j].reads
    BY <1>3, <1>5
  <1>11. QED
    BY <1>4, <1>6, <1>7, <1>8, <1>9, <1>10, QuietStep

LEMMA PutReachesMaximumKeeps ==
    ASSUME IInv, PutReachesMaximum \/ UNCHANGED vars
    PROVE  IInv'
  <1>1. SqliteTypeOK /\ Drains /\ Rotation
    BY DEF IInv
  <1>2. UNCHANGED <<queue, db, disk, files, readDb, writeDb, stopped, senderVars, history>> /\ isMax' \in {isMax, TRUE}
    BY DEF PutReachesMaximum, vars, storeVars
  <1>3. ObjectsKept /\ HandsKept /\ DOMAIN db' = Objects
    BY <1>1, <1>2, NothingMoves
  <1>4. isMax' \in BOOLEAN /\ stopped' \in BOOLEAN /\ writeDb' \in 0 .. Len(db')
    BY <1>1, <1>2 DEF SqliteTypeOK
  <1>5. sender = "got" => stopped' \/ Open(readDb)'
    BY <1>1, <1>2 DEF Drains, Open
  <1>6. writeDb' = 0 => sender = "start" \/ \E j \in DOMAIN db' : db'[j].pc = "start"
    BY <1>1, <1>2 DEF Rotation, Objects
  <1>7. (\A j \in Objects : db'[j].reads => db[j].reads) /\ (stopped => stopped')
        /\ (stopped' /\ readDb # 0 => stopped \/ db'[readDb].stop)
    BY <1>2
  <1>8. UNCHANGED <<queue, disk, files, readDb, senderVars, history>>
    BY <1>2
  <1>9. QED
    BY <1>3, <1>4, <1>5, <1>6, <1>7, <1>8, QuietStep

LEMMA PutKeeps ==
    ASSUME IInv, Put
    PROVE  IInv'
  <1>1. SqliteTypeOK /\ Structure /\ Rotation /\ OneReader /\ OnePlace /\ Fetches /\ Packs /\ Drains /\ AllLocated
    BY DEF IInv
  <1>2. /\ accepted < MaxMessages /\ queue' = Append(queue, accepted + 1) /\ accepted' = accepted + 1
        /\ UNCHANGED <<db, disk, files, readDb, writeDb, isMax, stopped, sender, pack, deletePoint,
                       crashes, done, reread, inFlight, drained, lost>>
    BY DEF Put, senderVars
  <1>3. queue \in Seq(Messages) /\ Len(queue) \in Nat /\ accepted \in Nat /\ accepted + 1 \in Messages
    BY <1>1, <1>2, LenProperties DEF SqliteTypeOK, Messages
  <1>4. /\ queue' \in Seq(Messages) /\ Len(queue') = Len(queue) + 1 /\ DOMAIN queue' = 1 .. Len(queue) + 1
        /\ DOMAIN queue = 1 .. Len(queue)
        /\ queue'[Len(queue) + 1] = accepted + 1 /\ \A k \in DOMAIN queue : queue'[k] = queue[k]
    BY <1>2, <1>3, Appended
  <1>5. ObjectsKept /\ HandsKept /\ DOMAIN db' = Objects /\ FilesKept /\ DOMAIN disk' = DOMAIN disk
    BY <1>1, <1>2, NothingMoves DEF Structure
  <1>6. SqliteTypeOK'
    BY <1>1, <1>2, <1>3, <1>4 DEF SqliteTypeOK
  <1>7. Structure' /\ Rotation' /\ OneReader' /\ Packs' /\ Drains' /\ Fetches'
    BY <1>1, <1>2 DEF Structure, Rotation, OneReader, Packs, Drains, Fetches, FromFile, Rows, Gone, There, FileOf, Open, Objects
  <1>8. OnePlace'
    <2>1. BatchesKept /\ RowsKept
      BY <1>2, <1>5 DEF HandsKept, SameHands, BatchesKept, RowsKept, Rows
    <2>2. Len(queue') <= accepted' /\ Len(queue') \in Nat /\ accepted' \in Nat /\ Left <= accepted' - Len(queue')
      BY <1>1, <1>2, <1>3, <1>4 DEF OnePlace, Left
    <2>3. \A k \in DOMAIN queue' : queue'[k] = accepted' - Len(queue') + k
      <3>1. TAKE k \in DOMAIN queue'
      <3>2. CASE k \in DOMAIN queue
        <4>1. queue'[k] = accepted - Len(queue) + k /\ k \in Nat
          BY <1>1, <1>4, <3>2 DEF OnePlace, Left
        <4>2. QED
          BY <1>2, <1>3, <1>4, <4>1
      <3>3. CASE k = Len(queue) + 1
        BY <1>2, <1>3, <1>4, <3>3
      <3>4. QED
        BY <1>3, <1>4, <3>2, <3>3
    <2>4. done' \ done = {}
      BY <1>2
    <2>5. QED
      BY <1>1, <1>5, <2>1, <2>2, <2>3, <2>4, OnePlaceKept
  <1>9. AllLocated'
    <2>1. ASSUME NEW m \in 1 .. accepted' PROVE Located(m)'
      <3>1. CASE m \in 1 .. accepted
        <4>1. Located(m)
          BY <1>1, <3>1 DEF AllLocated
        <4>2. Elements(queue) \subseteq Elements(queue')
          BY <1>3, <1>4 DEF Elements
        <4>3. QED
          BY <1>2, <4>1, <4>2 DEF Located, Objects, Rows, Gone, There
      <3>2. CASE m = accepted + 1
        <4>1. m \in Elements(queue')
          BY <1>3, <1>4, <3>2 DEF Elements
        <4>2. QED
          BY <4>1 DEF Located
      <3>3. QED
        BY <1>2, <1>3, <3>1, <3>2
    <2>2. QED
      BY <2>1 DEF AllLocated
  <1>10. QED
    BY <1>6, <1>7, <1>8, <1>9 DEF IInv

(* A step of the sending thread that leaves the messages where they are.    *)
LEMMA MessagesStay ==
    ASSUME IInv, ObjectsKept, HandsKept, DOMAIN db' = Objects, \A i \in Objects : db'[i].reads => db[i].reads,
           UNCHANGED <<queue, disk, files, readDb, accepted, done, inFlight>>, lost \subseteq lost',
           sender # "deleted"
    PROVE  /\ Structure' /\ OneReader' /\ OnePlace' /\ Fetches' /\ AllLocated' /\ FilesKept
           /\ readDb # 0 => /\ readDb \in Objects /\ FileOf(readDb) \in DOMAIN disk /\ FileOf(readDb)' = FileOf(readDb)
                            /\ There(FileOf(readDb))' = There(FileOf(readDb)) /\ Rows(FileOf(readDb))' = Rows(FileOf(readDb))
                            /\ Gone(FileOf(readDb))' = Gone(FileOf(readDb)) /\ (Open(readDb)' => Open(readDb))
  <1>1. SqliteTypeOK /\ Structure /\ OneReader /\ OnePlace /\ Fetches /\ AllLocated
    BY DEF IInv
  <1>2. /\ FilesKept /\ DOMAIN disk' = DOMAIN disk
        /\ \A f \in DOMAIN disk : disk'[f].gone = Gone(f) /\ disk'[f].rows = Rows(f) /\ (There(f)' <=> There(f))
                                  /\ (disk'[f].there <=> There(f))
    BY <1>1, NothingMoves DEF Structure, Gone, Rows, There
  <1>3. Structure'
    BY <1>1, <1>2, StructureKept
  <1>4. \A i \in Objects : FileOf(i)' = FileOf(i) /\ FileOf(i) \in DOMAIN disk /\ (Open(i)' => Open(i))
    BY <1>1, <1>2, Later DEF Structure
  <1>5. OneReader'
    BY <1>1, <1>2, <1>4, OneReaderKept DEF HandsKept, SameHands, ReadsKept, There
  <1>6. OnePlace'
    <2>1. BatchesKept
      BY DEF HandsKept, SameHands, BatchesKept
    <2>2. Left \in Int /\ Len(queue) \in Nat /\ accepted \in Nat
      BY <1>1, LenProperties DEF Left, SqliteTypeOK
    <2>3. /\ Len(queue') <= accepted' /\ \A k \in DOMAIN queue' : queue'[k] = accepted' - Len(queue') + k
          /\ Len(queue') \in Nat /\ accepted' \in Nat /\ Left <= accepted' - Len(queue') /\ done' \ done = {}
      BY <1>1, <2>2 DEF OnePlace, Left
    <2>4. QED
      BY <1>1, <1>2, <2>1, <2>3, OnePlaceKept DEF RowsKept
  <1>7. Fetches'
    BY <1>1, <1>2, FetchesKept DEF HandsKept, SameHands, ReadsKept
  <1>8. AllLocated'
    BY <1>1, <1>2, LocatedKept DEF RowsKept, HandsKept, SameHands
  <1>9. readDb # 0 => /\ readDb \in Objects /\ FileOf(readDb) \in DOMAIN disk /\ FileOf(readDb)' = FileOf(readDb)
                      /\ There(FileOf(readDb))' = There(FileOf(readDb)) /\ Rows(FileOf(readDb))' = Rows(FileOf(readDb))
                      /\ Gone(FileOf(readDb))' = Gone(FileOf(readDb)) /\ (Open(readDb)' => Open(readDb))
    BY <1>1, <1>4, Numbers DEF There, Rows, Gone
  <1>10. QED
    BY <1>2, <1>3, <1>5, <1>6, <1>7, <1>8, <1>9

(* The rows of a file, what a query answers, and read_data().               *)
LEMMA RowIdsAre ==
    ASSUME SqliteTypeOK, Structure, NEW f \in DOMAIN disk
    PROVE  /\ RowIds(f) \in Seq(Nat) /\ Len(RowIds(f)) = Len(Rows(f)) - Gone(f) /\ Len(RowIds(f)) \in Nat
           /\ DOMAIN RowIds(f) = 1 .. Len(RowIds(f)) /\ \A k \in DOMAIN RowIds(f) : RowIds(f)[k] = Gone(f) + k
           /\ Elements(RowIds(f)) = Gone(f) + 1 .. Len(Rows(f))
  <1>1. Gone(f) \in Nat /\ Len(Rows(f)) \in Nat /\ Gone(f) <= Len(Rows(f))
    BY FileFields DEF SqliteTypeOK, Structure
  <1>2. PICK n \in Nat, g \in Nat : n = Len(Rows(f)) - Gone(f) /\ g = Gone(f)
    BY <1>1
  <1>3. RowIds(f) = [k \in 1 .. n |-> g + k]
    BY <1>2 DEF RowIds, Rows, Gone
  <1>4. RowIds(f) \in Seq(Nat) /\ Len(RowIds(f)) = n /\ DOMAIN RowIds(f) = 1 .. n
        /\ \A k \in 1 .. n : RowIds(f)[k] = g + k
    BY <1>3
  <1>5. Elements(RowIds(f)) = {g + k : k \in 1 .. n}
    BY <1>4 DEF Elements
  <1>6. {g + k : k \in 1 .. n} = g + 1 .. g + n
    <2>1. \A y \in g + 1 .. g + n : y - g \in 1 .. n /\ y = g + (y - g)
      OBVIOUS
    <2>2. \A k \in 1 .. n : g + k \in g + 1 .. g + n
      OBVIOUS
    <2>3. QED
      BY <2>1, <2>2
  <1>7. g + n = Len(Rows(f)) /\ g + 1 = Gone(f) + 1 /\ Len(RowIds(f)) = n
    BY <1>1, <1>2, <1>4
  <1>8. Elements(RowIds(f)) = Gone(f) + 1 .. Len(Rows(f))
    BY <1>5, <1>6, <1>7
  <1>9. DOMAIN RowIds(f) = 1 .. Len(RowIds(f)) /\ \A k \in DOMAIN RowIds(f) : RowIds(f)[k] = Gone(f) + k
    BY <1>2, <1>4
  <1>10. QED
    BY <1>2, <1>4, <1>8, <1>9

LEMMA ReadDataIs ==
    ASSUME SqliteTypeOK, Structure, Fetches, NEW i \in Objects
    PROVE  /\ ReadData(i) \in Seq(Nat) /\ Answer(ReadData(i), Gone(FileOf(i)), Len(Rows(FileOf(i))))
           /\ ReadData(i) # <<>> => Open(i) /\ ~stopped
           /\ ReadData(i) # <<>> => ReadData(i) = db[i].next \/ \A k \in Elements(ReadData(i)) : k > Gone(FileOf(i))
  <1>1. FileOf(i) \in DOMAIN disk /\ db[i].next \in Seq(Nat)
    BY ObjectFields DEF Structure, SqliteTypeOK
  <1>2. PICK f \in DOMAIN disk : f = FileOf(i)
    BY <1>1
  <1>3. Gone(f) \in Nat /\ Len(Rows(f)) \in Nat /\ Gone(f) <= Len(Rows(f))
    BY FileFields DEF SqliteTypeOK, Structure
  <1> DEFINE n == Lower(MaxReadRecords, Len(RowIds(f)))
  <1>4. n \in Nat /\ n <= Len(RowIds(f))
    BY RowIdsAre DEF Lower
  <1>5. Select(f) = SubSeq(RowIds(f), 1, n)
    BY DEF Select
  <1> HIDE DEF n
  <1>6. Select(f) \in Seq(Nat) /\ Len(Select(f)) = n /\ \A k \in 1 .. n : Select(f)[k] = Gone(f) + k
    <2>0. RowIds(f) \in Seq(Nat) /\ Len(RowIds(f)) \in Nat /\ DOMAIN RowIds(f) = 1 .. Len(RowIds(f))
          /\ \A k \in DOMAIN RowIds(f) : RowIds(f)[k] = Gone(f) + k
      BY RowIdsAre
    <2>1. \A k \in 1 .. n : RowIds(f)[k] \in Nat /\ RowIds(f)[k] = Gone(f) + k
      <3>1. \A k \in 1 .. n : k \in DOMAIN RowIds(f) /\ k \in Nat
        BY <1>4, <2>0
      <3>2. QED
        BY <1>3, <2>0, <3>1
    <2>2. QED
      BY <1>4, <1>5, <2>0, <2>1, SubSeqProperties
  <1>7. DOMAIN Select(f) = 1 .. n
    BY <1>6, LenProperties
  <1>8. Answer(Select(f), Gone(f), Len(Rows(f)))
    <2>1. Gone(f) \in 0 .. Gone(f) /\ Gone(f) + Len(Select(f)) <= Len(Rows(f))
      BY <1>3, <1>4, <1>6, RowIdsAre
    <2>2. QED
      BY <1>6, <1>7, <2>1 DEF Answer
  <1>9. \A k \in Elements(Select(f)) : k > Gone(f)
    BY <1>3, <1>4, <1>6, <1>7 DEF Elements
  <1>10. <<>> \in Seq(Nat) /\ Answer(<<>>, Gone(f), Len(Rows(f)))
    <2>1. 0 \in 0 .. Gone(f) /\ 0 + Len(<<>>) <= Len(Rows(f)) /\ DOMAIN <<>> = {}
      BY <1>3
    <2>2. QED
      BY <2>1 DEF Answer
  <1>11. Answer(db[i].next, Gone(f), Len(Rows(f)))
    BY <1>2 DEF Fetches, FromFile
  <1>12. CASE ~Open(i) \/ stopped
    <2>1. ReadData(i) = <<>>
      BY <1>12 DEF ReadData, Open
    <2>2. QED
      BY <1>2, <1>10, <2>1
  <1>13. CASE Open(i) /\ ~stopped /\ db[i].next # <<>>
    <2>1. ReadData(i) = db[i].next
      BY <1>13 DEF ReadData, Open
    <2>2. QED
      BY <1>1, <1>2, <1>11, <1>13, <2>1
  <1>14. CASE Open(i) /\ ~stopped /\ db[i].next = <<>>
    <2>1. ReadData(i) = Select(f)
      BY <1>2, <1>14 DEF ReadData, Open, FileOf
    <2>2. QED
      BY <1>2, <1>6, <1>8, <1>9, <1>14, <2>1
  <1>15. QED
    BY <1>12, <1>13, <1>14

LEMMA GetEventPackKeeps ==
    ASSUME IInv, GetEventPack
    PROVE  IInv'
  <1>1. SqliteTypeOK /\ Structure /\ Rotation /\ OneReader /\ OnePlace /\ Fetches /\ Packs /\ Drains /\ AllLocated
    BY DEF IInv
  <1> DEFINE ids == ReadData(readDb)
             last == ids[Len(ids)]
  <1>2. /\ sender = "idle" /\ ~stopped /\ readDb # 0 /\ ids # <<>>
        /\ pack' = [k \in DOMAIN ids |-> disk[db[readDb].file].rows[ids[k]]]
        /\ deletePoint' = IF deletePoint < last THEN last ELSE deletePoint
        /\ sender' = "got" /\ reread' = reread \cup (Elements(pack') \cap done)
        /\ UNCHANGED <<queue, db, disk, files, readDb, writeDb, isMax, stopped, crashes, accepted, done, inFlight, drained, lost>>
    BY DEF GetEventPack, storeVars
  <1>3. ObjectsKept /\ HandsKept /\ DOMAIN db' = Objects
    BY <1>1, <1>2, NothingMoves
  <1>4. readDb \in Objects /\ FileOf(readDb) \in DOMAIN disk
    BY <1>1, <1>2, Numbers DEF Structure
  <1>5. PICK f \in DOMAIN disk : f = FileOf(readDb)
    BY <1>4
  <1>6. /\ Gone(f) \in Nat /\ Len(Rows(f)) \in Nat /\ Gone(f) <= Len(Rows(f)) /\ Rows(f) \in Seq(Messages)
        /\ DOMAIN Rows(f) = 1 .. Len(Rows(f)) /\ deletePoint \in Nat
    BY <1>1, FileFields DEF SqliteTypeOK, Structure
  <1>7. /\ ids \in Seq(Nat) /\ Answer(ids, Gone(f), Len(Rows(f))) /\ Open(readDb)
        /\ ids = db[readDb].next \/ \A k \in Elements(ids) : k > Gone(f)
    BY <1>1, <1>2, <1>4, <1>5, ReadDataIs
  <1> HIDE DEF ids, last
  <1>8. PICK g \in 0 .. Gone(f) : g + Len(ids) <= Len(Rows(f)) /\ \A k \in DOMAIN ids : ids[k] = g + k
    BY <1>7 DEF Answer
  <1>9. Len(ids) \in Nat \ {0} /\ DOMAIN ids = 1 .. Len(ids)
    BY <1>2, <1>7, EmptySeq, LenProperties
  <1>10. PICK n \in Nat \ {0} : n = Len(ids)
    BY <1>9
  <1>11. g + n <= Len(Rows(f)) /\ last = g + n /\ \A k \in 1 .. n : ids[k] = g + k
    BY <1>8, <1>9, <1>10 DEF last
  <1>12. pack' = [k \in 1 .. n |-> Rows(f)[g + k]]
    BY <1>2, <1>5, <1>9, <1>10, <1>11 DEF Rows, FileOf
  <1>13. \A k \in 1 .. n : g + k \in DOMAIN Rows(f) /\ Rows(f)[g + k] \in Messages
    <2>1. \A k \in 1 .. n : g + k \in 1 .. Len(Rows(f))
      BY <1>6, <1>8, <1>11
    <2>2. QED
      BY <1>1, <1>6, <2>1, MessagesInHands
  <1>14. pack' \in Seq(Messages) /\ Elements(pack') = {Rows(f)[g + k] : k \in 1 .. n}
    <2>1. DOMAIN pack' = 1 .. n /\ \A k \in 1 .. n : pack'[k] = Rows(f)[g + k]
      BY <1>12
    <2>2. pack' \in [1 .. n -> Messages]
      BY <1>12, <1>13
    <2>3. pack' \in Seq(Messages)
      BY <1>10, <2>2
    <2>4. QED
      BY <2>1, <2>3 DEF Elements
  <1>15. Rows(f)' = Rows(f) /\ Gone(f)' = Gone(f) /\ FileOf(readDb)' = FileOf(readDb) /\ readDb' = readDb
    BY <1>2 DEF Rows, Gone, FileOf
  <1>16. deletePoint' \in Nat /\ deletePoint' <= Len(Rows(f)) /\ g + n <= deletePoint'
         /\ (deletePoint' > Gone(f) => deletePoint' = g + n)
    <2>1. deletePoint <= Gone(f)
      BY <1>2, <1>5, <1>7, <1>1 DEF Packs
    <2>2. QED
      BY <1>2, <1>6, <1>8, <1>10, <1>11, <2>1
  <1>17. \A k \in Gone(f) + 1 .. deletePoint' : Rows(f)[k] \in Elements(pack')
    <2>1. TAKE k \in Gone(f) + 1 .. deletePoint'
    <2>2. k - g \in 1 .. n /\ g + (k - g) = k
      BY <1>6, <1>8, <1>16
    <2>3. QED
      BY <1>14, <2>2
  <1>18. \A m \in Elements(pack') : \E k \in 1 .. deletePoint' : Rows(f)[k] = m
    <2>1. \A k \in 1 .. n : g + k \in 1 .. deletePoint'
      BY <1>8, <1>16
    <2>2. QED
      BY <1>14, <2>1
  <1>19. reread' \subseteq inFlight
    <2>1. SUFFICES ASSUME NEW m \in Elements(pack'), m \in done PROVE m \in inFlight
      BY <1>1, <1>2 DEF Packs
    <2>2. PICK k \in 1 .. n : m = Rows(f)[g + k]
      BY <1>14
    <2>3. PICK h \in DOMAIN disk : \E l \in DOMAIN Rows(h) : l <= Gone(h) /\ Rows(h)[l] = m
      BY <1>1, <2>1 DEF OnePlace
    <2>4. PICK l \in DOMAIN Rows(h) : l <= Gone(h) /\ Rows(h)[l] = m
      BY <2>3
    <2>5. h = f /\ l = g + k
      BY <1>1, <1>13, <2>2, <2>4 DEF OnePlace
    <2>6. g + k \in Elements(ids) /\ g + k <= Gone(f)
      BY <1>9, <1>10, <1>11, <2>4, <2>5 DEF Elements
    <2>7. ids = db[readDb].next
      BY <1>6, <1>7, <1>8, <2>6
    <2>8. \A x \in Elements(db[readDb].next) : x <= Gone(f) => Rows(f)[x] \in inFlight
      <3>1. Open(readDb) /\ ~(sender = "deleted" /\ readDb = readDb)
        BY <1>2, <1>7
      <3>2. QED
        BY <1>1, <1>4, <1>5, <3>1 DEF Fetches
    <2>9. \E x \in Elements(ids) : x <= Gone(f) /\ m = Rows(f)[x]
      BY <2>2, <2>6
    <2>10. \E x \in Elements(db[readDb].next) : x <= Gone(f) /\ m = Rows(f)[x]
      BY <2>7, <2>9, Zenon
    <2>11. QED
      BY <2>8, <2>10, Zenon
  <1>20. Packs'
    <2>1. FileOf(readDb)' = f /\ sender' = "got" /\ Rows(f)' = Rows(f) /\ Gone(f)' = Gone(f)
      BY <1>2, <1>5, <1>15
    <2>2. reread' \subseteq inFlight'
      BY <1>2, <1>19
    <2>3. /\ deletePoint' <= Len(Rows(FileOf(readDb))')
          /\ \A k \in Gone(FileOf(readDb))' + 1 .. deletePoint' : Rows(FileOf(readDb))'[k] \in Elements(pack')
          /\ \A m \in Elements(pack') : \E k \in 1 .. deletePoint' : Rows(FileOf(readDb))'[k] = m
      <3>1. Rows(FileOf(readDb))' = Rows(f) /\ Gone(FileOf(readDb))' = Gone(f)
        BY <1>5, <1>15, <2>1 DEF Rows, Gone
      <3>2. QED
        BY <1>16, <1>17, <1>18, <3>1
    <2>4. QED
      BY <2>1, <2>2, <2>3, Zenon DEF Packs
  <1>21. SqliteTypeOK'
    BY <1>1, <1>2, <1>14, <1>16 DEF SqliteTypeOK
  <1>22. Rotation'
    BY <1>1, <1>2 DEF Rotation, Objects
  <1>23. Structure' /\ OneReader' /\ OnePlace' /\ Fetches' /\ AllLocated'
    BY <1>2, <1>3, MessagesStay
  <1>24. Drains'
    BY <1>1, <1>2, <1>7 DEF Drains, Objects, Open
  <1>25. QED
    BY <1>20, <1>21, <1>22, <1>23, <1>24 DEF IInv

LEMMA LeaveDrainedFileKeeps ==
    ASSUME IInv, LeaveDrainedFile
    PROVE  IInv'
  <1>1. SqliteTypeOK /\ Structure /\ Rotation /\ Packs /\ Drains
    BY DEF IInv
  <1>2. /\ sender = "idle" /\ ~stopped /\ readDb # 0
        /\ ~disk[db[readDb].file].there \/ ~HasRecords(readDb)
        /\ sender' = "finalize" /\ drained' = Len(disk[db[readDb].file].rows)
        /\ UNCHANGED <<queue, db, disk, files, readDb, writeDb, isMax, stopped, pack, deletePoint,
                       crashes, accepted, done, reread, inFlight, lost>>
    BY DEF LeaveDrainedFile, storeVars
  <1>3. ObjectsKept /\ HandsKept /\ DOMAIN db' = Objects
    BY <1>1, <1>2, NothingMoves
  <1>4. PICK f \in DOMAIN disk : f = FileOf(readDb) /\ readDb \in Objects
    BY <1>1, <1>2, Numbers DEF Structure
  <1>5. Gone(f) \in Nat /\ Len(Rows(f)) \in Nat
    BY <1>1, FileFields DEF SqliteTypeOK
  <1>6. ASSUME There(f), ~db[readDb].stop PROVE drained' <= Gone(f)
    <2>1. ~db[readDb].closed
      BY <1>1, <1>2, <1>4, <1>6 DEF Drains
    <2>2. RowIds(f) = <<>>
      BY <1>2, <1>4, <1>6, <2>1 DEF HasRecords, There, FileOf
    <2>3. Len(Rows(f)) - Gone(f) = 0
      BY <1>1, <2>2, RowIdsAre
    <2>4. QED
      BY <1>2, <1>4, <1>5, <2>3 DEF Rows, FileOf
  <1>7. SqliteTypeOK'
    BY <1>1, <1>2, <1>4, <1>5 DEF SqliteTypeOK, Rows, FileOf
  <1>8. Rotation'
    BY <1>1, <1>2 DEF Rotation, Objects
  <1>9. Structure' /\ OneReader' /\ OnePlace' /\ Fetches' /\ AllLocated' /\ FilesKept
    BY <1>2, <1>3, MessagesStay
  <1>10. Packs'
    BY <1>1, <1>2, <1>3, <1>9, PacksKept DEF Gone
  <1>11. Drains'
    BY <1>1, <1>2, <1>4, <1>6 DEF Drains, Objects, There, FileOf, Gone
  <1>12. QED
    BY <1>7, <1>8, <1>9, <1>10, <1>11 DEF IInv

LEMMA CheckDrainedFileKeeps ==
    ASSUME IInv, CheckDrainedFile
    PROVE  IInv'
  <1>1. SqliteTypeOK /\ Structure /\ Rotation /\ Packs /\ Drains
    BY DEF IInv
  <1>2. readDb \in Objects /\ sender = "prepared"
    BY <1>1, Numbers DEF CheckDrainedFile, Rotation
  <1>3. PICK r \in Objects : r = readDb
    BY <1>2
  <1> DEFINE x == [db[r] EXCEPT !.limit = @ \/ FileIsFull(r)]
  <1>4. /\ sender' \in {"idle", "cleanup", "finalize"}
        /\ sender' # "idle" => ~HasRecords(r)
        /\ drained' = Len(disk[db[r].file].rows)
        /\ UNCHANGED <<queue, disk, files, readDb, writeDb, isMax, stopped, pack, deletePoint,
                       crashes, accepted, done, reread, inFlight, lost>>
    BY <1>3 DEF CheckDrainedFile
  <1>5. db' = db \/ db' = [db EXCEPT ![r] = x]
    BY <1>3 DEF CheckDrainedFile
  <1>6. FileIsFull(r) \in BOOLEAN /\ db[r] \in DatabaseObject
    BY <1>1, ObjectFields DEF FileIsFull, SqliteTypeOK
  <1>7. x \in DatabaseObject /\ Follows(db[r], x) /\ SameHands(db[r], x) /\ x.reads = db[r].reads /\ x.pc = db[r].pc
        /\ x.stop = db[r].stop /\ x.closed = db[r].closed
    BY <1>6 DEF DatabaseObject, Follows, SameHands
  <1> HIDE DEF x
  <1>8. /\ ObjectsKept /\ HandsKept /\ DOMAIN db' = Objects
        /\ \A j \in Objects : db'[j].reads = db[j].reads /\ db'[j].pc = db[j].pc /\ db'[j].stop = db[j].stop
    <2>1. CASE db' = db
      BY <1>1, <2>1, NothingMoves
    <2>2. CASE db' = [db EXCEPT ![r] = x]
      BY <1>1, <1>7, <2>2, OneFollows
    <2>3. QED
      BY <1>5, <2>1, <2>2
  <1>9. Structure' /\ OneReader' /\ OnePlace' /\ Fetches' /\ AllLocated' /\ FilesKept
    BY <1>2, <1>4, <1>8, MessagesStay
  <1>10. PICK f \in DOMAIN disk : f = FileOf(r) /\ FileOf(r)' = f
    BY <1>1, <1>8, <1>9, Later DEF Structure
  <1>11. Gone(f) \in Nat /\ Len(Rows(f)) \in Nat /\ drained' = Len(Rows(f))
    BY <1>1, <1>4, <1>10, FileFields DEF SqliteTypeOK, FileOf, Rows
  <1>12. ASSUME sender' # "idle", ~db[r].stop PROVE drained' <= Gone(f)
    <2>1. ~db[r].closed
      BY <1>1, <1>2, <1>3, <1>12 DEF Drains
    <2>2. RowIds(f) = <<>>
      BY <1>4, <1>10, <1>12, <2>1 DEF HasRecords, FileOf
    <2>3. Len(Rows(f)) - Gone(f) = 0
      BY <1>1, <2>2, RowIdsAre
    <2>4. QED
      BY <1>11, <2>3
  <1>13. SqliteTypeOK'
    <2>1. Len(db') = Len(db) /\ db' \in Seq(DatabaseObject)
      BY <1>1, <1>8, LenProperties DEF SqliteTypeOK, ObjectsKept, Objects
    <2>2. QED
      BY <1>1, <1>4, <1>11, <2>1 DEF SqliteTypeOK
  <1>14. Rotation'
    <2>1. writeDb' = 0 => \E j \in DOMAIN db' : db'[j].pc = "start"
      BY <1>1, <1>2, <1>4, <1>8 DEF Rotation
    <2>2. sender' # "remove" /\ sender' # "reopen" /\ readDb' # 0
      BY <1>2, <1>3, <1>4, <1>1, Numbers
    <2>3. QED
      BY <2>1, <2>2 DEF Rotation, Objects
  <1>15. Packs'
    BY <1>1, <1>2, <1>4, <1>8, <1>9, PacksKept DEF Gone
  <1>16. Drains'
    <2>1. \A j \in DOMAIN db' : db'[j].closed => db'[j].stop \/ stopped'
      BY <1>1, <1>4, <1>8 DEF Drains, ObjectsKept, Follows
    <2>2. stopped' => db'[readDb'].stop
      BY <1>1, <1>2, <1>3, <1>4, <1>8 DEF Drains
    <2>3. sender' # "idle" /\ ~db'[readDb'].stop => drained' <= Gone(FileOf(readDb))'
      BY <1>3, <1>4, <1>8, <1>10, <1>12 DEF Gone
    <2>4. (\A p \in lost' : p[2] # "unread") /\ sender' # "got"
      BY <1>1, <1>4 DEF Drains
    <2>5. QED
      BY <2>1, <2>2, <2>3, <2>4 DEF Drains, Objects
  <1>17. QED
    BY <1>9, <1>13, <1>14, <1>15, <1>16 DEF IInv

LEMMA SenderCleanupKeeps ==
    ASSUME IInv, SenderCleanup
    PROVE  IInv'
  <1>1. SqliteTypeOK /\ Structure /\ Rotation /\ Packs /\ Drains /\ db \in Seq(DatabaseObject)
    BY DEF IInv, SqliteTypeOK
  <1>2. /\ sender = "cleanup" /\ readDb \in Objects
        /\ sender' = (IF writeDb = 0 THEN "idle" ELSE "start")
        /\ db' = (IF writeDb = 0 THEN db ELSE CleanedUp(db))
        /\ writeDb' = (IF readDb = writeDb THEN writeDb ELSE 0)
        /\ UNCHANGED <<queue, disk, files, readDb, isMax, stopped, pack, deletePoint, history>>
    BY <1>1, Numbers DEF SenderCleanup, Rotation
  <1>3. /\ ObjectsKept /\ HandsKept /\ DOMAIN db' = Objects /\ Len(db') = Len(db) /\ db' \in Seq(DatabaseObject)
        /\ \A j \in Objects : db'[j].reads = db[j].reads /\ db'[j].pc = db[j].pc
    <2>1. CASE writeDb = 0
      BY <1>1, <1>2, <2>1, NothingMoves
    <2>2. CASE writeDb # 0
      BY <1>1, <1>2, <2>2, CleanedUpDoes, AllFollow DEF HandsKept
    <2>3. QED
      BY <2>1, <2>2
  <1>4. /\ Structure' /\ OneReader' /\ OnePlace' /\ Fetches' /\ AllLocated' /\ FilesKept
        /\ There(FileOf(readDb))' = There(FileOf(readDb)) /\ Gone(FileOf(readDb))' = Gone(FileOf(readDb))
    <2>1. readDb # 0 /\ sender # "deleted"
      BY <1>1, <1>2, Numbers
    <2>2. UNCHANGED <<queue, disk, files, readDb, accepted, done, inFlight, lost>>
      BY <1>2 DEF history
    <2>3. QED
      BY <1>3, <2>1, <2>2, MessagesStay
  <1>5. SqliteTypeOK'
    BY <1>1, <1>2, <1>3, LenProperties DEF SqliteTypeOK, history
  <1>6. Rotation'
    <2>1. readDb' # 0 /\ sender' \in {"idle", "start"}
      BY <1>1, <1>2, Numbers
    <2>2. writeDb' = 0 => sender' = "start" \/ \E j \in DOMAIN db' : db'[j].pc = "start"
      BY <1>1, <1>2, <1>3 DEF Rotation
    <2>3. QED
      BY <2>1, <2>2 DEF Rotation, Objects
  <1>7. Packs'
    <2>1. sender # "got" /\ sender' # "got"
      BY <1>2
    <2>2. QED
      BY <1>1, <1>2, <1>3, <1>4, <2>1, PacksKept DEF Gone, history
  <1>8. Drains'
    <2>1. \A j \in DOMAIN db' : db'[j].closed => db'[j].stop \/ stopped'
      BY <1>1, <1>2, <1>3 DEF Drains, ObjectsKept, Follows
    <2>2. db[readDb].stop => db'[readDb'].stop
      BY <1>2, <1>3 DEF ObjectsKept, Follows
    <2>3. stopped' => db'[readDb'].stop
      BY <1>1, <1>2, <2>2 DEF Drains
    <2>4. There(FileOf(readDb))' /\ ~db'[readDb'].stop => drained' <= Gone(FileOf(readDb))'
      BY <1>1, <1>2, <1>4, <2>2 DEF Drains, history
    <2>5. (\A p \in lost' : p[2] # "unread") /\ sender' # "got"
      BY <1>1, <1>2 DEF Drains, history
    <2>6. QED
      BY <2>1, <2>3, <2>4, <2>5 DEF Drains, Objects
  <1>9. QED
    BY <1>4, <1>5, <1>6, <1>7, <1>8 DEF IInv

LEMMA FinalizeReadDatabaseKeeps ==
    ASSUME IInv, FinalizeReadDatabase
    PROVE  IInv'
  <1>1. SqliteTypeOK /\ Structure /\ Rotation /\ Packs /\ Drains
    BY DEF IInv
  <1>2. readDb \in Objects /\ readDb # 0 /\ sender = "finalize"
    BY <1>1, Numbers DEF FinalizeReadDatabase, Rotation
  <1>3. PICK r \in Objects, f \in DOMAIN disk : r = readDb /\ f = FileOf(r)
    BY <1>1, <1>2 DEF Structure
  <1> DEFINE x == Closed(db[r])
             gone == {<<Rows(f)[k], IF k > drained THEN "late" ELSE IF db[r].stop THEN "closed" ELSE "unread">> :
                      k \in Elements(RowIds(f))}
  <1>4. UNCHANGED <<queue, disk, files, readDb, writeDb, isMax, stopped, pack, deletePoint, crashes, accepted,
                    done, reread, inFlight, drained>>
    BY DEF FinalizeReadDatabase
  <1>5. \/ There(f) /\ db' = [db EXCEPT ![r] = x] /\ lost' = lost \cup gone /\ sender' = "remove"
        \/ ~There(f) /\ sender' = "reopen" /\ db' = db /\ lost' = lost
    BY <1>3 DEF FinalizeReadDatabase, FileOf, Rows, There
  <1>6. x \in DatabaseObject /\ Follows(db[r], x) /\ SameHands(db[r], x) /\ x.reads = db[r].reads /\ x.pc = db[r].pc
        /\ x.stop
    <2>1. db[r] \in DatabaseObject
      BY <1>1, ObjectFields DEF SqliteTypeOK
    <2>2. QED
      BY <2>1 DEF Closed, DatabaseObject, Follows, SameHands
  <1> HIDE DEF x
  <1>7. /\ ObjectsKept /\ HandsKept /\ DOMAIN db' = Objects
        /\ \A j \in Objects : db'[j].reads = db[j].reads /\ db'[j].pc = db[j].pc
        /\ sender' = "remove" => db'[r].stop
    <2>1. CASE db' = db /\ sender' = "reopen"
      BY <1>1, <2>1, NothingMoves
    <2>2. CASE db' = [db EXCEPT ![r] = x]
      BY <1>1, <1>6, <2>2, OneFollows
    <2>3. QED
      BY <1>5, <2>1, <2>2
  <1>8. lost \subseteq lost' /\ lost' \subseteq lost \cup gone
    BY <1>5
  <1>9. \A p \in gone : p \in Messages \X {"crash", "held", "unlinked", "late", "closed", "unread"}
    <2>1. \A k \in Elements(RowIds(f)) : Rows(f)[k] \in Messages
      <3>1. Elements(RowIds(f)) \subseteq DOMAIN Rows(f)
        <4>1. Elements(RowIds(f)) = Gone(f) + 1 .. Len(Rows(f))
          BY <1>1, RowIdsAre
        <4>2. Gone(f) \in Nat /\ Len(Rows(f)) \in Nat /\ DOMAIN Rows(f) = 1 .. Len(Rows(f))
          BY <1>1, FileFields, LenProperties DEF SqliteTypeOK
        <4>3. QED
          BY <4>1, <4>2
      <3>2. QED
        BY <1>1, <3>1, MessagesInHands
    <2>2. QED
      BY <2>1
  <1>10. There(f) => \A p \in gone : p[2] # "unread"
    <2>1. SUFFICES ASSUME There(f), NEW k \in Elements(RowIds(f)), ~(k > drained), ~db[r].stop PROVE FALSE
      OBVIOUS
    <2>2. drained <= Gone(f)
      BY <1>1, <1>2, <1>3, <2>1 DEF Drains
    <2>3. k \in Gone(f) + 1 .. Len(Rows(f)) /\ Gone(f) \in Nat /\ Len(Rows(f)) \in Nat /\ drained \in Nat
      BY <1>1, <2>1, RowIdsAre, FileFields DEF SqliteTypeOK
    <2>4. QED
      BY <2>1, <2>2, <2>3
  <1> HIDE DEF gone
  <1>11. /\ Structure' /\ OneReader' /\ OnePlace' /\ Fetches' /\ AllLocated' /\ FilesKept
         /\ FileOf(readDb)' = f /\ There(FileOf(readDb))' = There(f) /\ (Open(readDb)' => Open(readDb))
    BY <1>2, <1>3, <1>4, <1>7, <1>8, MessagesStay
  <1>12. SqliteTypeOK'
    <2>1. Len(db') = Len(db) /\ db' \in Seq(DatabaseObject)
      BY <1>1, <1>7, LenProperties DEF SqliteTypeOK, ObjectsKept, Objects
    <2>2. lost' \subseteq Messages \X {"crash", "held", "unlinked", "late", "closed", "unread"}
      BY <1>1, <1>8, <1>9 DEF SqliteTypeOK
    <2>3. QED
      BY <1>1, <1>4, <1>5, <2>1, <2>2 DEF SqliteTypeOK
  <1>13. Rotation'
    <2>1. writeDb' = 0 => \E j \in DOMAIN db' : db'[j].pc = "start"
      BY <1>1, <1>2, <1>4, <1>7 DEF Rotation
    <2>2. sender' = "remove" => There(FileOf(readDb))' /\ ~Open(readDb)'
      BY <1>3, <1>4, <1>5, <1>7, <1>11 DEF Open
    <2>3. sender' = "reopen" => ~There(FileOf(readDb))'
      BY <1>5, <1>11
    <2>4. QED
      BY <1>2, <1>4, <2>1, <2>2, <2>3 DEF Rotation, Objects
  <1>14. Packs'
    <2>1. sender # "got" /\ sender' # "got"
      BY <1>2, <1>5
    <2>2. QED
      BY <1>1, <1>4, <1>7, <1>11, <2>1, PacksKept DEF Gone
  <1>15. Drains'
    <2>1. \A j \in DOMAIN db' : db'[j].closed => db'[j].stop \/ stopped'
      BY <1>1, <1>4, <1>7 DEF Drains, ObjectsKept, Follows
    <2>2. \A p \in lost' : p[2] # "unread"
      BY <1>1, <1>5, <1>10 DEF Drains
    <2>3. sender' \in {"remove", "reopen"}
      BY <1>5
    <2>4. QED
      BY <2>1, <2>2, <2>3 DEF Drains, Objects
  <1>16. QED
    BY <1>11, <1>12, <1>13, <1>14, <1>15 DEF IInv

(* A step that changes what an object has read.                             *)
LEMMA HandsChange ==
    ASSUME IInv, NEW i \in Objects, NEW x \in DatabaseObject, db' = [db EXCEPT ![i] = x], Follows(db[i], x),
           x.batch = db[i].batch, db[i].pc = "insert" => x.pc = "insert", x.reads => db[i].reads,
           x.reads \/ SameHands(db[i], x), UNCHANGED <<queue, disk, files, readDb, accepted, done, lost>>,
           inFlight \subseteq inFlight', sender = "deleted" => sender' = "deleted" \/ i = readDb,
           Answer(x.next, Gone(FileOf(i)), Len(Rows(FileOf(i)))), Answer(x.selected, Gone(FileOf(i)), Len(Rows(FileOf(i)))),
           x.stop = db[i].stop /\ x.closed = db[i].closed,
           Open(i) /\ ~(sender' = "deleted" /\ i = readDb) => \A k \in Elements(x.next) \cup Elements(x.selected) :
              k <= Gone(FileOf(i)) => Rows(FileOf(i))[k] \in inFlight'
    PROVE  /\ Structure' /\ OneReader' /\ OnePlace' /\ Fetches' /\ AllLocated'
           /\ ObjectsKept /\ FilesKept /\ DOMAIN db' = Objects /\ Len(db') = Len(db) /\ db'[i] = x
           /\ \A j \in Objects : j # i => db'[j] = db[j]
           /\ \A f \in DOMAIN disk : disk'[f].gone = Gone(f)
           /\ \A j \in Objects : Open(j)' <=> Open(j)
           /\ \A j \in Objects : FileOf(j) \in DOMAIN disk /\ FileOf(j)' = FileOf(j)
                                 /\ There(FileOf(j))' = There(FileOf(j)) /\ Gone(FileOf(j))' = Gone(FileOf(j))
  <1>1. SqliteTypeOK /\ Structure /\ OneReader /\ OnePlace /\ Fetches /\ AllLocated
    BY DEF IInv
  <1>2. ObjectsKept /\ DOMAIN db' = Objects /\ db'[i] = x /\ \A j \in Objects : j # i => db'[j] = db[j]
    BY <1>1, OneFollows
  <1>3. /\ FilesKept /\ DOMAIN disk' = DOMAIN disk
        /\ \A f \in DOMAIN disk : disk'[f].gone = Gone(f) /\ disk'[f].rows = Rows(f) /\ (There(f)' <=> There(f))
                                  /\ (disk'[f].there <=> There(f))
    BY <1>1, NothingMoves DEF Structure, Gone, Rows, There
  <1>4. Structure'
    BY <1>1, <1>2, <1>3, StructureKept
  <1>5. \A j \in Objects : FileOf(j)' = FileOf(j) /\ FileOf(j) \in DOMAIN disk
    BY <1>1, <1>2, <1>3, Later DEF Structure
  <1>6. \A j \in Objects : (Open(j)' <=> Open(j)) /\ (db'[j].reads => db[j].reads) /\ db'[j].batch = db[j].batch
    BY <1>2 DEF Open
  <1>7. OneReader'
    <2>1. \A j \in Objects : db'[j].reads \/ ReadsKept(j)
      BY <1>2 DEF SameHands, ReadsKept
    <2>2. \A j \in Objects : There(FileOf(j))' <=> There(FileOf(j))
      BY <1>3, <1>5 DEF There
    <2>3. QED
      BY <1>1, <1>2, <1>6, <2>1, <2>2, OneReaderKept
  <1>8. OnePlace'
    <2>1. BatchesKept
      BY <1>2 DEF BatchesKept
    <2>2. Left \in Int /\ Len(queue) \in Nat /\ accepted \in Nat
      BY <1>1, LenProperties DEF Left, SqliteTypeOK
    <2>3. /\ Len(queue') <= accepted' /\ \A k \in DOMAIN queue' : queue'[k] = accepted' - Len(queue') + k
          /\ Len(queue') \in Nat /\ accepted' \in Nat /\ Left <= accepted' - Len(queue') /\ done' \ done = {}
      BY <1>1, <2>2 DEF OnePlace, Left
    <2>4. QED
      BY <1>1, <1>3, <2>1, <2>3, OnePlaceKept DEF RowsKept
  <1>9. AllLocated'
    BY <1>1, <1>2, <1>3, <1>6, LocatedKept DEF RowsKept
  <1>10. \A j \in Objects : Gone(FileOf(j))' = Gone(FileOf(j)) /\ Rows(FileOf(j))' = Rows(FileOf(j))
                            /\ There(FileOf(j))' = There(FileOf(j))
    BY <1>5 DEF Gone, Rows, There
  <1>11. Fetches'
    <2>1. \A j \in Objects : /\ Answer(db'[j].next, Gone(FileOf(j)), Len(Rows(FileOf(j))))
                             /\ Answer(db'[j].selected, Gone(FileOf(j)), Len(Rows(FileOf(j))))
      BY <1>1, <1>2 DEF Fetches, FromFile
    <2>2. \A j \in DOMAIN db' : FromFile(db[j].next, FileOf(j))' /\ FromFile(db[j].selected, FileOf(j))'
      BY <1>2, <1>10, <2>1 DEF FromFile
    <2>3. ASSUME NEW j \in Objects, Open(j)', ~(sender' = "deleted" /\ j = readDb'),
                 NEW k \in Elements(db'[j].next) \cup Elements(db'[j].selected), k <= Gone(FileOf(j))
          PROVE  Rows(FileOf(j))[k] \in inFlight'
      <3>1. CASE j = i
        BY <1>2, <1>6, <2>3, <3>1
      <3>2. CASE j # i
        <4>1. ~(sender = "deleted" /\ j = readDb) /\ Open(j)
          BY <1>6, <2>3, <3>2
        <4>2. Rows(FileOf(j))[k] \in inFlight
          BY <1>1, <1>2, <2>3, <3>2, <4>1 DEF Fetches
        <4>3. QED
          BY <4>2
      <3>3. QED
        BY <3>1, <3>2
    <2>4. QED
      BY <1>2, <1>10, <2>2, <2>3 DEF Fetches, Objects
  <1>12. Len(db') = Len(db)
    BY <1>1, <1>2, LenProperties DEF SqliteTypeOK, ObjectsKept, Objects
  <1>13. QED
    BY <1>2, <1>3, <1>4, <1>5, <1>6, <1>7, <1>8, <1>9, <1>10, <1>11, <1>12

LEMMA CanPrepareNewBatchKeeps ==
    ASSUME IInv, CanPrepareNewBatch
    PROVE  IInv'
  <1>1. SqliteTypeOK /\ Structure /\ Rotation /\ OneReader /\ Fetches /\ Packs /\ Drains
    BY DEF IInv
  <1>2. readDb \in Objects /\ readDb # 0 /\ sender = "deleted"
    BY <1>1, Numbers DEF CanPrepareNewBatch, Rotation
  <1>3. PICK r \in Objects, f \in DOMAIN disk : r = readDb /\ f = FileOf(r)
    BY <1>1, <1>2 DEF Structure
  <1> DEFINE x == [db[r] EXCEPT !.next = <<>>, !.canPrepare = TRUE]
             told == {Rows(f)[k] : k \in Elements(db[r].selected)}
  <1>4. /\ db' = [db EXCEPT ![r] = x] /\ inFlight' = inFlight \cup told /\ sender' = "prepared"
        /\ UNCHANGED <<queue, disk, files, readDb, writeDb, isMax, stopped, pack, deletePoint,
                       crashes, accepted, done, reread, drained, lost>>
    BY <1>3 DEF CanPrepareNewBatch, FileOf, Rows
  <1>5. x \in DatabaseObject /\ Follows(db[r], x) /\ x.reads = db[r].reads /\ x.pc = db[r].pc
        /\ x.stop = db[r].stop /\ x.closed = db[r].closed /\ x.batch = db[r].batch
        /\ x.next = <<>> /\ x.selected = db[r].selected
    <2>1. db[r] \in DatabaseObject
      BY <1>1, ObjectFields DEF SqliteTypeOK
    <2>2. QED
      BY <2>1, EmptySeq DEF DatabaseObject, Follows
  <1> HIDE DEF x
  <1>6. x.reads \/ SameHands(db[r], x)
    BY <1>1, <1>5 DEF OneReader, SameHands
  <1>7. Gone(f) \in Nat /\ Len(Rows(f)) \in Nat /\ db[r].selected \in Seq(Nat)
    BY <1>1, FileFields, ObjectFields DEF SqliteTypeOK
  <1>8. Answer(x.next, Gone(f), Len(Rows(f)))
    <2>1. 0 \in 0 .. Gone(f) /\ 0 + Len(<<>>) <= Len(Rows(f)) /\ DOMAIN <<>> = {}
      BY <1>7
    <2>2. QED
      BY <1>5, <2>1 DEF Answer
  <1>9. Answer(x.selected, Gone(f), Len(Rows(f)))
    BY <1>1, <1>3, <1>5 DEF Fetches, FromFile
  <1>10. \A k \in Elements(x.next) \cup Elements(x.selected) : Rows(f)[k] \in inFlight'
    <2>1. Elements(x.next) = {}
      BY <1>5 DEF Elements
    <2>2. QED
      BY <1>4, <1>5, <2>1
  <1>11. told \subseteq Messages
    <2>1. Elements(db[r].selected) \subseteq 1 .. Len(Rows(f))
      BY <1>5, <1>7, <1>9, AnswerLater
    <2>2. QED
      BY <1>1, <2>1, MessagesInHands, FileFields DEF SqliteTypeOK
  <1> HIDE DEF told
  <1>12. inFlight \subseteq inFlight' /\ (sender = "deleted" => sender' = "deleted" \/ r = readDb)
         /\ UNCHANGED <<queue, disk, files, readDb, accepted, done, lost>>
    BY <1>3, <1>4
  <1>13. /\ Structure' /\ OneReader' /\ OnePlace' /\ Fetches' /\ AllLocated'
         /\ ObjectsKept /\ FilesKept /\ DOMAIN db' = Objects /\ Len(db') = Len(db) /\ db'[r] = x
         /\ \A j \in Objects : j # r => db'[j] = db[j]
         /\ \A g \in DOMAIN disk : disk'[g].gone = Gone(g)
    BY <1>3, <1>4, <1>5, <1>6, <1>8, <1>9, <1>10, <1>12, HandsChange
  <1>14. SqliteTypeOK'
    BY <1>1, <1>4, <1>11, <1>13 DEF SqliteTypeOK, ObjectsKept
  <1>15. Rotation'
    <2>1. \A j \in Objects : db'[j].pc = db[j].pc
      BY <1>5, <1>13
    <2>2. QED
      BY <1>1, <1>2, <1>4, <1>13, <2>1 DEF Rotation, Objects
  <1>16. Packs'
    <2>1. sender # "got" /\ sender' # "got"
      BY <1>2, <1>4
    <2>2. QED
      BY <1>1, <1>4, <1>13, <2>1, PacksKept
  <1>17. Drains'
    <2>1. \A j \in DOMAIN db' : db'[j].closed => db'[j].stop \/ stopped'
      BY <1>1, <1>4, <1>13 DEF Drains, ObjectsKept, Follows
    <2>2. stopped' => db'[readDb'].stop
      BY <1>1, <1>2, <1>3, <1>4, <1>5, <1>13 DEF Drains
    <2>3. \A p \in lost' : p[2] # "unread"
      BY <1>1, <1>4 DEF Drains
    <2>4. QED
      BY <1>4, <2>1, <2>2, <2>3 DEF Drains, Objects
  <1>18. QED
    BY <1>13, <1>14, <1>15, <1>16, <1>17 DEF IInv

(* The other parts, in a step of a database thread that does not rotate.    *)
LEMMA ThreadStep ==
    ASSUME IInv, ObjectsKept, FilesKept, DOMAIN db' = Objects,
           UNCHANGED <<files, readDb, writeDb, isMax, stopped, senderVars>>,
           UNCHANGED <<crashes, accepted, done, reread, inFlight, drained>>,
           DOMAIN disk' = DOMAIN disk, queue' \in Seq(Messages),
           \A f \in DOMAIN disk : disk'[f].gone = Gone(f) /\ (disk'[f].there <=> There(f)),
           lost' \subseteq Messages \X {"crash", "held", "unlinked", "late", "closed", "unread"},
           \A p \in lost' \ lost : p[2] # "unread",
           \A j \in Objects : (db[j].pc = "start" => db'[j].pc = "start") /\ (Open(j)' <=> Open(j))
    PROVE  SqliteTypeOK' /\ Rotation' /\ Packs' /\ Drains' /\ Structure'
  <1>1. SqliteTypeOK /\ Structure /\ Rotation /\ Packs /\ Drains
    BY DEF IInv
  <1>2. Len(db') = Len(db)
    BY <1>1, LenProperties DEF SqliteTypeOK, ObjectsKept, Objects
  <1>3. SqliteTypeOK'
    BY <1>1, <1>2 DEF SqliteTypeOK, ObjectsKept, FilesKept, senderVars
  <1>4. readDb # 0 => /\ readDb \in Objects /\ FileOf(readDb)' = FileOf(readDb) /\ FileOf(readDb) \in DOMAIN disk
                      /\ (Open(readDb)' <=> Open(readDb))
    BY <1>1, Numbers, Later DEF Structure
  <1>5. readDb # 0 => (There(FileOf(readDb))' <=> There(FileOf(readDb)))
    BY <1>4 DEF There
  <1>6. Rotation'
    BY <1>1, <1>4, <1>5 DEF Rotation, Objects, senderVars
  <1>7. Packs'
    BY <1>1, PacksKept DEF senderVars
  <1>8. Drains'
    <2>1. sender = "got" => stopped' \/ Open(readDb)'
      BY <1>1, <1>4 DEF Drains, Rotation
    <2>2. QED
      BY <1>1, <2>1, DrainsKept DEF senderVars
  <1>9. Structure'
    BY <1>1, StructureKept
  <1>10. QED
    BY <1>3, <1>6, <1>7, <1>8, <1>9

LEMMA PrefetchSelectKeeps ==
    ASSUME IInv, NEW i \in Objects, PrefetchSelect(i)
    PROVE  IInv'
  <1>1. SqliteTypeOK /\ Structure /\ Fetches /\ Drains
    BY DEF IInv
  <1>2. PICK f \in DOMAIN disk : f = FileOf(i)
    BY <1>1 DEF Structure
  <1>3. PICK s \in Seq(Nat) : s = ReadData(i)
    BY <1>1, ReadDataIs
  <1> DEFINE x == [db[i] EXCEPT !.pc = "assign", !.selected = s]
  <1>4. /\ db' = [db EXCEPT ![i] = x] /\ db[i].pc = "top" /\ db[i].reads /\ db[i].next = <<>>
        /\ UNCHANGED <<queue, disk, files, readDb, writeDb, isMax, stopped, senderVars, history>>
    BY <1>3 DEF PrefetchSelect
  <1>5. x \in DatabaseObject /\ Follows(db[i], x) /\ x.reads = db[i].reads /\ x.next = <<>> /\ x.selected = s
        /\ x.stop = db[i].stop /\ x.closed = db[i].closed /\ x.batch = db[i].batch
    <2>1. db[i] \in DatabaseObject
      BY <1>1, ObjectFields DEF SqliteTypeOK
    <2>2. QED
      BY <1>4, <2>1 DEF DatabaseObject, Follows
  <1> HIDE DEF x
  <1>6. Answer(x.next, Gone(f), Len(Rows(f))) /\ Answer(x.selected, Gone(f), Len(Rows(f)))
    BY <1>1, <1>2, <1>3, <1>4, <1>5, ReadDataIs DEF Fetches, FromFile
  <1>7. \A k \in Elements(x.next) \cup Elements(x.selected) : k > Gone(f) /\ k \in Nat /\ Gone(f) \in Nat
    <2>1. Elements(x.next) = {}
      BY <1>5 DEF Elements
    <2>2. s = <<>> => Elements(s) = {}
      BY DEF Elements
    <2>3. \A k \in Elements(s) : k > Gone(f)
      BY <1>1, <1>2, <1>3, <1>4, <2>2, ReadDataIs
    <2>4. Elements(s) \subseteq Nat
      BY ElementOfSeq, LenProperties DEF Elements
    <2>5. QED
      BY <1>1, <1>5, <2>1, <2>3, <2>4, FileFields DEF SqliteTypeOK
  <1>8. \A k \in Elements(x.next) \cup Elements(x.selected) : ~(k <= Gone(f))
    BY <1>7
  <1>9. /\ OneReader' /\ OnePlace' /\ Fetches' /\ AllLocated'
        /\ ObjectsKept /\ FilesKept /\ DOMAIN db' = Objects /\ db'[i] = x
        /\ \A j \in Objects : j # i => db'[j] = db[j]
        /\ \A g \in DOMAIN disk : disk'[g].gone = Gone(g)
        /\ \A j \in Objects : Open(j)' <=> Open(j)
    BY <1>2, <1>4, <1>5, <1>6, <1>8, HandsChange DEF senderVars, history
  <1>10. SqliteTypeOK' /\ Rotation' /\ Packs' /\ Drains' /\ Structure'
    <2>1. \A j \in Objects : db[j].pc = "start" => db'[j].pc = "start"
      BY <1>4, <1>9
    <2>2. QED
      BY <1>1, <1>4, <1>9, <2>1, ThreadStep DEF There, SqliteTypeOK, history
  <1>11. QED
    BY <1>9, <1>10 DEF IInv

LEMMA PrefetchAssignKeeps ==
    ASSUME IInv, NEW i \in Objects, PrefetchAssign(i)
    PROVE  IInv'
  <1>1. SqliteTypeOK /\ Structure /\ OneReader /\ Fetches /\ Drains
    BY DEF IInv
  <1>2. PICK f \in DOMAIN disk : f = FileOf(i)
    BY <1>1 DEF Structure
  <1> DEFINE x == [db[i] EXCEPT !.pc = "top", !.next = db[i].selected, !.selected = <<>>, !.canPrepare = FALSE]
  <1>3. /\ db' = [db EXCEPT ![i] = x] /\ db[i].pc = "assign"
        /\ UNCHANGED <<queue, disk, files, readDb, writeDb, isMax, stopped, senderVars, history>>
    BY DEF PrefetchAssign
  <1>4. x \in DatabaseObject /\ Follows(db[i], x) /\ x.reads = db[i].reads /\ x.next = db[i].selected /\ x.selected = <<>>
        /\ x.stop = db[i].stop /\ x.closed = db[i].closed /\ x.batch = db[i].batch
    <2>1. db[i] \in DatabaseObject
      BY <1>1, ObjectFields DEF SqliteTypeOK
    <2>2. QED
      BY <1>3, <2>1, EmptySeq DEF DatabaseObject, Follows
  <1> HIDE DEF x
  <1>5. x.reads \/ SameHands(db[i], x)
    BY <1>1, <1>3, <1>4 DEF OneReader, SameHands
  <1>6. Answer(x.next, Gone(f), Len(Rows(f)))
    BY <1>1, <1>2, <1>4 DEF Fetches, FromFile
  <1>7. Answer(x.selected, Gone(f), Len(Rows(f)))
    <2>1. Gone(f) \in Nat /\ Len(Rows(f)) \in Nat
      BY <1>1, FileFields DEF SqliteTypeOK
    <2>2. 0 \in 0 .. Gone(f) /\ 0 + Len(<<>>) <= Len(Rows(f)) /\ DOMAIN <<>> = {}
      BY <2>1
    <2>3. QED
      BY <1>4, <2>2 DEF Answer
  <1>8. Elements(x.next) \cup Elements(x.selected) = Elements(db[i].selected)
    BY <1>4 DEF Elements
  <1>9. Open(i) /\ ~(sender' = "deleted" /\ i = readDb) =>
            \A k \in Elements(x.next) \cup Elements(x.selected) : k <= Gone(f) => Rows(f)[k] \in inFlight'
    BY <1>1, <1>2, <1>3, <1>8 DEF Fetches, senderVars, history
  <1>10. /\ OneReader' /\ OnePlace' /\ Fetches' /\ AllLocated'
         /\ ObjectsKept /\ FilesKept /\ DOMAIN db' = Objects /\ db'[i] = x
         /\ \A j \in Objects : j # i => db'[j] = db[j]
         /\ \A g \in DOMAIN disk : disk'[g].gone = Gone(g)
         /\ \A j \in Objects : Open(j)' <=> Open(j)
    BY <1>2, <1>3, <1>4, <1>5, <1>6, <1>7, <1>9, HandsChange DEF senderVars, history
  <1>11. SqliteTypeOK' /\ Rotation' /\ Packs' /\ Drains' /\ Structure'
    <2>1. \A j \in Objects : db[j].pc = "start" => db'[j].pc = "start"
      BY <1>3, <1>10
    <2>2. QED
      BY <1>1, <1>3, <1>10, <2>1, ThreadStep DEF There, SqliteTypeOK, history
  <1>12. QED
    BY <1>10, <1>11 DEF IInv

LEMMA ProcessKeeps ==
    ASSUME IInv, NEW i \in Objects, Process(i)
    PROVE  IInv'
  <1>1. SqliteTypeOK /\ Structure /\ OneReader /\ OnePlace /\ Fetches /\ Drains /\ AllLocated
    BY DEF IInv
  <1>2. queue \in Seq(Messages) /\ Len(queue) \in Nat /\ DOMAIN queue = 1 .. Len(queue) /\ accepted \in Nat
    BY <1>1, LenProperties DEF SqliteTypeOK
  <1>3. PICK n \in 1 .. Lower(BatchSize, Len(queue)) :
            /\ db' = [db EXCEPT ![i].pc = "insert", ![i].batch = SubSeq(queue, 1, n)]
            /\ queue' = SubSeq(queue, n + 1, Len(queue))
    BY DEF Process
  <1>4. n \in Nat \ {0} /\ n <= Len(queue)
    BY <1>2, <1>3 DEF Lower
  <1>5. PICK b : b = SubSeq(queue, 1, n)
    OBVIOUS
  <1>6. b \in Seq(Messages) /\ Len(b) = n /\ DOMAIN b = 1 .. n /\ \A a \in 1 .. n : b[a] = queue[a]
    <2>1. \A k \in 1 .. n : queue[k] \in Messages
      BY <1>1, <1>2, <1>4, MessagesInHands
    <2>2. b \in Seq(Messages) /\ Len(b) = n /\ \A a \in 1 .. n : b[a] = queue[a]
      BY <1>4, <1>5, <2>1, SubSeqProperties
    <2>3. QED
      BY <2>2, LenProperties
  <1>7. /\ queue' \in Seq(Messages) /\ Len(queue') = Len(queue) - n /\ DOMAIN queue' = 1 .. Len(queue) - n
        /\ \A k \in 1 .. Len(queue) - n : queue'[k] = queue[n + k]
    <2>1. PICK p \in Int, l \in Int : p = n + 1 /\ l = Len(queue)
      <3>1. n + 1 \in Int /\ Len(queue) \in Int
        BY <1>2, <1>4
      <3>2. QED
        BY <3>1, Zenon
    <2>2. \A k \in p .. l : queue[k] \in Messages
      BY <1>1, <1>2, <1>4, <2>1, MessagesInHands
    <2>3. /\ SubSeq(queue, p, l) \in Seq(Messages) /\ Len(SubSeq(queue, p, l)) = (IF p <= l THEN l - p + 1 ELSE 0)
          /\ \A k \in 1 .. l - p + 1 : SubSeq(queue, p, l)[k] = queue[p + k - 1]
      BY <2>1, <2>2, SubSeqProperties
    <2>4. SubSeq(queue, p, l) = queue'
      BY <1>3, <2>1, Zenon
    <2>5. Len(queue') = Len(queue) - n
      <3>1. PICK e \in Nat : e = n /\ l \in Nat /\ p = e + 1 /\ e <= l
        BY <1>2, <1>4, <2>1
      <3>2. CASE e < l
        BY <2>1, <2>3, <2>4, <3>1, <3>2
      <3>3. CASE ~(e < l)
        BY <2>1, <2>3, <2>4, <3>1, <3>3
      <3>4. QED
        BY <3>2, <3>3
    <2>6. DOMAIN queue' = 1 .. Len(queue) - n
      BY <2>3, <2>4, <2>5, LenProperties
    <2>7. \A k \in 1 .. Len(queue) - n : k \in 1 .. l - p + 1 /\ p + k - 1 = n + k
      BY <1>2, <1>4, <2>1
    <2>8. QED
      BY <2>3, <2>4, <2>5, <2>6, <2>7
  <1> DEFINE x == [db[i] EXCEPT !.pc = "insert", !.batch = b]
  <1>8. /\ db' = [db EXCEPT ![i] = x] /\ db[i].pc = "top"
        /\ UNCHANGED <<disk, files, readDb, writeDb, isMax, stopped, senderVars, history>>
    BY <1>3, <1>5 DEF Process
  <1>9. x \in DatabaseObject /\ Follows(db[i], x) /\ x.reads = db[i].reads /\ x.next = db[i].next /\ x.selected = db[i].selected
        /\ x.stop = db[i].stop /\ x.closed = db[i].closed /\ x.batch = b /\ x.pc = "insert"
    <2>1. db[i] \in DatabaseObject
      BY <1>1, ObjectFields DEF SqliteTypeOK
    <2>2. QED
      BY <1>6, <2>1 DEF DatabaseObject, Follows
  <1> HIDE DEF x
  <1>10. ObjectsKept /\ DOMAIN db' = Objects /\ db'[i] = x /\ \A j \in Objects : j # i => db'[j] = db[j]
    BY <1>1, <1>8, <1>9, OneFollows
  <1>11. /\ FilesKept /\ DOMAIN disk' = DOMAIN disk
         /\ \A f \in DOMAIN disk : disk'[f].gone = Gone(f) /\ (disk'[f].there <=> There(f))
    BY <1>1, <1>8, NothingMoves DEF Structure, Gone, There
  <1>12. \A j \in Objects : ReadsKept(j) /\ (Open(j)' <=> Open(j)) /\ (db'[j].reads <=> db[j].reads)
                            /\ (db[j].pc = "start" => db'[j].pc = "start")
    BY <1>8, <1>9, <1>10 DEF ReadsKept, Open
  <1>13. SqliteTypeOK' /\ Rotation' /\ Packs' /\ Drains' /\ Structure'
    BY <1>1, <1>7, <1>8, <1>10, <1>11, <1>12, ThreadStep DEF SqliteTypeOK, history
  <1>14. OneReader'
    <2>1. \A j \in Objects : There(FileOf(j))' <=> There(FileOf(j))
      BY <1>1, <1>8, <1>10, <1>11, Later DEF There
    <2>2. QED
      BY <1>1, <1>8, <1>10, <1>12, <2>1, OneReaderKept
  <1>15. Fetches'
    BY <1>1, <1>8, <1>10, <1>11, <1>12, FetchesKept DEF senderVars, history
  <1>16. Left' = Left + n /\ Left \in Int /\ Left' \in Int
    BY <1>2, <1>4, <1>7, <1>8 DEF Left, history
  <1>17. db[i].batch = <<>>
    BY <1>1, <1>8 DEF OnePlace
  <1>18. \A a \in 1 .. n : b[a] = Left + a
    BY <1>1, <1>2, <1>4, <1>6 DEF OnePlace
  <1>19. \A j \in Objects : j # i => db'[j].batch = db[j].batch /\ (db'[j].pc = db[j].pc)
    BY <1>10
  <1>20. \A j \in Objects : \A a \in DOMAIN db[j].batch : db[j].batch[a] <= Left /\ db[j].batch[a] \in Nat
    BY <1>1, MessagesInHands DEF OnePlace, Messages
  <1>21. \A f \in DOMAIN disk : \A k \in DOMAIN Rows(f) : Rows(f)[k] <= Left /\ Rows(f)[k] \in Nat
    BY <1>1, MessagesInHands DEF OnePlace, Messages
  <1>22. Rows(i)' = Rows(i) /\ \A f \in DOMAIN disk : Rows(f)' = Rows(f) /\ Gone(f)' = Gone(f)
    BY <1>8 DEF Rows, Gone
  <1>23. OnePlace'
    <2>1. Len(queue') <= accepted' /\ \A k \in DOMAIN queue' : queue'[k] = Left' + k
      <3>1. Len(queue') <= accepted'
        BY <1>1, <1>2, <1>4, <1>7, <1>8 DEF OnePlace, history
      <3>2. ASSUME NEW k \in DOMAIN queue' PROVE queue'[k] = Left' + k
        <4>1. n + k \in DOMAIN queue /\ queue'[k] = queue[n + k]
          BY <1>2, <1>4, <1>7, <3>2
        <4>2. queue[n + k] = Left + (n + k)
          BY <1>1, <4>1 DEF OnePlace
        <4>3. QED
          BY <1>4, <1>7, <1>16, <3>2, <4>1, <4>2
      <3>3. QED
        BY <3>1, <3>2
    <2>2. \A j \in DOMAIN db' : db'[j].pc = "insert" \/ db'[j].batch = <<>>
      BY <1>1, <1>9, <1>10 DEF OnePlace
    <2>3. \A j \in DOMAIN db' : \A a \in DOMAIN db'[j].batch : db'[j].batch[a] <= Left'
      <3>1. \A a \in 1 .. n : b[a] <= Left'
        BY <1>4, <1>16, <1>18
      <3>2. ASSUME NEW j \in Objects, j # i, NEW a \in DOMAIN db'[j].batch
            PROVE  db'[j].batch[a] <= Left'
        <4>1. db'[j].batch = db[j].batch
          BY <1>19, <3>2
        <4>2. db[j].batch[a] <= Left /\ db[j].batch[a] \in Nat
          BY <1>20, <3>2, <4>1
        <4>3. QED
          BY <1>4, <1>16, <4>1, <4>2
      <3>3. db'[i].batch = b /\ DOMAIN b = 1 .. n /\ DOMAIN db' = Objects
        BY <1>6, <1>9, <1>10
      <3>4. QED
        BY <3>1, <3>2, <3>3
    <2>4. \A f \in DOMAIN disk' : \A k \in DOMAIN Rows(f)' : Rows(f)'[k] <= Left'
      BY <1>4, <1>11, <1>16, <1>21, <1>22
    <2>5. \A j, l \in DOMAIN db' : \A a \in DOMAIN db'[j].batch : \A c \in DOMAIN db'[l].batch :
            db'[j].batch[a] = db'[l].batch[c] => j = l /\ a = c
      <3>1. \A a, c \in 1 .. n : b[a] = b[c] => a = c
        BY <1>16, <1>18
      <3>2. \A l \in Objects : \A a \in 1 .. n : \A c \in DOMAIN db[l].batch : b[a] # db[l].batch[c]
        BY <1>16, <1>18, <1>20
      <3>3. \A j, l \in Objects : \A a \in DOMAIN db[j].batch : \A c \in DOMAIN db[l].batch :
              db[j].batch[a] = db[l].batch[c] => j = l /\ a = c
        BY <1>1 DEF OnePlace
      <3>4. QED
        BY <1>6, <1>9, <1>10, <1>19, <3>1, <3>2, <3>3
    <2>6. \A f, g \in DOMAIN disk' : \A k \in DOMAIN Rows(f)' : \A l \in DOMAIN Rows(g)' :
            Rows(f)'[k] = Rows(g)'[l] => f = g /\ k = l
      BY <1>1, <1>11, <1>22 DEF OnePlace
    <2>7. \A j \in DOMAIN db' : \A f \in DOMAIN disk' : \A a \in DOMAIN db'[j].batch : \A k \in DOMAIN Rows(f)' :
            db'[j].batch[a] # Rows(f)'[k]
      <3>1. \A f \in DOMAIN disk : \A a \in 1 .. n : \A k \in DOMAIN Rows(f) : b[a] # Rows(f)[k]
        BY <1>16, <1>18, <1>21
      <3>2. \A j \in Objects : \A f \in DOMAIN disk : \A a \in DOMAIN db[j].batch : \A k \in DOMAIN Rows(f) :
              db[j].batch[a] # Rows(f)[k]
        BY <1>1 DEF OnePlace
      <3>3. QED
        BY <1>6, <1>9, <1>10, <1>11, <1>19, <1>22, <3>1, <3>2
    <2>8. \A m \in done' : \E f \in DOMAIN disk' : \E k \in DOMAIN Rows(f)' : k <= Gone(f)' /\ Rows(f)'[k] = m
      BY <1>1, <1>8, <1>11, <1>22 DEF OnePlace, history
    <2>9. QED
      BY <2>1, <2>2, <2>3, <2>4, <2>5, <2>6, <2>7, <2>8 DEF OnePlace, Objects
  <1>24. AllLocated'
    <2>1. ASSUME NEW m \in 1 .. accepted, Located(m) PROVE Located(m)'
      <3>1. CASE m \in Elements(queue)
        <4>1. PICK k \in 1 .. Len(queue) : queue[k] = m
          BY <1>2, <3>1 DEF Elements
        <4>2. CASE k <= n
          <5>1. k \in DOMAIN b /\ b[k] = m
            BY <1>4, <1>6, <4>1, <4>2
          <5>2. m \in Elements(db'[i].batch)
            BY <1>9, <1>10, <5>1 DEF Elements
          <5>3. QED
            BY <1>10, <5>2 DEF Located, Objects
        <4>3. CASE ~(k <= n)
          <5>1. k - n \in 1 .. Len(queue) - n /\ n + (k - n) = k
            BY <1>2, <1>4, <4>1, <4>3
          <5>2. m \in Elements(queue')
            BY <1>7, <4>1, <5>1 DEF Elements
          <5>3. QED
            BY <5>2 DEF Located
        <4>4. QED
          BY <4>2, <4>3
      <3>2. CASE \E j \in Objects : m \in Elements(db[j].batch)
        <4>1. PICK j \in Objects : m \in Elements(db[j].batch)
          BY <3>2
        <4>2. j # i
          BY <1>17, <4>1 DEF Elements
        <4>3. QED
          BY <1>10, <1>19, <4>1, <4>2 DEF Located, Objects
      <3>3. CASE \E f \in DOMAIN disk : There(f) /\ \E k \in DOMAIN Rows(f) : k > Gone(f) /\ Rows(f)[k] = m
        BY <1>8, <3>3 DEF Located, There, Rows, Gone
      <3>4. CASE m \in done \/ \E p \in lost : p[1] = m
        BY <1>8, <3>4 DEF Located, history
      <3>5. QED
        BY <2>1, <3>1, <3>2, <3>3, <3>4 DEF Located
    <2>2. QED
      BY <1>1, <1>8, <2>1 DEF AllLocated, history
  <1>25. QED
    BY <1>13, <1>14, <1>15, <1>23, <1>24 DEF IInv

LEMMA InsertKeeps ==
    ASSUME IInv, NEW i \in Objects, Insert(i)
    PROVE  IInv'
  <1>1. SqliteTypeOK /\ Structure /\ OneReader /\ OnePlace /\ Fetches /\ Drains /\ AllLocated
    BY DEF IInv
  <1>2. PICK f \in DOMAIN disk, b \in Seq(Messages) : f = FileOf(i) /\ b = db[i].batch
    BY <1>1, ObjectFields DEF Structure, SqliteTypeOK
  <1>3. Len(b) \in Nat /\ DOMAIN b = 1 .. Len(b) /\ \A a \in DOMAIN b : b[a] \in Messages
    BY LenProperties, ElementOfSeq
  <1>4. Rows(f) \in Seq(Messages) /\ Len(Rows(f)) \in Nat /\ DOMAIN Rows(f) = 1 .. Len(Rows(f)) /\ Gone(f) \in Nat
        /\ Gone(f) <= Len(Rows(f)) /\ disk \in Seq(DiskFile) /\ disk[f] \in DiskFile
    BY <1>1, FileFields DEF SqliteTypeOK, Structure
  <1>5. PICK z \in Nat : z = Len(Rows(f)) + Len(b) - Gone(f)
    <2>1. Len(Rows(f)) + Len(b) - Gone(f) \in Nat
      BY <1>3, <1>4
    <2>2. QED
      BY <2>1
  <1> DEFINE y == [disk[f] EXCEPT !.rows = Rows(f) \o b, !.size = IF @ < z THEN z ELSE @]
  <1>6. /\ db[i].pc = "insert"
        /\ UNCHANGED <<queue, files, readDb, writeDb, isMax, stopped, senderVars>>
        /\ UNCHANGED <<crashes, accepted, done, reread, inFlight, drained>>
    BY DEF Insert
  <1>7. PICK q \in {"top", "spin"} : db' = [db EXCEPT ![i].pc = q, ![i].batch = <<>>]
    BY DEF Insert
  <1>8. \/ There(f) /\ disk' = [disk EXCEPT ![f] = y] /\ lost' = lost
        \/ disk' = disk /\ \E w \in {"unlinked", "held"} : lost' = lost \cup (Elements(b) \X {w})
    BY <1>2, <1>5 DEF Insert, FileOf, Rows, Gone, There
  <1> DEFINE x == [db[i] EXCEPT !.pc = q, !.batch = <<>>]
  <1>9. db' = [db EXCEPT ![i] = x]
    BY <1>7
  <1>10. x \in DatabaseObject /\ Follows(db[i], x) /\ x.reads = db[i].reads /\ x.next = db[i].next /\ x.selected = db[i].selected
         /\ x.stop = db[i].stop /\ x.closed = db[i].closed /\ x.batch = <<>>
    <2>1. db[i] \in DatabaseObject
      BY <1>1, ObjectFields DEF SqliteTypeOK
    <2>2. QED
      BY <1>7, <2>1, EmptySeq DEF DatabaseObject, Follows
  <1> HIDE DEF x
  <1>11. ObjectsKept /\ DOMAIN db' = Objects /\ db'[i] = x /\ \A j \in Objects : j # i => db'[j] = db[j]
    BY <1>1, <1>9, <1>10, OneFollows
  <1>12. /\ Rows(f) \o b \in Seq(Messages) /\ Len(Rows(f) \o b) = Len(Rows(f)) + Len(b)
         /\ \A k \in 1 .. Len(Rows(f)) + Len(b) :
               (Rows(f) \o b)[k] = IF k <= Len(Rows(f)) THEN Rows(f)[k] ELSE b[k - Len(Rows(f))]
    BY <1>4, ConcatProperties
  <1>13. y \in DiskFile /\ y.rows = Rows(f) \o b /\ y.gone = Gone(f) /\ (y.there <=> There(f))
    <2>1. disk[f].size \in Nat
      BY <1>4 DEF DiskFile
    <2>2. PICK w \in Nat : w = IF disk[f].size < z THEN z ELSE disk[f].size
      BY <2>1
    <2>3. y = [disk[f] EXCEPT !.rows = Rows(f) \o b, !.size = w]
      BY <2>2
    <2>4. QED
      BY <1>4, <1>12, <2>3 DEF DiskFile, Gone, There
  <1> HIDE DEF y
  <1>14. \/ /\ disk' = [disk EXCEPT ![f] = y] /\ disk' \in Seq(DiskFile) /\ DOMAIN disk' = DOMAIN disk /\ Len(disk') = Len(disk)
            /\ disk'[f] = y /\ \A g \in DOMAIN disk : g # f => disk'[g] = disk[g]
            /\ There(f) /\ lost' = lost
         \/ /\ disk' = disk /\ \E w \in {"unlinked", "held"} : lost' = lost \cup (Elements(b) \X {w})
    <2>1. CASE disk' = [disk EXCEPT ![f] = y] /\ There(f) /\ lost' = lost
      <3>1. /\ disk' \in Seq(DiskFile) /\ DOMAIN disk' = DOMAIN disk /\ Len(disk') = Len(disk)
            /\ disk'[f] = y /\ \A g \in DOMAIN disk : g # f => disk'[g] = disk[g]
        BY <1>4, <1>13, <2>1, Updated
      <3>2. QED
        BY <2>1, <3>1
    <2>2. QED
      BY <1>8, <2>1
  (* The rows of the files: those there were, and those of the batch.        *)
  <1>15. DOMAIN disk' = DOMAIN disk /\ disk' \in Seq(DiskFile) /\ Len(disk') = Len(disk)
         /\ \A g \in DOMAIN disk : disk'[g].gone = Gone(g) /\ (disk'[g].there <=> There(g))
    BY <1>4, <1>13, <1>14 DEF Gone, There
  <1>16. \A k \in 1 .. Len(Rows(f)) : (Rows(f) \o b)[k] = Rows(f)[k]
    BY <1>3, <1>4, <1>12
  <1>17. ASSUME NEW g \in DOMAIN disk
         PROVE  /\ Len(Rows(g)) <= Len(disk'[g].rows) /\ Len(disk'[g].rows) \in Nat
                /\ DOMAIN disk'[g].rows = 1 .. Len(disk'[g].rows)
                /\ \A k \in DOMAIN Rows(g) : disk'[g].rows[k] = Rows(g)[k] /\ k \in DOMAIN disk'[g].rows
                /\ \A k \in DOMAIN disk'[g].rows : k \in DOMAIN Rows(g) \/
                     /\ g = f /\ disk' # disk /\ k - Len(Rows(f)) \in DOMAIN b
                     /\ disk'[g].rows[k] = b[k - Len(Rows(f))]
    <2>1. CASE disk'[g] = disk[g]
      <3>1. Rows(g) = disk'[g].rows /\ Len(Rows(g)) \in Nat /\ DOMAIN Rows(g) = 1 .. Len(Rows(g))
        BY <1>1, <2>1, FileFields DEF Rows, SqliteTypeOK
      <3>2. QED
        BY <3>1
    <2>2. CASE disk' # disk /\ g = f
      <3>1. disk'[g].rows = Rows(f) \o b
        BY <1>13, <1>14, <2>2
      <3>2. DOMAIN (Rows(f) \o b) = 1 .. Len(Rows(f)) + Len(b)
        BY <1>12, LenProperties
      <3>3. \A k \in 1 .. Len(Rows(f)) + Len(b) : k \in 1 .. Len(Rows(f)) \/
              (k - Len(Rows(f)) \in 1 .. Len(b) /\ (Rows(f) \o b)[k] = b[k - Len(Rows(f))])
        BY <1>3, <1>4, <1>12
      <3>4. Len(Rows(f)) + Len(b) \in Nat /\ Len(Rows(f)) <= Len(Rows(f)) + Len(b)
            /\ 1 .. Len(Rows(f)) \subseteq 1 .. Len(Rows(f)) + Len(b)
        BY <1>3, <1>4
      <3>5. QED
        BY <1>3, <1>4, <1>12, <1>16, <2>2, <3>1, <3>2, <3>3, <3>4
    <2>3. QED
      BY <1>14, <2>1, <2>2
  <1>18. FilesKept
    <2>1. Len(disk) \in Nat
      BY <1>4, LenProperties
    <2>2. \A g \in DOMAIN disk : Gone(g) \in Nat /\ Len(Rows(g)) \in Nat /\ Gone(g) <= Len(Rows(g))
      BY <1>1, FileFields DEF SqliteTypeOK, Structure
    <2>3. \A g \in DOMAIN disk : Gone(g) <= disk'[g].gone /\ disk'[g].gone <= Len(disk'[g].rows)
      BY <1>15, <1>17, <2>2
    <2>4. QED
      BY <1>15, <1>17, <2>1, <2>3 DEF FilesKept
  <1>19. \A j \in Objects : ReadsKept(j) /\ (Open(j)' <=> Open(j)) /\ (db'[j].reads <=> db[j].reads)
                            /\ (db[j].pc = "start" => db'[j].pc = "start")
    BY <1>6, <1>10, <1>11 DEF ReadsKept, Open
  <1>20. lost \subseteq lost' /\ lost' \subseteq Messages \X {"crash", "held", "unlinked", "late", "closed", "unread"}
         /\ \A p \in lost' \ lost : p[2] # "unread"
    <2>1. Elements(b) \subseteq Messages
      BY <1>3 DEF Elements
    <2>2. QED
      BY <1>1, <1>14, <2>1 DEF SqliteTypeOK
  <1>21. SqliteTypeOK' /\ Rotation' /\ Packs' /\ Drains' /\ Structure'
    <2>1. queue' \in Seq(Messages)
      BY <1>1, <1>6 DEF SqliteTypeOK
    <2>2. QED
      BY <1>6, <1>11, <1>15, <1>18, <1>19, <1>20, <2>1, ThreadStep
  <1>22. OneReader'
    <2>1. \A j \in Objects : There(FileOf(j))' <=> There(FileOf(j))
      BY <1>1, <1>11, <1>15, <1>18, Later DEF There, Structure
    <2>2. QED
      BY <1>1, <1>6, <1>11, <1>19, <2>1, OneReaderKept
  <1>23. Fetches'
    BY <1>1, <1>6, <1>11, <1>15, <1>18, <1>19, FetchesKept DEF senderVars
  (* Of the batch, it is known that no other hands and no row have its messages. *)
  <1>24. \A j \in Objects : \A a \in DOMAIN db'[j].batch : j # i /\ db'[j].batch = db[j].batch
    BY <1>10, <1>11
  <1>25. \A g \in DOMAIN disk' : \A k \in DOMAIN Rows(g)' :
            \/ g \in DOMAIN disk /\ k \in DOMAIN Rows(g) /\ Rows(g)'[k] = Rows(g)[k]
            \/ g = f /\ k \in Nat /\ k - Len(Rows(f)) \in DOMAIN b /\ Rows(g)'[k] = b[k - Len(Rows(f))]
    <2>1. TAKE g \in DOMAIN disk'
    <2>2. TAKE k \in DOMAIN Rows(g)'
    <2>3. g \in DOMAIN disk /\ k \in DOMAIN disk'[g].rows /\ Rows(g)' = disk'[g].rows /\ k \in Nat
      BY <1>15, <1>17 DEF Rows
    <2>4. QED
      BY <1>17, <2>3
  <1>26. OnePlace'
    <2>1. Left' = Left /\ queue' = queue /\ accepted' = accepted
      BY <1>6 DEF Left
    <2>2. Len(queue') <= accepted' /\ \A k \in DOMAIN queue' : queue'[k] = Left' + k
      BY <1>1, <2>1 DEF OnePlace
    <2>3. \A j \in DOMAIN db' : db'[j].pc = "insert" \/ db'[j].batch = <<>>
      BY <1>1, <1>10, <1>11 DEF OnePlace
    <2>4. \A j \in DOMAIN db' : \A a \in DOMAIN db'[j].batch : db'[j].batch[a] <= Left'
      BY <1>1, <1>11, <1>24, <2>1 DEF OnePlace
    <2>5. \A a \in DOMAIN b : b[a] <= Left
      BY <1>1, <1>2 DEF OnePlace
    <2>6. \A g \in DOMAIN disk' : \A k \in DOMAIN Rows(g)' : Rows(g)'[k] <= Left'
      <3>1. \A g \in DOMAIN disk : \A k \in DOMAIN Rows(g) : Rows(g)[k] <= Left
        BY <1>1 DEF OnePlace
      <3>2. QED
        BY <1>25, <2>1, <2>5, <3>1
    <2>7. \A j, l \in DOMAIN db' : \A a \in DOMAIN db'[j].batch : \A c \in DOMAIN db'[l].batch :
            db'[j].batch[a] = db'[l].batch[c] => j = l /\ a = c
      BY <1>1, <1>11, <1>24 DEF OnePlace
    <2>8. \A g \in DOMAIN disk : \A a \in DOMAIN b : \A k \in DOMAIN Rows(g) : b[a] # Rows(g)[k]
      BY <1>1, <1>2 DEF OnePlace
    <2>9. \A a, c \in DOMAIN b : b[a] = b[c] => a = c
      BY <1>1, <1>2 DEF OnePlace
    <2>10. \A g, h \in DOMAIN disk : \A k \in DOMAIN Rows(g) : \A l \in DOMAIN Rows(h) :
            Rows(g)[k] = Rows(h)[l] => g = h /\ k = l
      BY <1>1 DEF OnePlace
    <2>11. ASSUME NEW g \in DOMAIN disk', NEW h \in DOMAIN disk', NEW k \in DOMAIN Rows(g)', NEW l \in DOMAIN Rows(h)',
                  Rows(g)'[k] = Rows(h)'[l]
           PROVE  g = h /\ k = l
      <3>1. CASE g \in DOMAIN disk /\ k \in DOMAIN Rows(g) /\ Rows(g)'[k] = Rows(g)[k]
        <4>1. CASE h \in DOMAIN disk /\ l \in DOMAIN Rows(h) /\ Rows(h)'[l] = Rows(h)[l]
          <5>1. Rows(g)[k] = Rows(h)[l]
            BY <2>11, <3>1, <4>1
          <5>2. g \in DOMAIN disk /\ k \in DOMAIN Rows(g) /\ h \in DOMAIN disk /\ l \in DOMAIN Rows(h)
            BY <3>1, <4>1
          <5>3. QED
            BY <2>10, <5>1, <5>2, ZenonT(60)
        <4>2. CASE l - Len(Rows(f)) \in DOMAIN b /\ Rows(h)'[l] = b[l - Len(Rows(f))]
          BY <2>8, <2>11, <3>1, <4>2
        <4>3. QED
          BY <1>25, <2>11, <4>1, <4>2
      <3>2. CASE g = f /\ k \in Nat /\ k - Len(Rows(f)) \in DOMAIN b /\ Rows(g)'[k] = b[k - Len(Rows(f))]
        <4>1. CASE h \in DOMAIN disk /\ l \in DOMAIN Rows(h) /\ Rows(h)'[l] = Rows(h)[l]
          BY <2>8, <2>11, <3>2, <4>1
        <4>2. CASE h = f /\ l \in Nat /\ l - Len(Rows(f)) \in DOMAIN b /\ Rows(h)'[l] = b[l - Len(Rows(f))]
          <5>1. k - Len(Rows(f)) = l - Len(Rows(f))
            BY <2>9, <2>11, <3>2, <4>2
          <5>2. QED
            BY <1>4, <3>2, <4>2, <5>1
        <4>3. QED
          BY <1>25, <2>11, <4>1, <4>2
      <3>3. QED
        BY <1>25, <2>11, <3>1, <3>2
    <2>12. \A j \in DOMAIN db' : \A g \in DOMAIN disk' : \A a \in DOMAIN db'[j].batch : \A k \in DOMAIN Rows(g)' :
            db'[j].batch[a] # Rows(g)'[k]
      <3>1. \A j \in Objects : \A g \in DOMAIN disk : \A a \in DOMAIN db[j].batch : \A k \in DOMAIN Rows(g) :
              db[j].batch[a] # Rows(g)[k]
        BY <1>1 DEF OnePlace
      <3>2. \A j \in Objects : j # i => \A a \in DOMAIN db[j].batch : \A c \in DOMAIN b : db[j].batch[a] # b[c]
        BY <1>1, <1>2 DEF OnePlace
      <3>3. QED
        BY <1>11, <1>24, <1>25, <3>1, <3>2
    <2>13. \A m \in done' : \E g \in DOMAIN disk' : \E k \in DOMAIN Rows(g)' : k <= Gone(g)' /\ Rows(g)'[k] = m
      <3>1. \A g \in DOMAIN disk : g \in DOMAIN disk' /\ Gone(g)' = Gone(g)
              /\ \A k \in DOMAIN Rows(g) : k \in DOMAIN Rows(g)' /\ Rows(g)'[k] = Rows(g)[k]
        BY <1>15, <1>17 DEF Rows, Gone
      <3>2. \A m \in done : \E g \in DOMAIN disk : \E k \in DOMAIN Rows(g) : k <= Gone(g) /\ Rows(g)[k] = m
        BY <1>1 DEF OnePlace
      <3>3. QED
        BY <1>6, <3>1, <3>2
    <2>14. QED
      BY <2>2, <2>3, <2>4, <2>6, <2>7, <2>11, <2>12, <2>13 DEF OnePlace, Objects
  <1>27. AllLocated'
    <2>1. ASSUME NEW m \in 1 .. accepted, Located(m) PROVE Located(m)'
      <3>1. CASE m \in Elements(queue)
        BY <1>6, <3>1 DEF Located
      <3>2. CASE \E j \in Objects : m \in Elements(db[j].batch)
        <4>1. PICK j \in Objects : m \in Elements(db[j].batch)
          BY <3>2
        <4>2. CASE j # i
          BY <1>11, <4>1, <4>2 DEF Located, Objects
        <4>3. CASE j = i
          <5>1. m \in Elements(b)
            BY <1>2, <4>1, <4>3
          <5>2. CASE \E w \in {"unlinked", "held"} : lost' = lost \cup (Elements(b) \X {w})
            <6>1. PICK w : lost' = lost \cup (Elements(b) \X {w})
              BY <5>2
            <6>2. <<m, w>> \in lost' /\ <<m, w>>[1] = m
              BY <5>1, <6>1
            <6>3. QED
              BY <6>2 DEF Located
          <5>3. CASE disk' = [disk EXCEPT ![f] = y] /\ There(f)
            <6>1. PICK a \in 1 .. Len(b) : b[a] = m
              BY <1>3, <5>1 DEF Elements
            <6>2. disk'[f].rows = Rows(f) \o b
              BY <1>4, <1>13, <5>3, Updated
            <6>3. Len(Rows(f)) + a \in 1 .. Len(Rows(f)) + Len(b) /\ ~(Len(Rows(f)) + a <= Len(Rows(f)))
                  /\ Len(Rows(f)) + a - Len(Rows(f)) = a /\ Len(Rows(f)) + a > Gone(f)
              BY <1>3, <1>4
            <6>4. (Rows(f) \o b)[Len(Rows(f)) + a] = m /\ Len(Rows(f)) + a \in DOMAIN (Rows(f) \o b)
              BY <1>12, <6>1, <6>3, LenProperties
            <6>5. \E k \in DOMAIN Rows(f)' : k > Gone(f)' /\ Rows(f)'[k] = m
              BY <1>15, <6>2, <6>3, <6>4 DEF Rows, Gone
            <6>6. f \in DOMAIN disk' /\ There(f)'
              BY <1>15, <5>3 DEF There
            <6>7. QED
              BY <6>5, <6>6 DEF Located
          <5>4. QED
            BY <1>14, <5>2, <5>3
        <4>4. QED
          BY <4>2, <4>3
      <3>3. CASE \E g \in DOMAIN disk : There(g) /\ \E k \in DOMAIN Rows(g) : k > Gone(g) /\ Rows(g)[k] = m
        <4>1. \A g \in DOMAIN disk : g \in DOMAIN disk' /\ Gone(g)' = Gone(g) /\ (There(g) => There(g)')
                /\ \A k \in DOMAIN Rows(g) : k \in DOMAIN Rows(g)' /\ Rows(g)'[k] = Rows(g)[k]
          BY <1>15, <1>17 DEF Rows, Gone, There
        <4>2. QED
          BY <3>3, <4>1 DEF Located
      <3>4. CASE m \in done \/ \E p \in lost : p[1] = m
        BY <1>6, <1>20, <3>4 DEF Located
      <3>5. QED
        BY <2>1, <3>1, <3>2, <3>3, <3>4 DEF Located
    <2>2. QED
      BY <1>1, <1>6, <2>1 DEF AllLocated
  <1>28. QED
    BY <1>21, <1>22, <1>23, <1>26, <1>27 DEF IInv

LEMMA DeleteDataKeeps ==
    ASSUME IInv, DeleteData
    PROVE  IInv'
  <1>1. SqliteTypeOK /\ Structure /\ Rotation /\ OneReader /\ OnePlace /\ Fetches /\ Packs /\ Drains /\ AllLocated
    BY DEF IInv
  <1>2. sender = "got" /\ ~stopped
    BY DEF DeleteData
  <1>3. readDb \in Objects /\ readDb # 0 /\ Open(readDb)
    BY <1>1, <1>2, Numbers DEF Rotation, Drains
  <1>4. PICK r \in Objects, f \in DOMAIN disk : r = readDb /\ f = FileOf(r)
    BY <1>1, <1>3 DEF Structure
  <1>5. Rows(f) \in Seq(Messages) /\ Len(Rows(f)) \in Nat /\ DOMAIN Rows(f) = 1 .. Len(Rows(f)) /\ Gone(f) \in Nat
        /\ Gone(f) <= Len(Rows(f)) /\ disk \in Seq(DiskFile) /\ disk[f] \in DiskFile /\ deletePoint \in Nat
    BY <1>1, FileFields DEF SqliteTypeOK, Structure
  <1>6. /\ deletePoint <= Len(Rows(f))
        /\ \A k \in Gone(f) + 1 .. deletePoint : Rows(f)[k] \in Elements(pack)
        /\ \A m \in Elements(pack) : \E k \in 1 .. deletePoint : Rows(f)[k] = m
    BY <1>1, <1>2, <1>4 DEF Packs
  <1>7. PICK z \in Nat : z = IF Gone(f) < deletePoint THEN deletePoint ELSE Gone(f)
    BY <1>5
  <1>8. Gone(f) <= z /\ deletePoint <= z /\ z <= Len(Rows(f)) /\ \A k \in Nat : k <= z => k <= Gone(f) \/ k <= deletePoint
    BY <1>5, <1>6, <1>7
  <1> DEFINE y == [disk[f] EXCEPT !.gone = z]
  <1>9. disk' = [disk EXCEPT ![f] = y]
    <2>1. disk' = [disk EXCEPT ![f].gone = IF @ < deletePoint THEN Lower(deletePoint, Len(disk[f].rows)) ELSE @]
      BY <1>3, <1>4 DEF DeleteData, Open, FileOf
    <2>2. Lower(deletePoint, Len(disk[f].rows)) = deletePoint
      BY <1>5, <1>6 DEF Lower, Rows
    <2>3. QED
      BY <1>7, <2>1, <2>2 DEF Gone
  <1>10. /\ done' = done \cup Elements(pack) /\ pack' = <<>> /\ sender' = "deleted"
         /\ UNCHANGED <<queue, db, files, readDb, writeDb, isMax, stopped, deletePoint, crashes, accepted,
                        reread, inFlight, drained, lost>>
    BY DEF DeleteData
  <1>11. y \in DiskFile /\ y.rows = Rows(f) /\ y.gone = z /\ (y.there <=> There(f))
    BY <1>5, <1>7 DEF DiskFile, Rows, There
  <1> HIDE DEF y
  <1>12. /\ disk' \in Seq(DiskFile) /\ DOMAIN disk' = DOMAIN disk /\ Len(disk') = Len(disk)
         /\ disk'[f] = y /\ \A g \in DOMAIN disk : g # f => disk'[g] = disk[g]
    BY <1>5, <1>9, <1>11, Updated
  <1>13. \A g \in DOMAIN disk : disk'[g].rows = Rows(g) /\ (disk'[g].there <=> There(g)) /\ (g # f => disk'[g].gone = Gone(g))
    BY <1>11, <1>12 DEF Rows, Gone, There
  <1>14. disk'[f].gone = z
    BY <1>11, <1>12
  <1>15. \A g \in DOMAIN disk : Gone(g) <= disk'[g].gone /\ disk'[g].gone <= Len(disk'[g].rows)
    <2>1. \A g \in DOMAIN disk : Gone(g) \in Nat /\ Len(Rows(g)) \in Nat /\ Gone(g) <= Len(Rows(g))
      BY <1>1, FileFields DEF SqliteTypeOK, Structure
    <2>2. TAKE g \in DOMAIN disk
    <2>3. CASE g = f
      BY <1>8, <1>13, <1>14, <2>3
    <2>4. CASE g # f
      BY <1>13, <2>1, <2>4
    <2>5. QED
      BY <2>3, <2>4
  <1>16. FilesKept /\ RowsKept
    BY <1>5, <1>12, <1>13, <1>15, LenProperties, FileFields DEF FilesKept, RowsKept
  <1>17. ObjectsKept /\ HandsKept /\ DOMAIN db' = Objects
    BY <1>1, <1>10, NothingMoves
  <1>18. \A j \in Objects : FileOf(j)' = FileOf(j) /\ FileOf(j) \in DOMAIN disk /\ (Open(j)' <=> Open(j))
    BY <1>1, <1>10 DEF FileOf, Open, Structure
  <1>19. Structure'
    BY <1>1, <1>10, <1>12, <1>13, <1>16, <1>17, StructureKept
  <1>20. OneReader'
    <2>1. \A j \in Objects : ReadsKept(j) /\ (There(FileOf(j))' <=> There(FileOf(j))) /\ (db'[j].reads => db[j].reads)
      BY <1>10, <1>13, <1>18 DEF There, ReadsKept
    <2>2. QED
      BY <1>1, <1>10, <1>17, <2>1, OneReaderKept
  <1>21. \A m \in Elements(pack) : \E k \in DOMAIN Rows(f) : k <= disk'[f].gone /\ Rows(f)[k] = m
    <2>1. \A k \in 1 .. deletePoint : k \in DOMAIN Rows(f) /\ k <= disk'[f].gone
      BY <1>5, <1>6, <1>8, <1>14
    <2>2. QED
      BY <1>6, <2>1
  <1>22. OnePlace'
    <2>1. BatchesKept
      BY <1>10 DEF BatchesKept, Objects
    <2>2. Left \in Int /\ Len(queue) \in Nat /\ accepted \in Nat
      BY <1>1, LenProperties DEF Left, SqliteTypeOK
    <2>3. /\ Len(queue') <= accepted' /\ \A k \in DOMAIN queue' : queue'[k] = accepted' - Len(queue') + k
          /\ Len(queue') \in Nat /\ accepted' \in Nat /\ Left <= accepted' - Len(queue')
      BY <1>1, <1>10, <2>2 DEF OnePlace, Left
    <2>4. \A m \in done' \ done : \E g \in DOMAIN disk : \E k \in DOMAIN Rows(g) : k <= disk'[g].gone /\ Rows(g)[k] = m
      BY <1>10, <1>21
    <2>5. QED
      BY <1>1, <1>16, <2>1, <2>3, <2>4, OnePlaceKept
  (* No other open object reads the file.                                    *)
  <1>23. \A j \in Objects : Open(j) /\ j # r /\ FileOf(j) = f => db[j].next = <<>> /\ db[j].selected = <<>>
    <2>1. SUFFICES ASSUME NEW j \in Objects, Open(j), j # r, FileOf(j) = f, db[j].reads PROVE FALSE
      BY <1>1 DEF OneReader
    <2>2. ~There(f)
      BY <1>1, <1>4, <2>1 DEF OneReader
    <2>3. db[j].callback /\ db[r].callback
      BY <1>1, <1>3, <1>4, <2>1, <2>2 DEF OneReader
    <2>4. QED
      BY <1>1, <1>4, <2>1, <2>3 DEF OneReader
  <1>24. Fetches'
    <2>1. ASSUME NEW j \in Objects, NEW s \in {db[j].next, db[j].selected}
          PROVE  Answer(s, disk'[FileOf(j)].gone, Len(disk'[FileOf(j)].rows))
      <3>1. Answer(s, Gone(FileOf(j)), Len(Rows(FileOf(j)))) /\ s \in Seq(Nat)
        BY <1>1, ObjectFields DEF Fetches, FromFile, SqliteTypeOK
      <3>2. PICK g \in DOMAIN disk : g = FileOf(j)
        BY <1>18
      <3>3. Gone(g) \in Nat /\ Len(Rows(g)) \in Nat /\ disk'[g].gone \in Nat /\ Gone(g) <= disk'[g].gone
            /\ Len(disk'[g].rows) = Len(Rows(g))
        BY <1>1, <1>7, <1>13, <1>14, <1>15, FileFields DEF SqliteTypeOK
      <3>4. Answer(s, Gone(g), Len(Rows(g))) /\ s \in Seq(Nat)
        BY <3>1, <3>2, Zenon
      <3>5. Answer(s, disk'[g].gone, Len(Rows(g)))
        <4>1. Len(Rows(g)) <= Len(Rows(g))
          BY <3>3
        <4>2. QED
          BY <3>3, <3>4, <4>1, AnswerLater
      <3>6. QED
        BY <3>2, <3>3, <3>5, Zenon
    <2>2. \A j \in DOMAIN db' : FromFile(db[j].next, FileOf(j))' /\ FromFile(db[j].selected, FileOf(j))'
      <3>1. TAKE j \in DOMAIN db'
      <3>2. j \in Objects /\ db'[j] = db[j]
        BY <1>10, <1>17
      <3>3. /\ Answer(db[j].next, disk'[FileOf(j)].gone, Len(disk'[FileOf(j)].rows))
            /\ Answer(db[j].selected, disk'[FileOf(j)].gone, Len(disk'[FileOf(j)].rows))
        BY <2>1, <3>2
      <3>4. QED
        BY <1>18, <3>2, <3>3 DEF FromFile, Gone, Rows
    <2>3. ASSUME NEW j \in DOMAIN db', Open(j)', ~(sender' = "deleted" /\ j = readDb'),
                 NEW k \in Elements(db'[j].next) \cup Elements(db'[j].selected), k <= Gone(FileOf(j))'
          PROVE  Rows(FileOf(j))'[k] \in inFlight'
      <3>1. j \in Objects /\ Open(j) /\ j # r /\ k \in Elements(db[j].next) \cup Elements(db[j].selected)
        BY <1>4, <1>10, <1>17, <1>18, <2>3
      <3>2. FileOf(j) # f
        BY <1>23, <3>1 DEF Elements
      <3>3. Gone(FileOf(j))' = Gone(FileOf(j)) /\ Rows(FileOf(j))' = Rows(FileOf(j))
        BY <1>13, <1>18, <3>1, <3>2 DEF Gone, Rows
      <3>4. Rows(FileOf(j))[k] \in inFlight
        BY <1>1, <1>2, <2>3, <3>1, <3>3 DEF Fetches
      <3>5. QED
        BY <1>10, <3>3, <3>4
    <2>4. QED
      BY <2>2, <2>3 DEF Fetches, Objects
  <1>25. Packs'
    <2>1. deletePoint' <= Gone(FileOf(readDb))'
      BY <1>4, <1>8, <1>10, <1>14, <1>18 DEF Gone
    <2>2. QED
      BY <1>1, <1>10, <2>1 DEF Packs
  <1>26. Drains'
    BY <1>1, <1>2, <1>10 DEF Drains, Objects
  <1>27. Rotation'
    BY <1>1, <1>2, <1>10 DEF Rotation, Objects
  <1>28. SqliteTypeOK'
    <2>1. Elements(pack) \subseteq Messages
      BY <1>1, ElementOfSeq, LenProperties DEF Elements, SqliteTypeOK
    <2>2. pack' \in Seq(Messages)
      BY <1>10, EmptySeq
    <2>3. QED
      BY <1>1, <1>10, <1>12, <2>1, <2>2 DEF SqliteTypeOK
  <1>29. AllLocated'
    <2>1. ASSUME NEW m \in 1 .. accepted, Located(m) PROVE Located(m)'
      <3>1. CASE m \in Elements(queue) \/ (\E j \in Objects : m \in Elements(db[j].batch)) \/ m \in done \/ \E p \in lost : p[1] = m
        BY <1>10, <3>1 DEF Located, Objects
      <3>2. CASE \E g \in DOMAIN disk : There(g) /\ \E k \in DOMAIN Rows(g) : k > Gone(g) /\ Rows(g)[k] = m
        <4>1. PICK g \in DOMAIN disk : There(g) /\ \E k \in DOMAIN Rows(g) : k > Gone(g) /\ Rows(g)[k] = m
          BY <3>2
        <4>2. PICK k \in DOMAIN Rows(g) : k > Gone(g) /\ Rows(g)[k] = m
          BY <4>1
        <4>3. CASE g = f /\ k <= z
          <5>1. k \in Gone(f) + 1 .. deletePoint
            BY <1>5, <1>7, <4>2, <4>3
          <5>2. m \in done'
            BY <1>6, <1>10, <4>2, <4>3, <5>1
          <5>3. QED
            BY <5>2 DEF Located
        <4>4. CASE ~(g = f /\ k <= z)
          <5>1. g \in DOMAIN disk' /\ There(g)' /\ Rows(g)' = Rows(g)
            BY <1>12, <1>13, <4>1 DEF There, Rows
          <5>2. k > Gone(g)'
            <6>1. CASE g = f
              <7>1. k \in Nat
                BY <1>1, <4>2, MessagesInHands
              <7>2. QED
                BY <1>7, <1>14, <4>4, <6>1, <7>1 DEF Gone
            <6>2. CASE g # f
              BY <1>13, <4>2, <6>2 DEF Gone
            <6>3. QED
              BY <6>1, <6>2
          <5>3. QED
            BY <4>2, <5>1, <5>2 DEF Located
        <4>5. QED
          BY <4>3, <4>4
      <3>3. QED
        BY <2>1, <3>1, <3>2 DEF Located
    <2>2. QED
      BY <1>1, <1>10, <2>1 DEF AllLocated
  <1>30. QED
    BY <1>19, <1>20, <1>22, <1>24, <1>25, <1>26, <1>27, <1>28, <1>29 DEF IInv

(* list.remove(): the rest of a list without repetitions.                   *)
LEMMA RemovedIs ==
    ASSUME NEW s \in Seq(Nat), \A k, l \in DOMAIN s : s[k] = s[l] => k = l, NEW e \in Elements(s)
    PROVE  /\ Removed(s, e) \in Seq(Nat)
           /\ \A k, l \in DOMAIN Removed(s, e) : Removed(s, e)[k] = Removed(s, e)[l] => k = l
           /\ Elements(Removed(s, e)) = Elements(s) \ {e}
  <1>1. Len(s) \in Nat /\ DOMAIN s = 1 .. Len(s) /\ \A k \in 1 .. Len(s) : s[k] \in Nat
    BY LenProperties, ElementOfSeq
  <1>0. PICK n \in Nat : n = Len(s)
    BY <1>1
  <1>2. PICK at \in 1 .. n : n = Len(s) /\ at = CHOOSE k \in DOMAIN s : s[k] = e
    <2>1. \E k \in DOMAIN s : s[k] = e
      BY DEF Elements
    <2>2. (CHOOSE k \in DOMAIN s : s[k] = e) \in DOMAIN s
      BY <2>1
    <2>3. QED
      BY <1>1, <1>0, <2>2
  <1>3. s[at] = e
    BY <1>2 DEF Elements
  <1> DEFINE t == [k \in 1 .. n - 1 |-> IF k < at THEN s[k] ELSE s[k + 1]]
  <1>4. Removed(s, e) = t
    BY <1>2 DEF Removed
  <1>5. n - 1 \in Nat /\ at \in Nat /\ at <= n
    BY <1>2
  <1>6. DOMAIN t = 1 .. n - 1 /\ \A k \in 1 .. n - 1 :
            /\ k < at => t[k] = s[k] /\ k \in 1 .. n /\ k # at
            /\ ~(k < at) => t[k] = s[k + 1] /\ k + 1 \in 1 .. n /\ k + 1 # at
    BY <1>5
  <1>7. t \in Seq(Nat)
    <2>1. \A k \in 1 .. n - 1 : t[k] \in Nat
      BY <1>1, <1>2, <1>6
    <2>2. t \in [1 .. n - 1 -> Nat]
      BY <2>1
    <2>3. QED
      BY <1>5, <2>2
  <1> HIDE DEF t
  <1>8. ASSUME NEW k \in 1 .. n - 1
        PROVE  \E a \in 1 .. n : t[k] = s[a] /\ a # at /\ (k < at => a = k) /\ (~(k < at) => a = k + 1)
    <2>1. CASE k < at
      BY <1>6, <2>1
    <2>2. CASE ~(k < at)
      <3>1. t[k] = s[k + 1] /\ k + 1 \in 1 .. n /\ k + 1 # at
        BY <1>6, <2>2
      <3>2. QED
        BY <2>2, <3>1
    <2>3. QED
      BY <2>1, <2>2
  <1>9. ASSUME NEW k \in 1 .. n - 1, NEW l \in 1 .. n - 1, t[k] = t[l] PROVE k = l
    <2>1. PICK a \in 1 .. n : t[k] = s[a] /\ (k < at => a = k) /\ (~(k < at) => a = k + 1)
      BY <1>8
    <2>2. PICK c \in 1 .. n : t[l] = s[c] /\ (l < at => c = l) /\ (~(l < at) => c = l + 1)
      BY <1>8
    <2>3. a = c
      BY <1>0, <1>1, <1>9, <2>1, <2>2
    <2>4. QED
      BY <1>5, <2>1, <2>2, <2>3
  <1>10. Elements(s) = {s[a] : a \in 1 .. n} /\ Elements(t) = {t[k] : k \in 1 .. n - 1}
    BY <1>0, <1>1, <1>6 DEF Elements
  <1>11. ASSUME NEW k \in 1 .. n - 1 PROVE t[k] \in Elements(s) \ {e}
    <2>1. PICK a \in 1 .. n : t[k] = s[a] /\ a # at
      BY <1>8
    <2>2. s[a] # e
      BY <1>0, <1>1, <1>3, <2>1
    <2>3. QED
      BY <1>10, <2>1, <2>2
  <1>12. ASSUME NEW a \in 1 .. n, s[a] # e PROVE s[a] \in Elements(t)
    <2>1. CASE a < at
      <3>1. a \in 1 .. n - 1
        BY <1>5, <2>1
      <3>2. t[a] = s[a]
        BY <1>6, <2>1, <3>1
      <3>3. QED
        BY <1>10, <3>1, <3>2
    <2>2. CASE a > at
      <3>1. a - 1 \in 1 .. n - 1 /\ ~(a - 1 < at) /\ (a - 1) + 1 = a
        BY <1>5, <2>2
      <3>2. t[a - 1] = s[a]
        BY <1>6, <3>1
      <3>3. QED
        BY <1>10, <3>1, <3>2
    <2>3. a # at
      BY <1>3, <1>12
    <2>4. QED
      BY <1>5, <2>1, <2>2, <2>3
  <1>13. Elements(t) = Elements(s) \ {e}
    <2>1. Elements(t) \subseteq Elements(s) \ {e}
      BY <1>10, <1>11
    <2>2. Elements(s) \ {e} \subseteq Elements(t)
      BY <1>10, <1>12
    <2>3. QED
      BY <2>1, <2>2
  <1>14. QED
    BY <1>4, <1>6, <1>7, <1>9, <1>13

LEMMA DeleteDbFilesKeeps ==
    ASSUME IInv, DeleteDbFiles
    PROVE  IInv'
  <1>1. SqliteTypeOK /\ Structure /\ Rotation /\ OneReader /\ OnePlace /\ Fetches /\ Packs /\ Drains /\ AllLocated
    BY DEF IInv
  <1>2. sender = "remove" /\ readDb # 0 /\ readDb \in Objects /\ There(FileOf(readDb)) /\ ~Open(readDb)
    BY <1>1, Numbers DEF DeleteDbFiles, Rotation
  <1>3. PICK r \in Objects, f \in DOMAIN disk : r = readDb /\ f = FileOf(r)
    BY <1>1, <1>2 DEF Structure
  <1>4. Rows(f) \in Seq(Messages) /\ Len(Rows(f)) \in Nat /\ DOMAIN Rows(f) = 1 .. Len(Rows(f)) /\ Gone(f) \in Nat
        /\ Gone(f) <= Len(Rows(f)) /\ disk \in Seq(DiskFile) /\ disk[f] \in DiskFile
    BY <1>1, FileFields DEF SqliteTypeOK, Structure
  <1> DEFINE y == [disk[f] EXCEPT !.there = FALSE]
             known == {p[1] : p \in lost}
  <1>5. /\ disk' = [disk EXCEPT ![f] = y] /\ files' = Removed(files, f)
        /\ lost' = lost \cup ((Unread(f) \ known) \X {"late"}) /\ sender' = "reopen"
        /\ UNCHANGED <<queue, db, readDb, writeDb, isMax, stopped, pack, deletePoint, crashes, accepted,
                       done, reread, inFlight, drained>>
    BY <1>3 DEF DeleteDbFiles, FileOf
  <1>6. y \in DiskFile /\ y.rows = Rows(f) /\ y.gone = Gone(f) /\ y.there = FALSE
    BY <1>4 DEF DiskFile, Rows, Gone
  <1> HIDE DEF y
  <1>7. /\ disk' \in Seq(DiskFile) /\ DOMAIN disk' = DOMAIN disk /\ Len(disk') = Len(disk)
        /\ disk'[f] = y /\ \A g \in DOMAIN disk : g # f => disk'[g] = disk[g]
    BY <1>4, <1>5, <1>6, Updated
  <1>8. /\ \A g \in DOMAIN disk : disk'[g].rows = Rows(g) /\ disk'[g].gone = Gone(g) /\ (g # f => (disk'[g].there <=> There(g)))
        /\ ~disk'[f].there
    BY <1>6, <1>7 DEF Rows, Gone, There
  <1>9. \A g \in DOMAIN disk : disk'[g].there => There(g)
    BY <1>8
  <1>10. FilesKept /\ RowsKept
    <2>1. \A g \in DOMAIN disk : Gone(g) \in Nat /\ Len(Rows(g)) \in Nat /\ Gone(g) <= Len(Rows(g))
      BY <1>1, FileFields DEF SqliteTypeOK, Structure
    <2>2. Len(disk) \in Nat
      BY <1>4, LenProperties
    <2>3. QED
      BY <1>7, <1>8, <1>9, <2>1, <2>2 DEF FilesKept, RowsKept
  <1>11. ObjectsKept /\ HandsKept /\ DOMAIN db' = Objects
    BY <1>1, <1>5, NothingMoves
  <1>12. \A j \in Objects : FileOf(j)' = FileOf(j) /\ FileOf(j) \in DOMAIN disk /\ (Open(j)' <=> Open(j)) /\ db'[j] = db[j]
    BY <1>1, <1>5 DEF FileOf, Open, Structure
  <1>13. /\ files \in Seq(Nat) /\ f \in Elements(files) /\ files' \in Seq(Nat)
         /\ \A k, l \in DOMAIN files' : files'[k] = files'[l] => k = l
         /\ Elements(files') = Elements(files) \ {f}
    <2>1. files \in Seq(Nat) /\ f \in Elements(files) /\ \A k, l \in DOMAIN files : files[k] = files[l] => k = l
      BY <1>1, <1>2, <1>3 DEF Structure
    <2>2. QED
      BY <1>5, <2>1, RemovedIs
  <1>14. Structure'
    <2>1. \A g \in DOMAIN disk' : There(g)' <=> g \in Elements(files')
      BY <1>1, <1>7, <1>8, <1>13 DEF Structure, There
    <2>2. \A g \in DOMAIN disk' : Gone(g)' <= Len(Rows(g)')
      BY <1>7, <1>10 DEF FilesKept, Gone, Rows
    <2>3. db' # <<>> /\ \A j \in DOMAIN db' : FileOf(j)' \in DOMAIN disk'
      BY <1>1, <1>5, <1>7, <1>11, <1>12 DEF Structure
    <2>4. QED
      BY <1>13, <2>1, <2>2, <2>3 DEF Structure, Objects
  <1>15. OneReader'
    <2>1. \A j \in DOMAIN db' : Open(j)' => db'[j].callback \/ There(FileOf(j))'
      <3>1. SUFFICES ASSUME NEW j \in Objects, Open(j), ~db[j].callback PROVE There(FileOf(j))'
        BY <1>11, <1>12
      <3>2. There(FileOf(j)) /\ db[j].reads
        BY <1>1, <3>1 DEF OneReader
      <3>3. j = readDb => FALSE
        BY <1>2, <3>1
      <3>4. FileOf(j) # f
        BY <1>1, <3>1, <3>2, <3>3 DEF OneReader
      <3>5. QED
        BY <1>8, <1>12, <3>2, <3>4 DEF There
    <2>2. \A j \in DOMAIN db' : Open(j)' /\ db'[j].reads /\ There(FileOf(j))' => j = readDb'
      BY <1>1, <1>5, <1>9, <1>11, <1>12 DEF OneReader, There
    <2>3. QED
      BY <1>1, <1>5, <2>1, <2>2 DEF OneReader, Objects, FileOf
  <1>16. OnePlace'
    <2>1. BatchesKept
      BY <1>5 DEF BatchesKept, Objects
    <2>2. Left \in Int /\ Len(queue) \in Nat /\ accepted \in Nat
      BY <1>1, LenProperties DEF Left, SqliteTypeOK
    <2>3. /\ Len(queue') <= accepted' /\ \A k \in DOMAIN queue' : queue'[k] = accepted' - Len(queue') + k
          /\ Len(queue') \in Nat /\ accepted' \in Nat /\ Left <= accepted' - Len(queue') /\ done' \ done = {}
      BY <1>1, <1>5, <2>2 DEF OnePlace, Left
    <2>4. QED
      BY <1>1, <1>10, <2>1, <2>3, OnePlaceKept
  <1>17. Fetches'
    <2>1. \A j \in Objects : ReadsKept(j)
      BY <1>5 DEF ReadsKept
    <2>2. QED
      BY <1>1, <1>2, <1>5, <1>8, <1>10, <1>11, <2>1, FetchesKept
  <1>18. Packs'
    <2>1. sender # "got" /\ sender' # "got"
      BY <1>2, <1>5
    <2>2. QED
      BY <1>1, <1>5, <1>8, <1>10, <1>11, <2>1, PacksKept
  <1>19. Elements(RowIds(f)) = Gone(f) + 1 .. Len(Rows(f)) /\ Unread(f) = {Rows(f)[k] : k \in Gone(f) + 1 .. Len(Rows(f))}
    BY <1>1, RowIdsAre DEF Unread, Rows
  <1>20. Unread(f) \subseteq Messages
    <2>1. Gone(f) + 1 .. Len(Rows(f)) \subseteq DOMAIN Rows(f)
      BY <1>4
    <2>2. QED
      BY <1>1, <1>19, <2>1, MessagesInHands
  <1>21. lost \subseteq lost' /\ lost' \subseteq Messages \X {"crash", "held", "unlinked", "late", "closed", "unread"}
         /\ \A p \in lost' \ lost : p[2] # "unread"
    BY <1>1, <1>5, <1>20 DEF SqliteTypeOK
  <1>22. Drains'
    <2>1. \A p \in lost' : p[2] # "unread"
      BY <1>1, <1>21 DEF Drains
    <2>2. \A j \in DOMAIN db' : db'[j].closed => db'[j].stop \/ stopped'
      BY <1>1, <1>5 DEF Drains, Objects
    <2>3. QED
      BY <1>5, <2>1, <2>2 DEF Drains, Objects
  <1>23. Rotation'
    <2>1. ~There(FileOf(readDb))'
      BY <1>3, <1>5, <1>8, <1>12 DEF There
    <2>2. QED
      BY <1>1, <1>2, <1>5, <2>1 DEF Rotation, Objects
  <1>24. SqliteTypeOK'
    BY <1>1, <1>5, <1>7, <1>13, <1>21 DEF SqliteTypeOK
  <1>25. AllLocated'
    <2>1. ASSUME NEW m \in 1 .. accepted, Located(m) PROVE Located(m)'
      <3>1. CASE m \in Elements(queue) \/ (\E j \in Objects : m \in Elements(db[j].batch)) \/ m \in done \/ \E p \in lost : p[1] = m
        BY <1>5, <1>21, <3>1 DEF Located, Objects
      <3>2. CASE \E g \in DOMAIN disk : There(g) /\ \E k \in DOMAIN Rows(g) : k > Gone(g) /\ Rows(g)[k] = m
        <4>1. PICK g \in DOMAIN disk : There(g) /\ \E k \in DOMAIN Rows(g) : k > Gone(g) /\ Rows(g)[k] = m
          BY <3>2
        <4>2. PICK k \in DOMAIN Rows(g) : k > Gone(g) /\ Rows(g)[k] = m
          BY <4>1
        <4>3. CASE g = f
          <5>1. k \in Gone(f) + 1 .. Len(Rows(f))
            BY <1>4, <4>2, <4>3
          <5>2. m \in Unread(f)
            BY <1>19, <4>2, <4>3, <5>1
          <5>3. CASE m \in known
            BY <1>21, <5>3 DEF Located
          <5>4. CASE m \notin known
            <6>1. <<m, "late">> \in lost' /\ <<m, "late">>[1] = m
              BY <1>5, <5>2, <5>4
            <6>2. QED
              BY <6>1 DEF Located
          <5>5. QED
            BY <5>3, <5>4
        <4>4. CASE g # f
          <5>1. g \in DOMAIN disk' /\ There(g)' /\ Rows(g)' = Rows(g) /\ Gone(g)' = Gone(g)
            BY <1>7, <4>1, <4>4 DEF There, Rows, Gone
          <5>2. QED
            BY <4>2, <5>1 DEF Located
        <4>5. QED
          BY <4>3, <4>4
      <3>3. QED
        BY <2>1, <3>1, <3>2 DEF Located
    <2>2. QED
      BY <1>1, <1>5, <2>1 DEF AllLocated
  <1>26. QED
    BY <1>14, <1>15, <1>16, <1>17, <1>18, <1>22, <1>23, <1>24, <1>25 DEF IInv

(* The next file is opened: nothing moves, and the read database changes.   *)
LEMMA Reopened ==
    ASSUME IInv, sender = "reopen", ObjectsKept, HandsKept, OneReader',
           UNCHANGED <<queue, disk, files, writeDb, isMax, stopped, pack, history>>,
           deletePoint' = 0, sender' \in {"count", "idle"}, readDb' \in 0 .. Len(db'), sender' = "count" => readDb' # 0,
           \A i \in Objects : db'[i].pc = db[i].pc
    PROVE  IInv'
  <1>1. SqliteTypeOK /\ Structure /\ Rotation /\ OneReader /\ OnePlace /\ Fetches /\ Packs /\ Drains /\ AllLocated
    BY DEF IInv
  <1>2. /\ FilesKept /\ DOMAIN disk' = DOMAIN disk /\ RowsKept
        /\ \A f \in DOMAIN disk : disk'[f].gone = Gone(f) /\ (There(f) => There(f)') /\ (disk'[f].there <=> There(f))
    BY <1>1, NothingMoves DEF Structure, Gone, There, Rows, RowsKept
  <1>3. /\ Objects \subseteq DOMAIN db' /\ db' \in Seq(DatabaseObject) /\ Len(db') \in Nat /\ Len(db) \in Nat
        /\ Len(db) <= Len(db') /\ Len(db') <= MaxDatabases /\ DOMAIN db' = 1 .. Len(db')
    BY <1>1, <1>2, Later, LenProperties DEF ObjectsKept, SqliteTypeOK
  <1>4. SqliteTypeOK'
    <2>1. writeDb \in 0 .. Len(db) /\ writeDb \in 0 .. Len(db')
      BY <1>1, <1>3 DEF SqliteTypeOK
    <2>2. QED
      BY <1>1, <1>3, <2>1 DEF SqliteTypeOK, history
  <1>5. Structure'
    BY <1>1, <1>2, StructureKept
  <1>6. Rotation'
    <2>1. ASSUME writeDb' = 0 PROVE \E i \in DOMAIN db' : db'[i].pc = "start"
      BY <1>1, <1>3, <2>1 DEF Rotation
    <2>2. QED
      BY <2>1 DEF Rotation, Objects
  <1>7. OnePlace'
    <2>1. BatchesKept
      BY DEF HandsKept, SameHands, BatchesKept, ObjectsKept
    <2>2. Left \in Int /\ Len(queue) \in Nat /\ accepted \in Nat
      BY <1>1, LenProperties DEF Left, SqliteTypeOK
    <2>3. /\ Len(queue') <= accepted' /\ \A k \in DOMAIN queue' : queue'[k] = accepted' - Len(queue') + k
          /\ Len(queue') \in Nat /\ accepted' \in Nat /\ Left <= accepted' - Len(queue') /\ done' \ done = {}
      BY <1>1, <2>2 DEF OnePlace, Left, history
    <2>4. QED
      BY <1>1, <1>2, <2>1, <2>3, OnePlaceKept
  <1>8. Fetches'
    BY <1>1, <1>2, FetchesKept DEF HandsKept, SameHands, ReadsKept, history
  <1>9. Packs'
    <2>1. ASSUME readDb' # 0 PROVE deletePoint' <= Gone(FileOf(readDb))'
      <3>1. PICK i \in DOMAIN db' : i = readDb'
        BY <1>3, <2>1
      <3>2. FileOf(i)' \in DOMAIN disk'
        BY <1>5, <3>1 DEF Structure, Objects
      <3>3. Gone(FileOf(i))' \in Nat
        BY <1>1, <1>2, <3>2, Later
      <3>4. QED
        BY <3>1, <3>3 DEF FileOf, Gone
    <2>2. reread' \subseteq inFlight'
      BY <1>1 DEF Packs, history
    <2>3. sender' # "got"
      OBVIOUS
    <2>4. QED
      BY <2>1, <2>2, <2>3 DEF Packs
  <1>10. Drains'
    <2>1. \A i \in DOMAIN db' : db'[i].closed => db'[i].stop \/ stopped'
      BY <1>1 DEF Drains, ObjectsKept, Follows
    <2>2. \A p \in lost' : p[2] # "unread"
      BY <1>1 DEF Drains, history
    <2>3. sender' \notin {"got", "deleted", "prepared", "cleanup", "start", "finalize"}
      OBVIOUS
    <2>4. QED
      BY <2>1, <2>2, <2>3 DEF Drains, Objects
  <1>11. AllLocated'
    <2>1. \A i \in Objects : db'[i].batch = db[i].batch
      BY DEF HandsKept, SameHands
    <2>2. accepted' = accepted /\ done \subseteq done' /\ lost \subseteq lost' /\ Elements(queue) \subseteq Elements(queue')
      BY DEF history
    <2>3. QED
      BY <1>1, <1>2, <2>1, <2>2, LocatedKept
  <1>12. QED
    BY <1>4, <1>5, <1>6, <1>7, <1>8, <1>9, <1>10, <1>11 DEF IInv

LEMMA ReopenReadDatabaseKeeps ==
    ASSUME IInv, ReopenReadDatabase
    PROVE  IInv'
  <1>1. SqliteTypeOK /\ Structure /\ Rotation /\ OneReader
    BY DEF IInv
  <1>2. /\ sender = "reopen" /\ deletePoint' = 0
        /\ UNCHANGED <<queue, disk, files, writeDb, isMax, stopped, pack, history>>
    BY DEF ReopenReadDatabase
  <1>3. \A i \in Objects : ~(Open(i) /\ db[i].reads /\ There(FileOf(i)))
    BY <1>1, <1>2 DEF OneReader, Rotation
  <1>4. FilesKept /\ \A i \in Objects : FileOf(i) \in DOMAIN disk
    BY <1>1, <1>2, NothingMoves DEF Structure
  <1>5. CASE Len(files) > 1
    <2> DEFINE x == Database(files[1], TRUE, FALSE, FALSE)
    <2>1. PICK n \in Nat \ {0} : n = Len(db) + 1
      BY <1>1, Numbers
    <2>2. db' = Append(db, x) /\ readDb' = n /\ sender' = "count" /\ Len(db) < MaxDatabases
      BY <1>5, <2>1 DEF ReopenReadDatabase
    <2>3. files[1] \in DOMAIN disk /\ There(files[1]) /\ files[1] \in Nat
      <3>1. 1 \in DOMAIN files /\ files \in Seq(Nat)
        BY <1>1, <1>5, LenProperties DEF Structure
      <3>2. files[1] \in Elements(files)
        BY <3>1 DEF Elements
      <3>3. QED
        BY <1>1, <3>1, <3>2, ElementOfSeq DEF SqliteTypeOK, Structure
    <2>4. x \in DatabaseObject /\ x.file = files[1] /\ x.reads = TRUE /\ x.callback = FALSE /\ x.closed = FALSE
          /\ x.next = <<>> /\ x.selected = <<>> /\ x.batch = <<>>
      BY <2>3, EmptySeq DEF Database, DatabaseObject
    <2> HIDE DEF x
    <2>5. \A i \in Objects : Follows(db[i], db[i]) /\ SameHands(db[i], db[i])
      BY DEF Follows, SameHands
    <2>6. /\ ObjectsKept /\ HandsKept /\ DOMAIN db' = Objects \cup {n} /\ n \notin Objects
          /\ db'[n] = x /\ \A i \in Objects : db'[i] = db[i]
      <3>1. db \in Seq(DatabaseObject) /\ x.file \in DOMAIN disk'
        BY <1>1, <1>2, <2>3, <2>4 DEF SqliteTypeOK
      <3>2. QED
        BY <1>1, <2>1, <2>2, <2>4, <2>5, <3>1, OneAdded
    <2>7. OneReader'
      <3>1. \A i \in Objects : FileOf(i)' = FileOf(i) /\ (Open(i)' <=> Open(i)) /\ db'[i] = db[i]
        BY <2>6 DEF FileOf, Open
      <3>2. FileOf(n)' = files[1] /\ ~db'[n].callback /\ db'[n].reads
        BY <2>4, <2>6 DEF FileOf
      <3>3. \A f \in DOMAIN disk : There(f)' <=> There(f)
        BY <1>2 DEF There
      <3>4. \A i, j \in DOMAIN db' : db'[i].callback /\ db'[j].callback /\ FileOf(i)' = FileOf(j)' => i = j
        BY <1>1, <2>6, <3>1, <3>2 DEF OneReader
      <3>5. \A i \in DOMAIN db' : db'[i].callback \/ db'[i].reads
        BY <1>1, <2>6, <3>1, <3>2 DEF OneReader
      <3>6. \A i \in DOMAIN db' : Open(i)' => db'[i].callback \/ There(FileOf(i))'
        BY <1>1, <1>4, <2>3, <2>6, <3>1, <3>2, <3>3 DEF OneReader
      <3>7. \A i \in DOMAIN db' : Open(i)' /\ db'[i].reads /\ There(FileOf(i))' => i = readDb'
        BY <1>3, <1>4, <2>2, <2>6, <3>1, <3>3
      <3>8. \A i \in DOMAIN db' : db'[i].reads \/ (db'[i].next = <<>> /\ db'[i].selected = <<>>)
        BY <1>1, <2>6, <3>1, <3>2 DEF OneReader
      <3>9. QED
        BY <3>4, <3>5, <3>6, <3>7, <3>8 DEF OneReader, Objects
    <2>8. readDb' \in 0 .. Len(db') /\ readDb' # 0
      <3>1. Len(db') \in Nat /\ DOMAIN db' = 1 .. Len(db')
        BY <2>6, LenProperties DEF ObjectsKept
      <3>2. QED
        BY <2>1, <2>2, <2>6, <3>1
    <2>9. QED
      BY <1>2, <2>2, <2>6, <2>7, <2>8, Reopened
  <1>6. CASE ~(Len(files) > 1)
    <2>1. /\ readDb' = writeDb /\ db' = (IF writeDb = 0 THEN db ELSE [db EXCEPT ![writeDb].reads = TRUE])
          /\ sender' = IF writeDb = 0 THEN "idle" ELSE "count"
      BY <1>6 DEF ReopenReadDatabase
    <2>2. /\ ObjectsKept /\ HandsKept /\ DOMAIN db' = Objects
          /\ \A i \in Objects : /\ db'[i].pc = db[i].pc /\ (db'[i].reads <=> db[i].reads \/ i = writeDb)
                                /\ (Open(i)' <=> Open(i)) /\ FileOf(i)' = FileOf(i)
                                /\ (db'[i].callback <=> db[i].callback)
                                /\ db'[i].next = db[i].next /\ db'[i].selected = db[i].selected
      <3>1. CASE writeDb = 0
        <4>1. db' = db /\ \A i \in Objects : i # writeDb
          BY <1>1, <2>1, <3>1, Numbers
        <4>2. QED
          BY <1>1, <4>1, NothingMoves DEF Open, FileOf
      <3>2. CASE writeDb # 0
        <4>1. PICK w \in Objects : w = writeDb
          BY <1>1, <3>2, Numbers
        <4> DEFINE x == [db[w] EXCEPT !.reads = TRUE]
        <4>2. db' = [db EXCEPT ![w] = x]
          BY <2>1, <3>2, <4>1
        <4>3. db[w] \in DatabaseObject
          BY <1>1, ObjectFields DEF SqliteTypeOK
        <4>4. x \in DatabaseObject /\ Follows(db[w], x) /\ SameHands(db[w], x) /\ x.reads = TRUE /\ x.pc = db[w].pc
              /\ x.stop = db[w].stop /\ x.closed = db[w].closed /\ x.file = db[w].file /\ x.callback = db[w].callback
              /\ x.next = db[w].next /\ x.selected = db[w].selected
          BY <4>3 DEF DatabaseObject, Follows, SameHands
        <4> HIDE DEF x
        <4>5. ObjectsKept /\ HandsKept /\ DOMAIN db' = Objects /\ db'[w] = x /\ \A i \in Objects : i # w => db'[i] = db[i]
          BY <1>1, <4>2, <4>4, OneFollows
        <4>6. ASSUME NEW i \in Objects
              PROVE  /\ db'[i].pc = db[i].pc /\ (db'[i].reads <=> db[i].reads \/ i = writeDb)
                     /\ (Open(i)' <=> Open(i)) /\ FileOf(i)' = FileOf(i) /\ (db'[i].callback <=> db[i].callback)
                     /\ db'[i].next = db[i].next /\ db'[i].selected = db[i].selected
          <5>1. CASE i = w
            BY <4>1, <4>4, <4>5, <5>1 DEF Open, FileOf
          <5>2. CASE i # w
            BY <4>1, <4>5, <5>2 DEF Open, FileOf
          <5>3. QED
            BY <5>1, <5>2
        <4>7. QED
          BY <4>5, <4>6
      <3>3. QED
        BY <3>1, <3>2
    <2>3. OneReader'
      <3>1. \A f \in DOMAIN disk : There(f)' <=> There(f)
        BY <1>2 DEF There
      <3>2. \A i, j \in DOMAIN db' : db'[i].callback /\ db'[j].callback /\ FileOf(i)' = FileOf(j)' => i = j
        BY <1>1, <2>2 DEF OneReader
      <3>3. \A i \in DOMAIN db' : db'[i].callback \/ db'[i].reads
        BY <1>1, <2>2 DEF OneReader
      <3>4. \A i \in DOMAIN db' : Open(i)' => db'[i].callback \/ There(FileOf(i))'
        BY <1>1, <1>4, <2>2, <3>1 DEF OneReader
      <3>5. \A i \in DOMAIN db' : Open(i)' /\ db'[i].reads /\ There(FileOf(i))' => i = readDb'
        BY <1>3, <1>4, <2>1, <2>2, <3>1
      <3>6. \A i \in DOMAIN db' : db'[i].reads \/ (db'[i].next = <<>> /\ db'[i].selected = <<>>)
        BY <1>1, <2>2 DEF OneReader
      <3>7. QED
        BY <3>2, <3>3, <3>4, <3>5, <3>6 DEF OneReader, Objects
    <2>4. readDb' \in 0 .. Len(db') /\ sender' \in {"count", "idle"} /\ (sender' = "count" => readDb' # 0)
      <3>1. Len(db') \in Nat /\ DOMAIN db' = 1 .. Len(db')
        BY <2>2, LenProperties DEF ObjectsKept
      <3>2. writeDb # 0 => writeDb \in 1 .. Len(db')
        BY <1>1, <2>2, <3>1, Numbers
      <3>3. QED
        BY <2>1, <3>1, <3>2
    <2>5. QED
      BY <1>2, <2>2, <2>3, <2>4, Reopened
  <1>7. QED
    BY <1>5, <1>6

(* __start_write_database(), on objects o that may have changed their place *)
(* in the loop only.                                                        *)
LEMMA Started ==
    ASSUME IInv, NEW o \in Seq(DatabaseObject), Len(o) = Len(db), StartWriteDatabase(o),
           \A i \in Objects : /\ Follows(db[i], o[i]) /\ SameHands(db[i], o[i])
                              /\ o[i].reads = db[i].reads /\ o[i].stop = db[i].stop /\ o[i].closed = db[i].closed,
           UNCHANGED <<queue, readDb, stopped, pack, deletePoint, history>>, isMax' \in BOOLEAN,
           sender' = sender \/ (sender = "start" /\ sender' = "finalize") \/ (sender = "count" /\ sender' = "idle")
    PROVE  IInv'
  <1>1. SqliteTypeOK /\ Structure /\ Rotation /\ OneReader /\ OnePlace /\ Fetches /\ Packs /\ Drains /\ AllLocated
    BY DEF IInv
  <1>2. disk \in Seq(DiskFile) /\ Len(disk) \in Nat /\ DOMAIN disk = 1 .. Len(disk)
        /\ files \in Seq(Nat) /\ Elements(files) \subseteq DOMAIN disk
    BY <1>1, LenProperties DEF SqliteTypeOK, Structure
  <1>3. PICK n \in Nat \ {0} : n = Len(db) + 1
    BY <1>1, Numbers
  <1>4. PICK f \in Nat \ {0} : f = Len(disk) + 1
    BY <1>2
  <1> DEFINE x == Database(f, FALSE, TRUE, TRUE)
  <1>5. /\ Len(o) < MaxDatabases /\ disk' = Append(disk, NewFile) /\ db' = Append(o, x)
        /\ writeDb' = n /\ files' = Append(files, f)
    BY <1>3, <1>4 DEF StartWriteDatabase
  <1>6. x \in DatabaseObject /\ x.file = f /\ x.reads = FALSE /\ x.callback = TRUE /\ x.closed = FALSE
        /\ x.next = <<>> /\ x.selected = <<>> /\ x.batch = <<>>
    BY <1>4, EmptySeq DEF Database, DatabaseObject
  <1> HIDE DEF x
  <1>7. NewFile \in DiskFile /\ NewFile.rows = <<>> /\ NewFile.gone = 0 /\ NewFile.there = TRUE
    BY EmptySeq DEF NewFile, DiskFile
  <1>8. /\ disk' \in Seq(DiskFile) /\ Len(disk') = f /\ DOMAIN disk' = DOMAIN disk \cup {f} /\ f \notin DOMAIN disk
        /\ disk'[f] = NewFile /\ \A g \in DOMAIN disk : disk'[g] = disk[g]
    BY <1>2, <1>4, <1>5, <1>7, Appended
  <1>9. \A g \in DOMAIN disk : /\ disk'[g].gone = Gone(g) /\ (There(g) => There(g)') /\ (disk'[g].there <=> There(g))
                               /\ disk'[g].rows = Rows(g)
    BY <1>8 DEF Gone, There, Rows
  <1>10. FilesKept /\ RowsKept
    <2>1. \A g \in DOMAIN disk : Gone(g) \in Nat /\ Len(Rows(g)) \in Nat /\ Gone(g) <= Len(Rows(g))
      BY <1>1, FileFields DEF SqliteTypeOK, Structure
    <2>2. \A g \in DOMAIN disk' \ DOMAIN disk : disk'[g] = NewFile
      BY <1>8
    <2>3. Len(disk) <= Len(disk')
      BY <1>2, <1>4, <1>8
    <2>4. QED
      BY <1>8, <1>9, <2>1, <2>2, <2>3 DEF FilesKept, RowsKept
  <1>11. /\ ObjectsKept /\ HandsKept /\ DOMAIN db' = Objects \cup {n} /\ n \notin Objects
         /\ db'[n] = x /\ \A i \in Objects : db'[i] = o[i]
    BY <1>1, <1>3, <1>5, <1>6, <1>8, OneAdded
  <1>12. /\ Objects \subseteq DOMAIN db' /\ DOMAIN disk \subseteq DOMAIN disk'
         /\ \A i \in Objects : FileOf(i)' = FileOf(i) /\ FileOf(i) \in DOMAIN disk /\ (Open(i)' <=> Open(i))
                               /\ db'[i].reads = db[i].reads /\ (db'[i].callback <=> db[i].callback)
                               /\ db'[i].next = db[i].next /\ db'[i].selected = db[i].selected /\ db'[i].batch = db[i].batch
                               /\ db'[i].stop = db[i].stop
    <2>1. Objects \subseteq DOMAIN db' /\ DOMAIN disk \subseteq DOMAIN disk'
      BY <1>8, <1>11
    <2>2. \A i \in Objects : FileOf(i)' = FileOf(i) /\ FileOf(i) \in DOMAIN disk /\ (db'[i].callback <=> db[i].callback)
      BY <1>1, <1>10, <1>11, Later DEF Structure
    <2>3. \A i \in Objects : (Open(i)' <=> Open(i)) /\ db'[i].reads = db[i].reads /\ db'[i].stop = db[i].stop
      BY <1>11 DEF Open
    <2>4. \A i \in Objects : db'[i].next = db[i].next /\ db'[i].selected = db[i].selected /\ db'[i].batch = db[i].batch
      BY <1>11 DEF HandsKept, SameHands
    <2>5. QED
      BY <2>1, <2>2, <2>3, <2>4
  <1>13. readDb # 0 => readDb \in Objects
    BY <1>1, Numbers
  <1>14. /\ files' \in Seq(Nat) /\ Elements(files') = Elements(files) \cup {f}
         /\ \A k, l \in DOMAIN files' : files'[k] = files'[l] => k = l
    <2>1. PICK c \in Nat : c = Len(files) /\ DOMAIN files = 1 .. c
      BY <1>2, LenProperties
    <2>2. /\ files' \in Seq(Nat) /\ DOMAIN files' = 1 .. c + 1 /\ files'[c + 1] = f
          /\ \A k \in 1 .. c : files'[k] = files[k]
      BY <1>2, <1>4, <1>5, <2>1, Appended
    <2>3. 1 .. c + 1 = (1 .. c) \cup {c + 1} /\ c + 1 \notin 1 .. c
      BY <2>1
    <2>4. \A k \in 1 .. c : files[k] \in Elements(files) /\ files[k] # f
      BY <1>2, <1>8, <2>1 DEF Elements
    <2>5. \A k, l \in 1 .. c : files[k] = files[l] => k = l
      BY <1>1, <2>1 DEF Structure
    <2>6. \A k, l \in DOMAIN files' : files'[k] = files'[l] => k = l
      <3>1. SUFFICES ASSUME NEW k \in 1 .. c + 1, NEW l \in 1 .. c + 1, files'[k] = files'[l] PROVE k = l
        BY <2>2
      <3>2. CASE k \in 1 .. c /\ l \in 1 .. c
        BY <2>2, <2>5, <3>1, <3>2
      <3>3. CASE k \in 1 .. c /\ l = c + 1
        BY <2>2, <2>4, <3>1, <3>3
      <3>4. CASE k = c + 1 /\ l \in 1 .. c
        BY <2>2, <2>4, <3>1, <3>4
      <3>5. QED
        BY <2>3, <3>2, <3>3, <3>4
    <2>7. Elements(files') = Elements(files) \cup {f}
      <3>1. \A k \in 1 .. c : files'[k] = files[k] /\ files[k] \in Elements(files) /\ k \in DOMAIN files'
        BY <2>2, <2>3, <2>4
      <3>2. f \in Elements(files') /\ Elements(files) \subseteq Elements(files')
        BY <2>1, <2>2, <2>3, <3>1 DEF Elements
      <3>3. \A k \in DOMAIN files' : files'[k] \in Elements(files) \cup {f}
        BY <2>2, <2>3, <3>1
      <3>4. Elements(files') \subseteq Elements(files) \cup {f}
        BY <3>3 DEF Elements
      <3>5. QED
        BY <3>2, <3>4
    <2>8. QED
      BY <2>2, <2>6, <2>7
  <1>15. Structure'
    <2>1. \A g \in DOMAIN disk' : There(g)' <=> g \in Elements(files')
      <3>1. There(f)' /\ f \in Elements(files')
        BY <1>7, <1>8, <1>14 DEF There
      <3>2. \A g \in DOMAIN disk : (There(g)' <=> There(g)) /\ g # f
        BY <1>8 DEF There
      <3>3. \A g \in DOMAIN disk : There(g) <=> g \in Elements(files)
        BY <1>1 DEF Structure
      <3>4. QED
        BY <1>8, <1>14, <3>1, <3>2, <3>3
    <2>2. \A g \in DOMAIN disk' : Gone(g)' <= Len(Rows(g)')
      <3>1. Gone(f)' <= Len(Rows(f)')
        BY <1>7, <1>8 DEF Gone, Rows
      <3>2. \A g \in DOMAIN disk : Gone(g)' <= Len(Rows(g)')
        BY <1>10 DEF FilesKept, Gone, Rows
      <3>3. QED
        BY <1>8, <3>1, <3>2
    <2>3. \A i \in DOMAIN db' : FileOf(i)' \in DOMAIN disk'
      BY <1>6, <1>8, <1>11, <1>12 DEF FileOf
    <2>4. db' # <<>>
      <3>1. n \in DOMAIN db' /\ DOMAIN <<>> = {}
        BY <1>11
      <3>2. QED
        BY <3>1
    <2>5. QED
      BY <1>14, <2>1, <2>2, <2>3, <2>4 DEF Structure, Objects
  <1>16. Rotation'
    <2>1. ASSUME sender' = "remove" PROVE There(FileOf(readDb))' /\ ~Open(readDb)'
      <3>1. sender = "remove" /\ readDb \in Objects
        BY <1>1, <1>13, <2>1 DEF Rotation
      <3>2. There(FileOf(readDb)) /\ ~Open(readDb)
        BY <1>1, <3>1 DEF Rotation
      <3>3. PICK g \in DOMAIN disk : g = FileOf(readDb)
        BY <1>12, <3>1
      <3>4. FileOf(readDb)' = g /\ disk'[g].there
        BY <1>9, <1>12, <3>1, <3>2, <3>3
      <3>5. QED
        BY <1>12, <3>1, <3>2, <3>4 DEF There
    <2>2. ASSUME sender' = "reopen" PROVE ~There(FileOf(readDb))'
      <3>1. sender = "reopen" /\ readDb \in Objects
        BY <1>1, <1>13, <2>2 DEF Rotation
      <3>2. PICK g \in DOMAIN disk : g = FileOf(readDb) /\ ~There(g)
        BY <1>1, <1>12, <2>2, <3>1 DEF Rotation
      <3>3. FileOf(readDb)' = g /\ ~disk'[g].there
        BY <1>9, <1>12, <3>1, <3>2
      <3>4. QED
        BY <3>3 DEF There
    <2>3. sender' # "idle" => readDb' # 0
      BY <1>1 DEF Rotation
    <2>4. writeDb' # 0
      BY <1>5, <1>3
    <2>5. QED
      BY <2>1, <2>2, <2>3, <2>4 DEF Rotation
  <1>17. OneReader'
    <2>1. FileOf(n)' = f /\ db'[n].callback = TRUE /\ db'[n].reads = FALSE /\ db'[n].next = <<>> /\ db'[n].selected = <<>>
      BY <1>6, <1>11 DEF FileOf
    <2>2. \A i \in Objects : FileOf(i)' # f /\ (There(FileOf(i))' <=> There(FileOf(i)))
      BY <1>8, <1>12 DEF There
    <2>3. \A i, j \in DOMAIN db' : db'[i].callback /\ db'[j].callback /\ FileOf(i)' = FileOf(j)' => i = j
      BY <1>1, <1>11, <1>12, <2>1, <2>2 DEF OneReader
    <2>4. \A i \in DOMAIN db' : db'[i].callback \/ db'[i].reads
      BY <1>1, <1>11, <1>12, <2>1 DEF OneReader
    <2>5. \A i \in DOMAIN db' : Open(i)' => db'[i].callback \/ There(FileOf(i))'
      BY <1>1, <1>11, <1>12, <2>1, <2>2 DEF OneReader
    <2>6. \A i \in DOMAIN db' : Open(i)' /\ db'[i].reads /\ There(FileOf(i))' => i = readDb'
      BY <1>1, <1>11, <1>12, <2>1, <2>2 DEF OneReader
    <2>7. \A i \in DOMAIN db' : db'[i].reads \/ (db'[i].next = <<>> /\ db'[i].selected = <<>>)
      BY <1>1, <1>11, <1>12, <2>1 DEF OneReader
    <2>8. QED
      BY <2>3, <2>4, <2>5, <2>6, <2>7 DEF OneReader, Objects
  <1>18. OnePlace'
    <2>1. BatchesKept
      BY <1>11 DEF HandsKept, SameHands, BatchesKept, ObjectsKept
    <2>2. Left \in Int /\ Len(queue) \in Nat /\ accepted \in Nat
      BY <1>1, LenProperties DEF Left, SqliteTypeOK
    <2>3. /\ Len(queue') <= accepted' /\ \A k \in DOMAIN queue' : queue'[k] = accepted' - Len(queue') + k
          /\ Len(queue') \in Nat /\ accepted' \in Nat /\ Left <= accepted' - Len(queue') /\ done' \ done = {}
      BY <1>1, <2>2 DEF OnePlace, Left, history
    <2>4. QED
      BY <1>1, <1>10, <2>1, <2>3, OnePlaceKept
  <1>19. Fetches'
    <2>1. \A i \in Objects : ReadsKept(i)
      BY <1>12 DEF ReadsKept
    <2>2. inFlight \subseteq inFlight' /\ (sender = "deleted" => sender' = "deleted" /\ readDb' = readDb)
      BY DEF history
    <2>3. \A g \in DOMAIN disk : disk'[g].gone = Gone(g)
      BY <1>9
    <2>4. QED
      BY <1>1, <1>10, <1>11, <2>1, <2>2, <2>3, FetchesKept
  <1>20. Packs'
    <2>1. \A g \in DOMAIN disk : disk'[g].gone = Gone(g)
      BY <1>9
    <2>2. (sender' = "got" <=> sender = "got") /\ readDb' = readDb /\ deletePoint' = deletePoint /\ pack' = pack
          /\ reread' = reread /\ inFlight \subseteq inFlight'
      BY DEF history
    <2>3. QED
      BY <1>1, <1>10, <1>11, <2>1, <2>2, PacksKept
  <1>21. Drains'
    <2>1. \A i \in DOMAIN db' : db'[i].closed => db'[i].stop \/ stopped'
      BY <1>1, <1>11 DEF Drains, ObjectsKept, Follows
    <2>2. ASSUME stopped', sender' \in {"got", "deleted", "prepared", "cleanup", "start", "finalize"}
          PROVE  db'[readDb'].stop
      <3>1. readDb \in Objects /\ db[readDb].stop
        BY <1>1, <1>13, <2>2 DEF Drains, Rotation
      <3>2. QED
        BY <1>12, <3>1
    <2>3. ASSUME sender' = "got" PROVE stopped' \/ Open(readDb)'
      <3>1. readDb \in Objects /\ (stopped \/ Open(readDb))
        BY <1>1, <1>13, <2>3 DEF Drains, Rotation
      <3>2. QED
        BY <1>12, <3>1
    <2>4. ASSUME sender' \in {"cleanup", "start", "finalize"}, There(FileOf(readDb))', ~db'[readDb'].stop
          PROVE  drained' <= Gone(FileOf(readDb))'
      <3>1. sender \in {"cleanup", "start", "finalize"} /\ readDb \in Objects
        BY <1>1, <1>13, <2>4 DEF Rotation
      <3>2. PICK g \in DOMAIN disk : g = FileOf(readDb)
        BY <1>12, <3>1
      <3>3. FileOf(readDb)' = g /\ There(g) /\ ~db[readDb].stop /\ Gone(FileOf(readDb))' = Gone(g)
        BY <1>9, <1>12, <2>4, <3>1, <3>2 DEF There, Gone
      <3>4. drained <= Gone(g)
        BY <1>1, <3>1, <3>2, <3>3 DEF Drains
      <3>5. QED
        BY <3>3, <3>4 DEF history
    <2>5. \A p \in lost' : p[2] # "unread"
      BY <1>1 DEF Drains, history
    <2>6. QED
      BY <2>1, <2>2, <2>3, <2>4, <2>5 DEF Drains, Objects
  <1>22. AllLocated'
    <2>1. \A i \in Objects : db'[i].batch = db[i].batch
      BY <1>12
    <2>2. accepted' = accepted /\ done \subseteq done' /\ lost \subseteq lost' /\ Elements(queue) \subseteq Elements(queue')
      BY DEF history
    <2>3. \A g \in DOMAIN disk : (There(g) => There(g)') /\ disk'[g].gone = Gone(g)
      BY <1>9
    <2>4. QED
      BY <1>1, <1>10, <1>11, <2>1, <2>2, <2>3, LocatedKept
  <1>23. SqliteTypeOK'
    <2>1. db' \in Seq(DatabaseObject) /\ Len(db') \in Nat /\ Len(db') <= MaxDatabases /\ Len(db) \in Nat /\ Len(db) <= Len(db')
          /\ DOMAIN db' = 1 .. Len(db')
      BY <1>1, <1>11, LenProperties DEF ObjectsKept, SqliteTypeOK
    <2>2. readDb' \in 0 .. Len(db') /\ writeDb' \in 0 .. Len(db')
      BY <1>1, <1>5, <1>11, <2>1 DEF SqliteTypeOK
    <2>3. Elements(files') \subseteq DOMAIN disk'
      BY <1>2, <1>8, <1>14
    <2>4. QED
      BY <1>1, <1>8, <2>1, <2>2, <2>3 DEF SqliteTypeOK, history
  <1>24. QED
    BY <1>15, <1>16, <1>17, <1>18, <1>19, <1>20, <1>21, <1>22, <1>23 DEF IInv

LEMMA RotateStartKeeps ==
    ASSUME IInv, NEW i \in Objects, RotateStart(i)
    PROVE  IInv'
  <1>1. SqliteTypeOK /\ db[i] \in DatabaseObject /\ db \in Seq(DatabaseObject)
    BY ObjectFields DEF IInv, SqliteTypeOK
  <1> DEFINE x == [db[i] EXCEPT !.pc = "top"]
             o == [db EXCEPT ![i] = x]
  <1>2. /\ db[i].pc = "start" /\ StartWriteDatabase(o)
        /\ UNCHANGED <<queue, readDb, isMax, stopped, senderVars, history>>
    BY DEF RotateStart
  <1>3. x \in DatabaseObject /\ Follows(db[i], x) /\ SameHands(db[i], x) /\ x.reads = db[i].reads
        /\ x.stop = db[i].stop /\ x.closed = db[i].closed
    BY <1>1, <1>2 DEF DatabaseObject, Follows, SameHands
  <1> HIDE DEF x
  <1>4. o \in Seq(DatabaseObject) /\ Len(o) = Len(db) /\ o[i] = x /\ \A j \in Objects : j # i => o[j] = db[j]
    BY <1>1, <1>3, Updated DEF Objects
  <1> HIDE DEF o
  <1>5. ASSUME NEW j \in Objects
        PROVE  /\ Follows(db[j], o[j]) /\ SameHands(db[j], o[j])
               /\ o[j].reads = db[j].reads /\ o[j].stop = db[j].stop /\ o[j].closed = db[j].closed
    <2>1. CASE j = i
      BY <1>3, <1>4, <2>1
    <2>2. CASE j # i
      BY <1>4, <2>2 DEF Follows, SameHands
    <2>3. QED
      BY <2>1, <2>2
  <1>6. isMax' \in BOOLEAN /\ sender' = sender /\ UNCHANGED <<queue, readDb, stopped, pack, deletePoint, history>>
    BY <1>1, <1>2 DEF SqliteTypeOK, senderVars
  <1>7. QED
    BY <1>2, <1>4, <1>5, <1>6, Started

LEMMA SenderStartKeeps ==
    ASSUME IInv, SenderStart
    PROVE  IInv'
  <1>1. db \in Seq(DatabaseObject) /\ isMax' \in BOOLEAN
    BY DEF IInv, SqliteTypeOK, SenderStart
  <1>2. /\ sender = "start" /\ StartWriteDatabase(db) /\ sender' = "finalize"
        /\ UNCHANGED <<queue, readDb, isMax, stopped, pack, deletePoint, history>>
    BY DEF SenderStart
  <1>3. \A i \in Objects : Follows(db[i], db[i]) /\ SameHands(db[i], db[i])
    BY DEF Follows, SameHands
  <1>4. QED
    BY <1>1, <1>2, <1>3, Started

LEMMA CheckMaxDbCountKeeps ==
    ASSUME IInv, CheckMaxDbCount
    PROVE  IInv'
  <1>1. SqliteTypeOK /\ Structure /\ Rotation /\ OneReader /\ OnePlace /\ Fetches /\ Packs /\ Drains /\ AllLocated
    BY DEF IInv
  <1>2. /\ sender = "count" /\ sender' = "idle" /\ isMax' \in BOOLEAN
        /\ UNCHANGED <<queue, readDb, stopped, pack, deletePoint, history>>
    BY DEF CheckMaxDbCount
  <1>3. CASE StartWriteDatabase(db)
    <2>1. \A i \in Objects : Follows(db[i], db[i]) /\ SameHands(db[i], db[i])
      BY DEF Follows, SameHands
    <2>2. db \in Seq(DatabaseObject)
      BY <1>1 DEF SqliteTypeOK
    <2>3. QED
      BY <1>2, <1>3, <2>1, <2>2, Started
  <1>4. CASE UNCHANGED <<db, disk, writeDb, files>>
    <2>1. /\ FilesKept /\ DOMAIN disk' = DOMAIN disk /\ RowsKept
          /\ \A f \in DOMAIN disk : disk'[f].gone = Gone(f) /\ (There(f)' <=> There(f)) /\ (disk'[f].there <=> There(f))
      BY <1>1, <1>4, NothingMoves DEF Structure, Gone, There, Rows, RowsKept
    <2>2. ObjectsKept /\ HandsKept /\ DOMAIN db' = Objects
      BY <1>1, <1>4, NothingMoves
    <2>3. \A i \in Objects : FileOf(i) \in DOMAIN disk /\ FileOf(i)' = FileOf(i)
      BY <1>1, <1>4 DEF Structure, FileOf
    <2>4. SqliteTypeOK'
      BY <1>1, <1>2, <1>4 DEF SqliteTypeOK, history
    <2>5. Structure'
      BY <1>1, <1>4, <2>1, <2>2, StructureKept
    <2>6. Rotation'
      BY <1>1, <1>2, <1>4 DEF Rotation, Objects
    <2>7. OneReader'
      BY <1>1, <1>2, <1>4, <2>1, <2>2, <2>3, OneReaderKept DEF ReadsKept
    <2>8. OnePlace'
      <3>1. BatchesKept
        BY <2>2 DEF HandsKept, SameHands, BatchesKept
      <3>2. Left \in Int /\ Len(queue) \in Nat /\ accepted \in Nat
        BY <1>1, LenProperties DEF Left, SqliteTypeOK
      <3>3. /\ Len(queue') <= accepted' /\ \A k \in DOMAIN queue' : queue'[k] = accepted' - Len(queue') + k
            /\ Len(queue') \in Nat /\ accepted' \in Nat /\ Left <= accepted' - Len(queue') /\ done' \ done = {}
        BY <1>1, <1>2, <3>2 DEF OnePlace, Left, history
      <3>4. QED
        BY <1>1, <2>1, <3>1, <3>3, OnePlaceKept
    <2>9. Fetches'
      <3>1. \A i \in Objects : ReadsKept(i)
        BY <1>4 DEF ReadsKept
      <3>2. inFlight \subseteq inFlight' /\ sender # "deleted"
        BY <1>2 DEF history
      <3>3. QED
        BY <1>1, <2>1, <2>2, <3>1, <3>2, FetchesKept
    <2>10. Packs'
      <3>1. (sender' = "got" <=> sender = "got") /\ readDb' = readDb /\ deletePoint' = deletePoint /\ pack' = pack
            /\ reread' = reread /\ inFlight \subseteq inFlight'
        BY <1>2 DEF history
      <3>2. QED
        BY <1>1, <2>1, <2>2, <3>1, PacksKept
    <2>11. Drains'
      BY <1>1, <1>2, <1>4 DEF Drains, Objects, history
    <2>12. AllLocated'
      <3>1. accepted' = accepted /\ done \subseteq done' /\ lost \subseteq lost' /\ Elements(queue) \subseteq Elements(queue')
        BY <1>2 DEF history
      <3>2. \A i \in Objects : db'[i].batch = db[i].batch
        BY <1>4
      <3>3. QED
        BY <1>1, <2>1, <2>2, <3>1, <3>2, LocatedKept
    <2>13. QED
      BY <2>4, <2>5, <2>6, <2>7, <2>8, <2>9, <2>10, <2>11, <2>12 DEF IInv
  <1>5. QED
    BY <1>3, <1>4 DEF CheckMaxDbCount

LEMMA SortedIs ==
    ASSUME NEW S, IsFiniteSet(S), S \subseteq Nat, S # {}, NEW s \in Sorted(S)
    PROVE  /\ s \in Seq(Nat) /\ Len(s) \in Nat \ {0} /\ DOMAIN s = 1 .. Len(s) /\ Elements(s) = S
           /\ \A k, l \in DOMAIN s : s[k] = s[l] => k = l
           /\ s[1] \in S /\ s[Len(s)] \in S
  <1>1. PICK n \in Nat : n = Cardinality(S)
    BY FS_CardinalityType
  <1>2. n # 0
    BY <1>1, FS_EmptySet
  <1>3. s \in [1 .. n -> S] /\ \A j, k \in 1 .. n : j < k => s[j] < s[k]
    BY <1>1 DEF Sorted
  <1>4. s \in Seq(Nat) /\ Len(s) = n /\ DOMAIN s = 1 .. n
    <2>1. s \in [1 .. n -> Nat] /\ DOMAIN s = 1 .. n
      BY <1>3
    <2>2. s \in Seq(Nat)
      BY <2>1
    <2>3. QED
      BY <2>1, <2>2, LenProperties
  <1>5. \A k, l \in 1 .. n : s[k] = s[l] => k = l
    <2>1. SUFFICES ASSUME NEW k \in 1 .. n, NEW l \in 1 .. n, s[k] = s[l] PROVE k = l
      OBVIOUS
    <2>2. s[k] \in Nat /\ s[l] \in Nat
      BY <1>3
    <2>3. ~(k < l) /\ ~(l < k)
      BY <1>3, <2>1, <2>2
    <2>4. QED
      BY <2>3
  <1>6. s \in Injection(1 .. n, S)
    BY <1>3, <1>4, <1>5 DEF Injection, IsInjective
  <1>7. Cardinality(1 .. n) = n
    BY <1>2, FS_Interval
  <1>8. s \in Surjection(1 .. n, S)
    BY <1>1, <1>6, <1>7, FS_Injection
  <1>9. \A e \in S : \E k \in 1 .. n : s[k] = e
    BY <1>8 DEF Surjection
  <1>10. Elements(s) = S
    <2>1. Elements(s) = {s[k] : k \in 1 .. n}
      BY <1>4 DEF Elements
    <2>2. Elements(s) \subseteq S
      BY <1>3, <2>1
    <2>3. ASSUME NEW e \in S PROVE e \in Elements(s)
      <3>1. PICK k \in 1 .. n : s[k] = e
        BY <1>9
      <3>2. QED
        BY <2>1, <3>1
    <2>4. QED
      BY <2>2, <2>3
  <1>11. 1 \in 1 .. n /\ n \in 1 .. n
    BY <1>2
  <1>12. QED
    BY <1>2, <1>3, <1>4, <1>5, <1>10, <1>11

(* What is known of the folder when the process starts again.               *)
LEMMA FolderAtRestart ==
    ASSUME SqliteTypeOK, Structure, Restart
    PROVE  /\ FilesKept /\ RowsKept
           /\ \A g \in DOMAIN disk : disk'[g].gone = Gone(g) /\ (disk'[g].there <=> There(g)) /\ g \in DOMAIN disk'
           /\ files' \in Seq(Nat) /\ Len(files') \in Nat \ {0} /\ DOMAIN files' = 1 .. Len(files')
           /\ \A k, l \in DOMAIN files' : files'[k] = files'[l] => k = l
           /\ \A g \in DOMAIN disk' : disk'[g].there <=> g \in Elements(files')
           /\ \A g \in Elements(files') : g \in DOMAIN disk' /\ g \in Nat
           /\ files'[1] \in Elements(files') /\ files'[Len(files')] \in Elements(files')
  <1> DEFINE S == {g \in DOMAIN disk : disk[g].there}
  <1>1. disk \in Seq(DiskFile) /\ Len(disk) \in Nat /\ DOMAIN disk = 1 .. Len(disk)
    BY LenProperties DEF SqliteTypeOK
  <1>2. PICK f \in Nat \ {0} : f = Len(disk) + 1
    BY <1>1
  <1>3. NewFile \in DiskFile /\ NewFile.there = TRUE
    BY EmptySeq DEF NewFile, DiskFile
  <1>4. \A g \in DOMAIN disk : Gone(g) \in Nat /\ Len(Rows(g)) \in Nat /\ Gone(g) <= Len(Rows(g))
    BY FileFields DEF SqliteTypeOK, Structure
  <1>5. PICK T : /\ files' \in Sorted(T) /\ T \subseteq DOMAIN disk' /\ T # {}
                 /\ \A g \in DOMAIN disk' : disk'[g].there <=> g \in T
                 /\ disk' \in Seq(DiskFile) /\ Len(disk) <= Len(disk')
                 /\ \A g \in DOMAIN disk : g \in DOMAIN disk' /\ disk'[g] = disk[g]
                 /\ \A g \in DOMAIN disk' \ DOMAIN disk : disk'[g] = NewFile
    <2>1. CASE S = {}
      <3>1. disk' = Append(disk, NewFile) /\ files' \in Sorted({f})
        BY <1>2, <2>1 DEF Restart
      <3>2. /\ disk' \in Seq(DiskFile) /\ Len(disk') = f /\ DOMAIN disk' = DOMAIN disk \cup {f} /\ f \notin DOMAIN disk
            /\ disk'[f] = NewFile /\ \A g \in DOMAIN disk : disk'[g] = disk[g]
        BY <1>1, <1>2, <1>3, <3>1, Appended
      <3>3. \A g \in DOMAIN disk' : disk'[g].there <=> g \in {f}
        BY <1>3, <2>1, <3>2
      <3>4. \A g \in DOMAIN disk' \ DOMAIN disk : disk'[g] = NewFile
        BY <3>2
      <3>5. Len(disk) <= Len(disk')
        BY <1>1, <1>2, <3>2
      <3>6. QED
        BY <3>1, <3>2, <3>3, <3>4, <3>5
    <2>2. CASE S # {}
      <3>1. disk' = disk /\ files' \in Sorted(S)
        BY <2>2 DEF Restart
      <3>2. S \subseteq DOMAIN disk' /\ \A g \in DOMAIN disk' : disk'[g].there <=> g \in S
        BY <3>1
      <3>3. disk' \in Seq(DiskFile) /\ Len(disk) <= Len(disk') /\ DOMAIN disk' \ DOMAIN disk = {}
        BY <1>1, <3>1
      <3>4. \A g \in DOMAIN disk : g \in DOMAIN disk' /\ disk'[g] = disk[g]
        BY <3>1
      <3> HIDE DEF S
      <3>5. QED
        BY <2>2, <3>1, <3>2, <3>3, <3>4
    <2>3. QED
      BY <2>1, <2>2
  <1>6. IsFiniteSet(T) /\ T \subseteq Nat
    <2>1. Len(disk') \in Nat /\ DOMAIN disk' = 1 .. Len(disk')
      BY <1>5, LenProperties
    <2>2. IsFiniteSet(1 .. Len(disk'))
      BY <2>1, FS_Interval
    <2>3. QED
      BY <1>5, <2>1, <2>2, FS_Subset
  <1>7. /\ files' \in Seq(Nat) /\ Len(files') \in Nat \ {0} /\ DOMAIN files' = 1 .. Len(files') /\ Elements(files') = T
        /\ \A k, l \in DOMAIN files' : files'[k] = files'[l] => k = l
        /\ files'[1] \in T /\ files'[Len(files')] \in T
    BY <1>5, <1>6, SortedIs
  <1>8. \A g \in DOMAIN disk : disk'[g].gone = Gone(g) /\ (disk'[g].there <=> There(g)) /\ disk'[g].rows = Rows(g)
    BY <1>5 DEF Gone, There, Rows
  <1>9. FilesKept /\ RowsKept
    BY <1>4, <1>5, <1>8 DEF FilesKept, RowsKept
  <1>10. QED
    BY <1>5, <1>6, <1>7, <1>8, <1>9

LEMMA RestartKeeps ==
    ASSUME IInv, Restart
    PROVE  IInv'
  <1>1. SqliteTypeOK /\ Structure /\ OnePlace /\ Packs /\ Drains /\ AllLocated
    BY DEF IInv
  <1> DEFINE hands == UNION {Elements(db[i].batch) : i \in Objects}
  <1>2. /\ crashes < MaxCrashes /\ crashes' = crashes + 1 /\ lost' = lost \cup ((Elements(queue) \cup hands) \X {"crash"})
        /\ queue' = <<>> /\ writeDb' = 1 /\ isMax' = FALSE /\ stopped' = FALSE
        /\ sender' = "prepared" /\ pack' = <<>> /\ deletePoint' = 0
        /\ UNCHANGED <<accepted, done, reread, inFlight, drained>>
    BY DEF Restart, Objects
  <1>3. /\ FilesKept /\ RowsKept
        /\ \A g \in DOMAIN disk : disk'[g].gone = Gone(g) /\ (disk'[g].there <=> There(g)) /\ g \in DOMAIN disk'
        /\ files' \in Seq(Nat) /\ DOMAIN files' = 1 .. Len(files')
        /\ \A k, l \in DOMAIN files' : files'[k] = files'[l] => k = l
        /\ \A g \in DOMAIN disk' : disk'[g].there <=> g \in Elements(files')
        /\ \A g \in Elements(files') : g \in DOMAIN disk' /\ g \in Nat
        /\ files'[1] \in Elements(files') /\ files'[Len(files')] \in Elements(files')
    BY <1>1, FolderAtRestart
  <1>4. PICK first \in Elements(files'), last \in Elements(files') : first = files'[1] /\ last = files'[Len(files')]
    BY <1>3
  <1> DEFINE w == Database(last, TRUE, TRUE, TRUE)
             x == Database(last, FALSE, TRUE, TRUE)
             y == Database(first, TRUE, FALSE, FALSE)
  <1>5. /\ first = last => db' = <<w>> /\ readDb' = 1
        /\ first # last => db' = <<x, y>> /\ readDb' = 2
    BY <1>4 DEF Restart
  <1>6. first \in Nat /\ last \in Nat /\ first \in DOMAIN disk' /\ last \in DOMAIN disk'
        /\ disk'[first].there /\ disk'[last].there
    BY <1>3, <1>4
  <1>7. /\ {w, x, y} \subseteq DatabaseObject
        /\ w.file = last /\ w.reads = TRUE /\ w.callback = TRUE
        /\ x.file = last /\ x.reads = FALSE /\ x.callback = TRUE
        /\ y.file = first /\ y.reads = TRUE /\ y.callback = FALSE
        /\ \A o \in {w, x, y} : o.next = <<>> /\ o.selected = <<>> /\ o.batch = <<>> /\ ~o.closed /\ o.pc = "top"
    BY <1>6, EmptySeq DEF Database, DatabaseObject
  <1> HIDE DEF w, x, y
  <1> DEFINE Fresh(i) ==
               /\ db'[i].file \in {first, last} /\ db'[i].next = <<>> /\ db'[i].selected = <<>> /\ db'[i].batch = <<>>
               /\ ~db'[i].closed
               /\ (db'[i].reads <=> i = readDb') /\ (db'[i].callback <=> i = 1)
               /\ (i = 1 \/ i = readDb')
  <1>8. /\ db' \in Seq(DatabaseObject) /\ Len(db') \in Nat /\ Len(db') <= 2 /\ readDb' \in 1 .. Len(db') /\ 1 \in 1 .. Len(db')
        /\ DOMAIN db' = 1 .. Len(db') /\ readDb' \in DOMAIN db'
        /\ \A i \in DOMAIN db' : Fresh(i)
    <2>1. CASE first = last
      <3>1. db' = <<w>> /\ readDb' = 1
        BY <1>5, <2>1
      <3>2. db' \in Seq(DatabaseObject) /\ Len(db') = 1 /\ DOMAIN db' = {1} /\ db'[1] = w
        BY <1>7, <3>1
      <3>3. Len(db') <= 2 /\ readDb' \in 1 .. Len(db') /\ 1 \in 1 .. Len(db') /\ DOMAIN db' = 1 .. Len(db') /\ readDb' \in DOMAIN db'
        BY <3>1, <3>2
      <3>4. ASSUME NEW i \in DOMAIN db' PROVE Fresh(i)
        <4>1. i = 1 /\ db'[i] = w /\ i = readDb'
          BY <3>1, <3>2
        <4>2. QED
          BY <1>7, <4>1
      <3> HIDE DEF Fresh
      <3>5. QED
        BY <3>2, <3>3, <3>4
    <2>2. CASE first # last
      <3>1. db' = <<x, y>> /\ readDb' = 2
        BY <1>5, <2>2
      <3>2. db' \in Seq(DatabaseObject) /\ Len(db') = 2 /\ DOMAIN db' = {1, 2} /\ db'[1] = x /\ db'[2] = y
        BY <1>7, <3>1
      <3>3. Len(db') <= 2 /\ readDb' \in 1 .. Len(db') /\ 1 \in 1 .. Len(db') /\ DOMAIN db' = 1 .. Len(db') /\ readDb' \in DOMAIN db'
        BY <3>1, <3>2
      <3>4. ASSUME NEW i \in DOMAIN db' PROVE Fresh(i)
        <4>1. CASE i = 1
          <5>1. db'[i] = x /\ i # readDb'
            BY <3>1, <3>2, <4>1
          <5>2. QED
            BY <1>7, <4>1, <5>1
        <4>2. CASE i = 2
          <5>1. db'[i] = y /\ i = readDb' /\ i # 1
            BY <3>1, <3>2, <4>2
          <5>2. QED
            BY <1>7, <4>2, <5>1
        <4>3. QED
          BY <3>2, <4>1, <4>2
      <3> HIDE DEF Fresh
      <3>5. QED
        BY <3>2, <3>3, <3>4
    <2>3. QED
      BY <2>1, <2>2
  <1>9. \A i \in DOMAIN db' : FileOf(i)' \in DOMAIN disk' /\ There(FileOf(i))'
    BY <1>6, <1>8 DEF FileOf, There
  <1>10. \A g \in DOMAIN disk' : Gone(g)' \in Nat /\ Len(Rows(g)') \in Nat /\ Gone(g)' <= Len(Rows(g)')
    <2>1. disk' \in Seq(DiskFile)
      BY <1>3 DEF FilesKept
    <2>2. ASSUME NEW g \in DOMAIN disk'
          PROVE  Gone(g)' \in Nat /\ Len(Rows(g)') \in Nat /\ Gone(g)' <= Len(Rows(g)')
      <3>1. disk'[g] \in DiskFile
        BY <2>1, ElementOfSeq, LenProperties
      <3>2. Gone(g)' \in Nat /\ Len(Rows(g)') \in Nat
        BY <3>1, LenProperties DEF DiskFile, Gone, Rows
      <3>3. disk'[g].gone <= Len(disk'[g].rows)
        <4>1. CASE g \in DOMAIN disk
          BY <1>3, <4>1 DEF FilesKept
        <4>2. CASE g \notin DOMAIN disk
          <5>1. disk'[g] = NewFile
            BY <1>3, <2>2, <4>2 DEF FilesKept
          <5>2. QED
            BY <5>1 DEF NewFile
        <4>3. QED
          BY <4>1, <4>2
      <3>4. QED
        BY <3>2, <3>3 DEF Gone, Rows
    <2>3. QED
      BY <2>2
  <1>11. Structure'
    <2>1. \A g \in DOMAIN disk' : There(g)' <=> g \in Elements(files')
      BY <1>3 DEF There
    <2>2. db' # <<>>
      <3>1. 1 \in DOMAIN db' /\ DOMAIN <<>> = {}
        BY <1>8
      <3>2. QED
        BY <3>1
    <2>3. QED
      BY <1>3, <1>9, <1>10, <2>1, <2>2 DEF Structure, Objects
  <1>12. Rotation'
    <2>1. readDb' # 0 /\ writeDb' # 0 /\ sender' # "remove" /\ sender' # "reopen"
      BY <1>2, <1>8
    <2>2. QED
      BY <2>1 DEF Rotation
  <1>13. OneReader'
    <2>1. \A i, j \in DOMAIN db' : db'[i].callback /\ db'[j].callback /\ FileOf(i)' = FileOf(j)' => i = j
      BY <1>8
    <2>2. \A i \in DOMAIN db' : db'[i].callback \/ db'[i].reads
      BY <1>8
    <2>3. \A i \in DOMAIN db' : Open(i)' => db'[i].callback \/ There(FileOf(i))'
      BY <1>9
    <2>4. \A i \in DOMAIN db' : Open(i)' /\ db'[i].reads /\ There(FileOf(i))' => i = readDb'
      BY <1>8
    <2>5. \A i \in DOMAIN db' : db'[i].reads \/ (db'[i].next = <<>> /\ db'[i].selected = <<>>)
      BY <1>8
    <2>6. QED
      BY <2>1, <2>2, <2>3, <2>4, <2>5 DEF OneReader, Objects
  <1>14. OnePlace'
    <2>1. BatchesKept
      BY <1>8 DEF BatchesKept
    <2>2. Left \in Int /\ Len(queue) \in Nat /\ accepted \in Nat /\ Left = accepted - Len(queue)
      BY <1>1, LenProperties DEF Left, SqliteTypeOK
    <2>3. queue' = <<>> /\ Len(queue') = 0 /\ DOMAIN queue' = {} /\ accepted' = accepted /\ done' \ done = {}
      BY <1>2
    <2>4. /\ Len(queue') <= accepted' /\ \A k \in DOMAIN queue' : queue'[k] = accepted' - Len(queue') + k
          /\ Len(queue') \in Nat /\ accepted' \in Nat /\ Left <= accepted' - Len(queue')
      BY <2>2, <2>3
    <2>5. QED
      BY <1>1, <1>3, <2>1, <2>3, <2>4, OnePlaceKept
  <1>15. Fetches'
    <2>1. ASSUME NEW i \in DOMAIN db' PROVE FromFile(db[i].next, FileOf(i))' /\ FromFile(db[i].selected, FileOf(i))'
      <3>1. Gone(FileOf(i))' \in Nat /\ Len(Rows(FileOf(i))') \in Nat
        BY <1>9, <1>10
      <3>2. 0 \in 0 .. Gone(FileOf(i))' /\ 0 + Len(<<>>) <= Len(Rows(FileOf(i))') /\ DOMAIN <<>> = {}
        BY <3>1
      <3>3. Answer(<<>>, Gone(FileOf(i))', Len(Rows(FileOf(i))'))
        BY <3>2 DEF Answer
      <3>4. QED
        BY <1>8, <3>3 DEF FromFile
    <2>2. \A i \in DOMAIN db' : Elements(db'[i].next) \cup Elements(db'[i].selected) = {}
      BY <1>8 DEF Elements
    <2>3. QED
      BY <2>1, <2>2 DEF Fetches, Objects
  <1>16. Packs'
    <2>1. PICK i \in DOMAIN db' : i = readDb'
      BY <1>8
    <2>2. Gone(FileOf(i))' \in Nat
      BY <1>9, <1>10
    <2>3. deletePoint' <= Gone(FileOf(readDb))'
      BY <1>2, <2>1, <2>2 DEF FileOf, Gone
    <2>4. reread' \subseteq inFlight' /\ sender' # "got"
      BY <1>1, <1>2 DEF Packs
    <2>5. QED
      BY <2>3, <2>4 DEF Packs
  <1>17. Drains'
    <2>1. \A p \in lost' : p[2] # "unread"
      <3>1. \A p \in (Elements(queue) \cup hands) \X {"crash"} : p[2] = "crash"
        OBVIOUS
      <3>2. \A p \in lost : p[2] # "unread"
        BY <1>1 DEF Drains
      <3>3. QED
        BY <1>2, <3>1, <3>2
    <2>2. \A i \in DOMAIN db' : db'[i].closed => db'[i].stop \/ stopped'
      BY <1>8
    <2>3. ~stopped' /\ sender' = "prepared"
      BY <1>2
    <2>4. QED
      BY <2>1, <2>2, <2>3 DEF Drains, Objects
  <1>18. Elements(queue) \subseteq Messages /\ hands \subseteq Messages
    BY <1>1, MessagesInHands DEF Elements
  <1>19. SqliteTypeOK'
    <2>1. lost' \subseteq Messages \X {"crash", "held", "unlinked", "late", "closed", "unread"}
      BY <1>1, <1>2, <1>18 DEF SqliteTypeOK
    <2>2. queue' \in Seq(Messages) /\ pack' \in Seq(Messages)
      BY <1>2, EmptySeq
    <2>3. db' \in Seq(DatabaseObject) /\ Len(db') <= MaxDatabases /\ readDb' \in 0 .. Len(db') /\ writeDb' \in 0 .. Len(db')
      BY <1>2, <1>8
    <2>4. disk' \in Seq(DiskFile) /\ Elements(files') \subseteq DOMAIN disk'
      BY <1>3 DEF FilesKept
    <2>5. crashes' \in 0 .. MaxCrashes
      BY <1>1, <1>2 DEF SqliteTypeOK
    <2>6. /\ accepted \in 0 .. MaxMessages
          /\ done \subseteq Messages /\ reread \subseteq done /\ inFlight \subseteq Messages /\ drained \in Nat
      BY <1>1, Zenon DEF SqliteTypeOK
    <2>7. /\ isMax' \in BOOLEAN /\ stopped' \in BOOLEAN /\ deletePoint' \in Nat /\ sender' = "prepared"
          /\ accepted' \in 0 .. MaxMessages
      BY <1>2, <2>6
    <2>8. done' \subseteq Messages /\ reread' \subseteq done' /\ inFlight' \subseteq Messages /\ drained' \in Nat
      BY <1>2, <2>6
    <2>9. QED
      BY <2>1, <2>2, <2>3, <2>4, <2>5, <2>7, <2>8 DEF SqliteTypeOK
  <1>20. AllLocated'
    <2>1. ASSUME NEW m \in 1 .. accepted, Located(m) PROVE Located(m)'
      <3>1. CASE m \in Elements(queue) \cup hands
        <4>1. <<m, "crash">> \in lost' /\ <<m, "crash">>[1] = m
          BY <1>2, <3>1
        <4>2. QED
          BY <4>1 DEF Located
      <3>2. CASE \E g \in DOMAIN disk : There(g) /\ \E k \in DOMAIN Rows(g) : k > Gone(g) /\ Rows(g)[k] = m
        <4>1. PICK g \in DOMAIN disk : There(g) /\ \E k \in DOMAIN Rows(g) : k > Gone(g) /\ Rows(g)[k] = m
          BY <3>2
        <4>2. g \in DOMAIN disk' /\ There(g)' /\ Rows(g)' = Rows(g) /\ Gone(g)' = Gone(g)
          BY <1>3, <4>1 DEF There, Rows, Gone, RowsKept
        <4>3. QED
          BY <4>1, <4>2 DEF Located
      <3>3. CASE m \in done \/ \E p \in lost : p[1] = m
        BY <1>2, <3>3 DEF Located
      <3>4. (\E i \in Objects : m \in Elements(db[i].batch)) => m \in hands
        OBVIOUS
      <3>5. QED
        BY <2>1, <3>1, <3>2, <3>3, <3>4 DEF Located
    <2>2. QED
      BY <1>1, <1>2, <2>1 DEF AllLocated
  <1>21. QED
    BY <1>11, <1>12, <1>13, <1>14, <1>15, <1>16, <1>17, <1>19, <1>20 DEF IInv

-----------------------------------------------------------------------------
LEMMA InitHolds == Init => IInv
  <1> SUFFICES ASSUME Init PROVE IInv
    OBVIOUS
  <1> DEFINE x == Database(1, TRUE, TRUE, TRUE)
  <1>1. /\ queue = <<>> /\ db = <<x>> /\ disk = <<NewFile>> /\ files = <<1>> /\ readDb = 1 /\ writeDb = 1
        /\ isMax = FALSE /\ stopped = FALSE /\ sender = "idle" /\ pack = <<>> /\ deletePoint = 0
        /\ crashes = 0 /\ accepted = 0 /\ done = {} /\ reread = {} /\ inFlight = {} /\ drained = 0 /\ lost = {}
    BY DEF Init
  <1>2. x \in DatabaseObject /\ x.file = 1 /\ x.reads = TRUE /\ x.callback = TRUE /\ x.closed = FALSE
        /\ x.next = <<>> /\ x.selected = <<>> /\ x.batch = <<>>
    BY EmptySeq DEF Database, DatabaseObject
  <1>3. NewFile \in DiskFile /\ NewFile.rows = <<>> /\ NewFile.gone = 0 /\ NewFile.there = TRUE
    BY EmptySeq DEF NewFile, DiskFile
  <1> HIDE DEF x
  <1>4. /\ db \in Seq(DatabaseObject) /\ Len(db) = 1 /\ Objects = {1} /\ db[1] = x
        /\ disk \in Seq(DiskFile) /\ DOMAIN disk = {1} /\ disk[1] = NewFile
        /\ files \in Seq(Nat) /\ DOMAIN files = {1} /\ files[1] = 1 /\ Elements(files) = {1}
    BY <1>1, <1>2, <1>3 DEF Objects, Elements
  <1>5. FileOf(1) = 1 /\ Rows(1) = <<>> /\ DOMAIN Rows(1) = {} /\ Len(Rows(1)) = 0 /\ Gone(1) = 0 /\ There(1)
    BY <1>2, <1>3, <1>4 DEF FileOf, Rows, Gone, There
  <1>6. SqliteTypeOK
    <2>1. queue \in Seq(Messages) /\ pack \in Seq(Messages)
      BY <1>1, EmptySeq
    <2>2. Len(db) <= MaxDatabases /\ readDb \in 0 .. Len(db) /\ writeDb \in 0 .. Len(db)
      BY <1>1, <1>4
    <2>3. crashes \in 0 .. MaxCrashes /\ accepted \in 0 .. MaxMessages /\ deletePoint \in Nat /\ drained \in Nat
      BY <1>1
    <2>4. QED
      BY <1>1, <1>4, <2>1, <2>2, <2>3 DEF SqliteTypeOK
  <1>7. Structure
    <2>1. db # <<>>
      <3>1. 1 \in DOMAIN db /\ DOMAIN <<>> = {}
        BY <1>4 DEF Objects
      <3>2. QED
        BY <3>1
    <2>2. QED
      BY <1>4, <1>5, <2>1 DEF Structure
  <1>8. Rotation
    BY <1>1 DEF Rotation
  <1>9. OneReader
    BY <1>1, <1>2, <1>4, <1>5 DEF OneReader
  <1>10. OnePlace
    <2>1. Len(queue) = 0 /\ DOMAIN queue = {}
      BY <1>1
    <2>2. \A i \in Objects : db[i].batch = <<>> /\ DOMAIN db[i].batch = {}
      BY <1>2, <1>4
    <2>3. \A f \in DOMAIN disk : DOMAIN Rows(f) = {}
      BY <1>4, <1>5
    <2>4. QED
      BY <1>1, <2>1, <2>2, <2>3 DEF OnePlace
  <1>11. Fetches
    <2>1. Answer(<<>>, 0, 0)
      <3>1. 0 \in 0 .. 0 /\ 0 + Len(<<>>) <= 0 /\ DOMAIN <<>> = {}
        OBVIOUS
      <3>2. QED
        BY <3>1 DEF Answer
    <2>2. \A i \in Objects : FromFile(db[i].next, FileOf(i)) /\ FromFile(db[i].selected, FileOf(i))
      BY <1>2, <1>4, <1>5, <2>1 DEF FromFile
    <2>3. \A i \in Objects : Elements(db[i].next) \cup Elements(db[i].selected) = {}
      BY <1>2, <1>4 DEF Elements
    <2>4. QED
      BY <2>2, <2>3 DEF Fetches
  <1>12. Packs
    <2>1. deletePoint <= Gone(FileOf(readDb))
      BY <1>1, <1>5
    <2>2. QED
      BY <1>1, <2>1 DEF Packs
  <1>13. Drains
    BY <1>1, <1>2, <1>4 DEF Drains
  <1>14. AllLocated
    BY <1>1 DEF AllLocated
  <1>15. QED
    BY <1>6, <1>7, <1>8, <1>9, <1>10, <1>11, <1>12, <1>13, <1>14 DEF IInv

LEMMA NextKeeps == IInv /\ [Next]_vars => IInv'
  <1> SUFFICES ASSUME IInv, [Next]_vars PROVE IInv'
    OBVIOUS
  <1>1. CASE PutReachesMaximum \/ UNCHANGED vars
    BY <1>1, PutReachesMaximumKeeps
  <1>2. CASE Put
    BY <1>2, PutKeeps
  <1>3. ASSUME NEW i \in 1 .. MaxDatabases, DatabaseThread(i) PROVE IInv'
    <2>1. i \in Objects
      BY <1>3 DEF DatabaseThread, Objects
    <2>2. CASE RunEnds(i)
      BY <2>1, <2>2, RunEndsKeeps
    <2>3. CASE PrefetchSelect(i)
      BY <2>1, <2>3, PrefetchSelectKeeps
    <2>4. CASE PrefetchAssign(i)
      BY <2>1, <2>4, PrefetchAssignKeeps
    <2>5. CASE Process(i)
      BY <2>1, <2>5, ProcessKeeps
    <2>6. CASE Insert(i)
      BY <2>1, <2>6, InsertKeeps
    <2>7. CASE ProcessFileLimit(i)
      BY <2>1, <2>7, ProcessFileLimitKeeps
    <2>8. CASE RotateCleanup(i)
      BY <2>1, <2>8, RotateCleanupKeeps
    <2>9. CASE RotateStart(i)
      BY <2>1, <2>9, RotateStartKeeps
    <2>10. QED
      BY <1>3, <2>2, <2>3, <2>4, <2>5, <2>6, <2>7, <2>8, <2>9 DEF DatabaseThread
  <1>4. CASE GetEventPack
    BY <1>4, GetEventPackKeeps
  <1>5. CASE LeaveDrainedFile
    BY <1>5, LeaveDrainedFileKeeps
  <1>6. CASE DeleteData
    BY <1>6, DeleteDataKeeps
  <1>7. CASE CanPrepareNewBatch
    BY <1>7, CanPrepareNewBatchKeeps
  <1>8. CASE CheckDrainedFile
    BY <1>8, CheckDrainedFileKeeps
  <1>9. CASE SenderCleanup
    BY <1>9, SenderCleanupKeeps
  <1>10. CASE SenderStart
    BY <1>10, SenderStartKeeps
  <1>11. CASE FinalizeReadDatabase
    BY <1>11, FinalizeReadDatabaseKeeps
  <1>12. CASE DeleteDbFiles
    BY <1>12, DeleteDbFilesKeeps
  <1>13. CASE ReopenReadDatabase
    BY <1>13, ReopenReadDatabaseKeeps
  <1>14. CASE CheckMaxDbCount
    BY <1>14, CheckMaxDbCountKeeps
  <1>15. CASE Stop
    BY <1>15, StopKeeps
  <1>16. CASE Restart
    BY <1>16, RestartKeeps
  <1>17. QED
    BY <1>1, <1>2, <1>3, <1>4, <1>5, <1>6, <1>7, <1>8, <1>9, <1>10, <1>11, <1>12, <1>13, <1>14, <1>15, <1>16
    DEF Next, Sender

\* The inductive invariant: the databases read and write as they were created to,
\* and every message is where the code can account for it.
THEOREM Invariance == Spec => []IInv
  <1>1. QED
    BY InitHolds, NextKeeps, PTL DEF Spec

\* Whatever the limits, the threads' interleaving and the restarts: a message
\* put() answered True for is in the queue, in the hands of a thread, unread in a
\* file of the list, processed, or lost for a known reason, and that is never the
\* deletion of a file whose rows were there when it was found drained.
THEOREM NothingIsLostUnseen == Spec => []Accounted
  <1>1. IInv => Accounted
    <2>1. SUFFICES ASSUME IInv PROVE Accounted
      OBVIOUS
    <2>2. SqliteTypeOK /\ Structure /\ Drains /\ AllLocated
      BY <2>1 DEF IInv
    <2>3. ASSUME NEW m \in 1 .. accepted, NEW f \in DOMAIN disk, There(f), NEW k \in DOMAIN Rows(f), k > Gone(f), Rows(f)[k] = m
          PROVE  f \in Elements(files) /\ disk[f].there /\ m \in Unread(f)
      <3>1. Elements(RowIds(f)) = Gone(f) + 1 .. Len(Rows(f)) /\ DOMAIN Rows(f) = 1 .. Len(Rows(f)) /\ Gone(f) \in Nat /\ Len(Rows(f)) \in Nat
        BY <2>2, RowIdsAre, FileFields DEF SqliteTypeOK
      <3>2. k \in Elements(RowIds(f))
        BY <2>3, <3>1
      <3>3. m \in Unread(f)
        BY <2>3, <3>2 DEF Unread, Rows
      <3>4. f \in Elements(files) /\ disk[f].there
        BY <2>2, <2>3 DEF Structure, There
      <3>5. QED
        BY <3>3, <3>4
    <2>4. ASSUME NEW m \in 1 .. accepted
          PROVE  \/ m \in Elements(queue)
                 \/ \E i \in DOMAIN db : m \in Elements(db[i].batch)
                 \/ \E f \in Elements(files) : disk[f].there /\ m \in Unread(f)
                 \/ m \in done
                 \/ \E p \in lost : p[1] = m
      <3>1. Located(m)
        BY <2>2 DEF AllLocated
      <3>2. QED
        BY <2>3, <3>1 DEF Located, Objects
    <2>5. \A p \in lost : p[2] # "unread"
      BY <2>2 DEF Drains
    <2>6. QED
      BY <2>2, <2>4, <2>5 DEF Accounted
  <1>2. QED
    BY <1>1, Invariance, PTL

\* A message of a processed pack is handed out again only when the prefetch had
\* queried it before the delete and assigned its answer after
\* can_prepare_new_batch(); nothing else brings a deleted row back, not even a
\* restart.
THEOREM RereadOnlyWhenOvertaken == Spec => []RereadWasInFlight
  <1>1. IInv => RereadWasInFlight
    BY DEF IInv, Packs, RereadWasInFlight
  <1>2. QED
    BY <1>1, Invariance, PTL

\* The reader is left without a database only by reopen, and only while a
\* database thread is between the old write database and the new one.
THEOREM ReaderLosesItOnlyToARotation == Spec => ReaderKeepsDatabase
  <1>1. ASSUME IInv, [Next]_vars, readDb # 0, readDb' = 0
        PROVE  \E i \in DOMAIN db : db[i].pc = "start"
    <2>1. SqliteTypeOK /\ Rotation
      BY <1>1 DEF IInv
    <2>2. CASE ReopenReadDatabase
      <3>1. Len(db) + 1 # 0
        BY <2>1, Numbers
      <3>2. writeDb = 0 /\ sender = "reopen"
        BY <1>1, <2>2, <3>1 DEF ReopenReadDatabase
      <3>3. QED
        BY <2>1, <3>2 DEF Rotation, Objects
    <2>3. CASE Restart
      BY <1>1, <2>3 DEF Restart
    <2>4. ASSUME NEW i \in 1 .. MaxDatabases, DatabaseThread(i) PROVE readDb' = readDb
      BY <2>4 DEF DatabaseThread, RunEnds, PrefetchSelect, PrefetchAssign, Process, Insert, ProcessFileLimit,
                  RotateCleanup, RotateStart
    <2>5. CASE Put \/ PutReachesMaximum \/ Stop \/ UNCHANGED vars
      BY <1>1, <2>5 DEF Put, PutReachesMaximum, Stop, vars, storeVars
    <2>6. CASE \/ GetEventPack \/ LeaveDrainedFile \/ DeleteData \/ CanPrepareNewBatch \/ CheckDrainedFile
               \/ SenderCleanup \/ SenderStart \/ FinalizeReadDatabase \/ DeleteDbFiles \/ CheckMaxDbCount
      BY <1>1, <2>6 DEF GetEventPack, LeaveDrainedFile, DeleteData, CanPrepareNewBatch, CheckDrainedFile,
                        SenderCleanup, SenderStart, FinalizeReadDatabase, DeleteDbFiles, CheckMaxDbCount, storeVars
    <2>7. QED
      BY <1>1, <2>2, <2>3, <2>4, <2>5, <2>6 DEF Next, Sender
  <1>2. QED
    BY <1>1, Invariance, PTL DEF Spec, ReaderKeepsDatabase
=============================================================================
