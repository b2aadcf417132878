------------------------ MODULE DeviceRegistryProofs ------------------------
(***************************************************************************)
(* For any devices, names, calls, notices and faults: the file holds what  *)
(* is connected, a deleted device stays deleted, and the dictionaries      *)
(* agree.                                                                  *)
(*                                                                         *)
(* None of the three is inductive, since they speak of moments when no     *)
(* call is under way.  The invariant says what they owe to the calls that  *)
(* are: a save still to come will bring the file up to date (FileFresh),   *)
(* an unlink will park the renamed device (NamesKept), tell the platform   *)
(* (PlatformKnows) and store None only for a device on record              *)
(* (NoneExplained), and neither the file nor what is being written to it   *)
(* holds a deleted device when the notification loads it (GoneStaysGone).  *)
(***************************************************************************)
EXTENDS DeviceRegistry, TLAPS

(***************************************************************************)
(* What the threads are doing.                                             *)
(***************************************************************************)
Contents == [Devices -> Names \cup {No, Absent}]
Steps == [step : {"save", "announce", "unlink", "load"}, dev : Names,
          next : {"announce", "done", "load", "info", "None"}]
Writes == [step : {"write"}, dev : Names, next : {"announce", "done", "load"}, data : Contents]

\* The steps of thread t: only the notifications load, and only the name of a
\* notification may be no device of the connector.
StepOf(t, r) ==
    /\ r \in {NoOp} \cup Steps \cup Writes
    /\ r # NoOp /\ t = Platform => r.step = "load" \/ (r.step \in {"save", "write"} /\ r.next = "load")
    /\ r # NoOp /\ t # Platform => r.dev \in Devices /\ r.step # "load" /\ r.next # "load"
    /\ r.step = "unlink" => r.next \in {"info", "None"}
    /\ r.step = "save" => r.next \in {"announce", "done", "load"}

LoopTypeOK ==
    /\ up \in BOOLEAN /\ subscribed \in BOOLEAN
    /\ idlePc \in {"waiting", "scanning", "deleting", "dead"} /\ watchPc \in {"idle", "adding"}
    /\ todo \in [{Watcher, Idle} -> SUBSET Devices]

RecordsTypeOK ==
    /\ lock \in BOOLEAN /\ failed \in BOOLEAN
    /\ connected \subseteq Devices /\ saved \subseteq Devices /\ added \subseteq Devices
    /\ platform \subseteq Devices
    /\ renamed \in [Names -> Names \cup {No}] /\ \A n \in Names : renamed[n] # n
    /\ parked \in [Devices -> {No, "info", "None"}]
    /\ file \in {Truncated} \cup Contents
    /\ name \in [Devices -> Names \cup {Absent}]
    /\ \A d \in Devices : name[d] \in NewNames \cup {d, Absent}
    /\ unkept \subseteq Devices /\ removed \subseteq Devices /\ raced \subseteq Devices

OpTypeOK == DOMAIN op = Threads /\ \A t \in Threads : StepOf(t, op[t])

\* The lock is held while the file is being written, by one thread.
Writing(t) == op[t].step = "write"
LockOK ==
    /\ file = Truncated <=> lock
    /\ lock <=> \E t \in Threads : Writing(t)
    /\ \A t, u \in Threads : Writing(t) /\ Writing(u) => t = u

\* No device is renamed to itself in the file either.
NoSelfNames ==
    /\ file # Truncated => \A d \in Devices : file[d] # d
    /\ \A t \in Threads : Writing(t) => \A d \in Devices : op[t].data[d] # d

\* A renamed device is in one of the dictionaries, or on its way to the second.
NamesKept ==
    \A d \in Devices \ unkept : renamed[d] # No => d \in connected \/ parked[d] # No \/ Unlinking(d)

\* A file with these contents holds the connected devices and the names.
Holds(f) ==
    /\ \A d \in connected : f[d] # Absent
    /\ \A d \in Devices \ unkept : renamed[d] # No => f[d] = renamed[d]

\* Unless a save is still to come, the file, or what is being written, is up to date.
SaveToCome == \E t \in Threads : op[t].step \in {"save", "unlink"}
FileFresh ==
    ~failed /\ ~SaveToCome =>
        /\ ~lock => Holds(file)
        /\ \A t \in Threads : Writing(t) => Holds(op[t].data)

\* What is being announced, deleted or known to the platform.
AnnouncedIsConnected == \A d \in Devices : Announcing(d) => d \in connected \cup raced
UnlinkedIsNot == \A d \in Devices : Unlinking(d) => d \notin connected \/ d \in raced
UnlinkedByOne ==
    \A t, u \in Threads :
        op[t].step = "unlink" /\ op[u].step = "unlink" /\ op[t].dev = op[u].dev => t = u \/ op[t].dev \in raced
ConnectedIsSaved == connected \subseteq saved \cup raced
PlatformKnows == \A d \in platform : d \in connected \cup raced \/ Unlinking(d)
ThreadsApart ==
    AnnouncedIsConnected /\ UnlinkedIsNot /\ UnlinkedByOne /\ ConnectedIsSaved /\ PlatformKnows

\* An entry None.
NoneExplained ==
    /\ \A d \in Devices : parked[d] = "None" => d \in unkept \cup raced
    /\ \A t \in Threads : op[t].step = "unlink" /\ op[t].next = "None" /\ op[t].dev \notin raced =>
            /\ op[t].dev \notin connected /\ parked[op[t].dev] = No
            /\ renamed[op[t].dev] # No => op[t].dev \in unkept

\* A deleted device is nowhere, and not in what the notification will load.
Gone == removed \ (raced \cup unkept)
GoneStaysGone ==
    \A d \in Gone :
        /\ d \notin connected /\ parked[d] = No /\ renamed[d] = No /\ name[d] = Absent
        /\ op[Platform].step = "load" /\ ~lock => file[d] = Absent
        /\ op[Platform].step \in {"load", "write"} => \A t \in Threads : Writing(t) => op[t].data[d] = Absent

\* What the threads keep true of the records.
Kept ==
    /\ RecordsTypeOK /\ OpTypeOK /\ LockOK /\ NoSelfNames /\ NamesKept /\ FileFresh
    /\ ThreadsApart /\ NoneExplained /\ GoneStaysGone

IInv == LoopTypeOK /\ Kept

-----------------------------------------------------------------------------
(* Names, words and records.                                               *)
LEMMA Words ==
    /\ No \notin Names /\ Absent \notin Names /\ No # Absent
    /\ NewNames \subseteq Names /\ Devices \subseteq Names /\ NewNames \cap Devices = {}
  BY DeviceRegistryAssumption DEF DeviceRegistryAssumption, No, Absent, Names

LEMMA TruncatedApart == \A f \in Contents : f # Truncated
  <1> SUFFICES ASSUME NEW f \in Contents, f = Truncated PROVE FALSE
    OBVIOUS
  <1>1. PICK d \in Devices : TRUE
    BY DeviceRegistryAssumption DEF DeviceRegistryAssumption
  <1>2. f[d] = "truncated"
    BY <1>1 DEF Truncated
  <1>3. f[d] \in Names \cup {No, Absent}
    BY <1>1 DEF Contents
  <1>4. QED
    BY <1>2, <1>3, DeviceRegistryAssumption DEF DeviceRegistryAssumption, No, Absent

LEMMA EmptyContents == EmptyFile \in Contents /\ \A d \in Devices : EmptyFile[d] = Absent
  BY DEF EmptyFile, Contents

(* The fields of what a thread is doing.                                    *)
LEMMA StepFields ==
  ASSUME NEW t \in Threads, NEW r, StepOf(t, r)
  PROVE  /\ r = NoOp \/ r.step \in {"save", "announce", "unlink", "load", "write"}
         /\ r = NoOp => r.step = "none"
         /\ r # NoOp => r.step # "none" /\ r.dev \in Names /\ r.next \in {"announce", "done", "load", "info", "None"}
         /\ r.step \in {"announce", "unlink"} => t # Platform /\ r.dev \in Devices
         /\ r.step = "write" => r.data \in Contents /\ r.next \in {"announce", "done", "load"}
         /\ r.step = "load" => t = Platform
  BY DEF StepOf, NoOp, Steps, Writes

LEMMA OpFields == OpTypeOK => \A t \in Threads : StepOf(t, op[t])
  BY DEF OpTypeOK

LEMMA NewSteps ==
  /\ \A t \in Threads : StepOf(t, NoOp)
  /\ \A t \in Threads \ {Platform}, d \in Devices :
        /\ \A n \in {"announce", "done"} : StepOf(t, Op("save", d, n))
        /\ StepOf(t, Op("announce", d, "done"))
        /\ \A n \in {"info", "None"} : StepOf(t, Op("unlink", d, n))
  /\ \A n \in Names : StepOf(Platform, Op("save", n, "load")) /\ StepOf(Platform, Op("load", n, "done"))
  BY Words DEF StepOf, NoOp, Op, Steps

(* A thread takes a step: the others go on with what they were doing.       *)
LEMMA Turn ==
  ASSUME OpTypeOK, NEW t \in Threads, NEW r, StepOf(t, r), op' = [op EXCEPT ![t] = r]
  PROVE  OpTypeOK' /\ op'[t] = r /\ \A u \in Threads \ {t} : op'[u] = op[u]
  BY DEF OpTypeOK

(* What a step leaves alone.                                               *)
recordVars == <<memVars, file, lock, op, platformVars, histVars>>

LEMMA NothingMoves ==
  ASSUME Kept, UNCHANGED recordVars
  PROVE  Kept'
  <1>1. UNCHANGED <<connected, saved, added, renamed, parked, file, lock, op, platform, name, unkept, removed, raced, failed>>
    BY DEF recordVars, memVars, platformVars, histVars
  <1>2. RecordsTypeOK' /\ OpTypeOK'
    BY <1>1 DEF Kept, RecordsTypeOK, OpTypeOK
  <1>3. LockOK' /\ NoSelfNames'
    BY <1>1 DEF Kept, LockOK, NoSelfNames, Writing
  <1>4. NamesKept' /\ FileFresh'
    BY <1>1 DEF Kept, NamesKept, FileFresh, Unlinking, SaveToCome, Holds, Writing
  <1>5. ThreadsApart'
    BY <1>1 DEF Kept, ThreadsApart, AnnouncedIsConnected, UnlinkedIsNot, UnlinkedByOne, ConnectedIsSaved,
                PlatformKnows, Announcing, Unlinking, Free
  <1>6. NoneExplained' /\ GoneStaysGone'
    BY <1>1 DEF Kept, NoneExplained, GoneStaysGone, Gone, Writing
  <1>7. QED
    BY <1>2, <1>3, <1>4, <1>5, <1>6 DEF Kept

LEMMA AnnounceKeeps ==
  ASSUME Kept, NEW t \in Threads, Announce(t)
  PROVE  Kept'
  <1>1. RecordsTypeOK /\ OpTypeOK /\ LockOK /\ NoSelfNames /\ NamesKept /\ FileFresh
        /\ ThreadsApart /\ NoneExplained /\ GoneStaysGone
    BY DEF Kept
  <1>2. PICK d \in Devices : op[t].dev = d
    BY <1>1, OpFields, StepFields DEF Announce
  <1>3. /\ op[t].step = "announce"
        /\ platform' = platform \cup {d}
        /\ name' = [name EXCEPT ![d] = IF @ = Absent THEN d ELSE @]
        /\ added' = IF d \in saved THEN added \cup {d} ELSE added
        /\ op' = [op EXCEPT ![t] = NoOp]
        /\ UNCHANGED <<connected, saved, renamed, parked, file, lock, unkept, removed, raced, failed>>
    BY <1>2 DEF Announce, histVars
  <1>4. OpTypeOK' /\ op'[t] = NoOp /\ \A u \in Threads \ {t} : op'[u] = op[u]
    BY <1>1, <1>3, NewSteps, Turn
  <1>5. NoOp.step = "none"
    BY DEF NoOp
  <1>6. /\ \A u \in Threads : Writing(u)' <=> Writing(u)
        /\ \A u \in Threads : op'[u].step = "unlink" <=> op[u].step = "unlink"
        /\ \A x \in Devices : (Unlinking(x)' <=> Unlinking(x)) /\ (Announcing(x)' => Announcing(x))
        /\ SaveToCome' <=> SaveToCome
    BY <1>3, <1>4, <1>5 DEF Writing, Unlinking, Announcing, SaveToCome, Free
  <1>7. d \in connected \cup raced
    <2>1. Announcing(d)
      BY <1>2, <1>3, <1>5 DEF Announcing, Free
    <2>2. QED
      BY <1>1, <2>1 DEF ThreadsApart, AnnouncedIsConnected
  <1>8. RecordsTypeOK'
    BY <1>1, <1>3, Words DEF RecordsTypeOK
  <1>9. LockOK' /\ NoSelfNames'
    BY <1>1, <1>3, <1>4, <1>6 DEF LockOK, NoSelfNames, Writing
  <1>10. NamesKept' /\ FileFresh'
    <2>1. \A u \in Threads : Writing(u)' => op'[u].data = op[u].data
      BY <1>4, <1>5 DEF Writing
    <2>2. \A f : Holds(f)' <=> Holds(f)
      BY <1>3 DEF Holds
    <2>3. FileFresh'
      <3>1. SUFFICES ASSUME ~failed, ~SaveToCome
                     PROVE  /\ ~lock => Holds(file)'
                            /\ \A u \in Threads : Writing(u)' => Holds(op[u].data)'
        BY <1>3, <1>6 DEF FileFresh
      <3>2. QED
        BY <1>1, <1>3, <1>6, <2>1, <2>2, <3>1 DEF FileFresh
    <2>4. QED
      BY <1>1, <1>3, <1>6, <2>3 DEF NamesKept
  <1>11. ThreadsApart'
    <2>1. AnnouncedIsConnected' /\ UnlinkedIsNot' /\ ConnectedIsSaved'
      BY <1>1, <1>3, <1>6 DEF ThreadsApart, AnnouncedIsConnected, UnlinkedIsNot, ConnectedIsSaved
    <2>2. UnlinkedByOne'
      BY <1>1, <1>3, <1>4, <1>6 DEF ThreadsApart, UnlinkedByOne
    <2>3. PlatformKnows'
      BY <1>1, <1>3, <1>6, <1>7 DEF ThreadsApart, PlatformKnows, RecordsTypeOK
    <2>4. QED
      BY <2>1, <2>2, <2>3 DEF ThreadsApart
  <1>12. NoneExplained'
    BY <1>1, <1>3, <1>4, <1>6 DEF NoneExplained
  <1>13. GoneStaysGone'
    BY <1>1, <1>3, <1>4, <1>5, <1>6, <1>7 DEF GoneStaysGone, Gone, Writing, RecordsTypeOK
  <1>14. QED
    BY <1>4, <1>8, <1>9, <1>10, <1>11, <1>12, <1>13 DEF Kept

-----------------------------------------------------------------------------
(* __save_persistent_devices()                                             *)

LEMMA FreshWhenToCome == SaveToCome' \/ failed' => FileFresh'
  BY DEF FileFresh

LEMMA SnapshotIs ==
  ASSUME RecordsTypeOK
  PROVE  LET f == Snapshot(connected, renamed, parked)
         IN  /\ f \in Contents
             /\ \A d \in Devices : /\ f[d] = IF d \in connected \/ parked[d] # No THEN renamed[d] ELSE Absent
                                   /\ f[d] # d /\ (f[d] = Absent <=> d \notin connected /\ parked[d] = No)
  BY Words DEF Snapshot, RecordsTypeOK, Contents

LEMMA SaveRaisesKeeps ==
  ASSUME Kept, NEW t \in Threads, op[t].step = "save", op' = [op EXCEPT ![t] = NoOp], failed' = TRUE,
         UNCHANGED <<memVars, file, lock, platformVars, unkept, removed, raced>>
  PROVE  Kept'
  <1>1. RecordsTypeOK /\ OpTypeOK /\ LockOK /\ NoSelfNames /\ NamesKept
        /\ ThreadsApart /\ NoneExplained /\ GoneStaysGone
    BY DEF Kept
  <1>2. UNCHANGED <<connected, saved, added, renamed, parked, file, lock, platform, name, unkept, removed, raced>>
    BY DEF memVars, platformVars
  <1>3. OpTypeOK' /\ op'[t] = NoOp /\ \A u \in Threads \ {t} : op'[u] = op[u]
    BY <1>1, NewSteps, Turn
  <1>4. NoOp.step = "none"
    BY DEF NoOp
  <1>5. /\ \A u \in Threads : (Writing(u)' <=> Writing(u)) /\ (op'[u].step # "none" => op'[u] = op[u])
        /\ \A x \in Devices : (Unlinking(x)' <=> Unlinking(x)) /\ (Announcing(x)' => Announcing(x))
    BY <1>3, <1>4 DEF Writing, Unlinking, Announcing, Free
  <1>6. RecordsTypeOK'
    BY <1>1, <1>2 DEF RecordsTypeOK
  <1>7. LockOK' /\ NoSelfNames'
    BY <1>1, <1>2, <1>3, <1>5 DEF LockOK, NoSelfNames, Writing
  <1>8. NamesKept' /\ FileFresh'
    BY <1>1, <1>2, <1>5, FreshWhenToCome DEF NamesKept
  <1>9. ThreadsApart'
    <2>1. AnnouncedIsConnected' /\ UnlinkedIsNot' /\ ConnectedIsSaved' /\ PlatformKnows'
      BY <1>1, <1>2, <1>5 DEF ThreadsApart, AnnouncedIsConnected, UnlinkedIsNot, ConnectedIsSaved, PlatformKnows,
         RecordsTypeOK
    <2>2. UnlinkedByOne'
      BY <1>1, <1>2, <1>5 DEF ThreadsApart, UnlinkedByOne
    <2>3. QED
      BY <2>1, <2>2 DEF ThreadsApart
  <1>10. NoneExplained'
    BY <1>1, <1>2, <1>5 DEF NoneExplained
  <1>11. GoneStaysGone'
    BY <1>1, <1>2, <1>3, <1>4, <1>5 DEF GoneStaysGone, Gone, Writing, RecordsTypeOK
  <1>12. QED
    BY <1>3, <1>6, <1>7, <1>8, <1>9, <1>10, <1>11 DEF Kept

LEMMA SaveOpensKeeps ==
  ASSUME Kept, NEW t \in Threads, op[t].step = "save", ~lock, NEW f, f = Snapshot(connected, renamed, parked),
         file' = Truncated, lock' = TRUE,
         op' = [op EXCEPT ![t] = [step |-> "write", dev |-> op[t].dev, next |-> op[t].next, data |-> f]],
         UNCHANGED <<memVars, platformVars, histVars>>
  PROVE  Kept'
  <1>1. RecordsTypeOK /\ OpTypeOK /\ LockOK /\ NoSelfNames /\ NamesKept /\ FileFresh
        /\ ThreadsApart /\ NoneExplained /\ GoneStaysGone
    BY DEF Kept
  <1>2. UNCHANGED <<connected, saved, added, renamed, parked, platform, name, unkept, removed, raced, failed>>
    BY DEF memVars, platformVars, histVars
  <1>3. /\ f \in Contents
        /\ \A d \in Devices : /\ f[d] = IF d \in connected \/ parked[d] # No THEN renamed[d] ELSE Absent
                              /\ f[d] # d /\ (f[d] = Absent <=> d \notin connected /\ parked[d] = No)
    BY <1>1, SnapshotIs
  <1> DEFINE w == [step |-> "write", dev |-> op[t].dev, next |-> op[t].next, data |-> f]
  <1>4. w.step = "write" /\ w.dev = op[t].dev /\ w.next = op[t].next /\ w.data = f
    OBVIOUS
  <1>5. StepOf(t, w)
    BY <1>1, <1>3, OpFields DEF StepOf, NoOp, Steps, Writes
  <1>6. OpTypeOK' /\ op'[t] = w /\ \A u \in Threads \ {t} : op'[u] = op[u]
    BY <1>1, <1>5, Turn
  <1>7. op[t] # NoOp /\ w # NoOp
    BY <1>4 DEF NoOp
  <1> HIDE DEF w
  <1>8. \A u \in Threads : ~Writing(u)
    BY <1>1 DEF LockOK
  <1>9. /\ Writing(t)' /\ \A u \in Threads \ {t} : ~Writing(u)'
        /\ \A u \in Threads : op'[u].step = "unlink" => op'[u] = op[u]
        /\ \A x \in Devices : (Unlinking(x)' <=> Unlinking(x)) /\ (Announcing(x)' <=> Announcing(x))
    BY <1>4, <1>6, <1>7, <1>8 DEF Writing, Unlinking, Announcing, Free
  <1>10. RecordsTypeOK'
    BY <1>1, <1>2 DEF RecordsTypeOK
  <1>11. LockOK' /\ NoSelfNames'
    BY <1>3, <1>4, <1>6, <1>9 DEF LockOK, NoSelfNames
  <1>12. NamesKept'
    BY <1>1, <1>2, <1>9 DEF NamesKept
  <1>13. FileFresh'
    <2>1. SUFFICES ASSUME ~SaveToCome' PROVE Holds(f)'
      BY <1>4, <1>6, <1>9 DEF FileFresh
    <2>2. \A d \in Devices : ~Unlinking(d)
      BY <1>9, <2>1 DEF SaveToCome, Unlinking
    <2>3. \A d \in connected : f[d] # Absent
      BY <1>1, <1>3 DEF RecordsTypeOK
    <2>4. \A d \in Devices \ unkept : renamed[d] # No => f[d] = renamed[d]
      BY <1>1, <1>3, <2>2 DEF NamesKept
    <2>5. QED
      BY <1>2, <2>3, <2>4 DEF Holds
  <1>14. ThreadsApart'
    <2>1. AnnouncedIsConnected' /\ UnlinkedIsNot' /\ ConnectedIsSaved' /\ PlatformKnows'
      BY <1>1, <1>2, <1>9 DEF ThreadsApart, AnnouncedIsConnected, UnlinkedIsNot, ConnectedIsSaved, PlatformKnows,
         RecordsTypeOK
    <2>2. UnlinkedByOne'
      BY <1>1, <1>2, <1>9 DEF ThreadsApart, UnlinkedByOne
    <2>3. QED
      BY <2>1, <2>2 DEF ThreadsApart
  <1>15. NoneExplained'
    BY <1>1, <1>2, <1>9 DEF NoneExplained
  <1>16. GoneStaysGone'
    BY <1>1, <1>2, <1>3, <1>4, <1>6, <1>9 DEF GoneStaysGone, Gone, RecordsTypeOK
  <1>17. QED
    BY <1>6, <1>10, <1>11, <1>12, <1>13, <1>14, <1>15, <1>16 DEF Kept

LEMMA SaveOpenKeeps ==
  ASSUME Kept, NEW t \in Threads, SaveOpen(t)
  PROVE  Kept'
  <1>1. CASE SaveRaises(parked)
    BY <1>1, SaveRaisesKeeps DEF SaveOpen
  <1>2. CASE ~SaveRaises(parked)
    BY <1>2, SaveOpensKeeps DEF SaveOpen, MaySave, histVars
  <1>3. QED
    BY <1>1, <1>2

LEMMA SaveWriteKeeps ==
  ASSUME Kept, NEW t \in Threads, SaveWrite(t)
  PROVE  Kept'
  <1>1. RecordsTypeOK /\ OpTypeOK /\ LockOK /\ NoSelfNames /\ NamesKept /\ FileFresh
        /\ ThreadsApart /\ NoneExplained /\ GoneStaysGone
    BY DEF Kept
  <1>2. /\ op[t].step = "write" /\ file' = op[t].data /\ lock' = FALSE
        /\ UNCHANGED <<connected, saved, added, renamed, parked, platform, name, unkept, removed, raced, failed>>
    BY DEF SaveWrite, memVars, platformVars, histVars
  <1>3. /\ op[t] \in Writes /\ op[t] # NoOp /\ op[t].dev \in Names /\ op[t].next \in {"announce", "done", "load"}
        /\ t = Platform => op[t].next = "load"
        /\ t # Platform => op[t].next # "load" /\ op[t].dev \in Devices
        /\ op[t].data \in Contents
    BY <1>1, <1>2, OpFields DEF StepOf, NoOp, Steps, Writes
  <1> DEFINE r == IF op[t].next = "done" THEN NoOp ELSE Op(op[t].next, op[t].dev, "done")
  <1>4. StepOf(t, r) /\ op' = [op EXCEPT ![t] = r]
    BY <1>3, NewSteps DEF SaveWrite
  <1>5. /\ r.step \in {"none", "announce", "load"} /\ (r.step = "load" <=> t = Platform)
        /\ r # NoOp => r.dev = op[t].dev /\ r.step = op[t].next /\ r.next = "done"
    BY <1>3 DEF Op, NoOp
  <1> HIDE DEF r
  <1>6. OpTypeOK' /\ op'[t] = r /\ \A u \in Threads \ {t} : op'[u] = op[u]
    BY <1>1, <1>4, Turn
  <1>7. \A u \in Threads \ {t} : ~Writing(u)
    BY <1>1, <1>2 DEF LockOK, Writing
  <1>8. /\ \A u \in Threads : ~Writing(u)'
        /\ \A u \in Threads : op'[u].step \in {"save", "unlink"} <=> op[u].step \in {"save", "unlink"}
        /\ \A u \in Threads : op'[u].step = "unlink" => op'[u] = op[u]
        /\ SaveToCome' <=> SaveToCome
    BY <1>2, <1>5, <1>6, <1>7 DEF Writing, SaveToCome
  <1>9. \A x \in Devices : (Unlinking(x)' <=> Unlinking(x)) /\ (Announcing(x)' => Announcing(x))
    BY <1>2, <1>3, <1>5, <1>6 DEF Unlinking, Announcing, Free
  <1>10. RecordsTypeOK'
    BY <1>1, <1>2, <1>3 DEF RecordsTypeOK
  <1>11. LockOK' /\ NoSelfNames'
    BY <1>1, <1>2, <1>3, <1>8, TruncatedApart DEF LockOK, NoSelfNames, Writing
  <1>12. NamesKept'
    BY <1>1, <1>2, <1>9 DEF NamesKept
  <1>13. FileFresh'
    <2>1. SUFFICES ASSUME ~failed, ~SaveToCome PROVE Holds(file)'
      BY <1>2, <1>8 DEF FileFresh
    <2>2. Holds(op[t].data)
      BY <1>1, <1>2, <2>1 DEF FileFresh, Writing
    <2>3. QED
      BY <1>2, <2>2 DEF Holds
  <1>14. ThreadsApart'
    <2>1. AnnouncedIsConnected' /\ UnlinkedIsNot' /\ ConnectedIsSaved' /\ PlatformKnows'
      BY <1>1, <1>2, <1>9 DEF ThreadsApart, AnnouncedIsConnected, UnlinkedIsNot, ConnectedIsSaved, PlatformKnows,
         RecordsTypeOK
    <2>2. UnlinkedByOne'
      BY <1>1, <1>2, <1>8 DEF ThreadsApart, UnlinkedByOne
    <2>3. QED
      BY <2>1, <2>2 DEF ThreadsApart
  <1>15. NoneExplained'
    BY <1>1, <1>2, <1>8 DEF NoneExplained
  <1>16. GoneStaysGone'
    <2>1. ASSUME NEW d \in Gone, op'[Platform].step = "load" PROVE op[t].data[d] = Absent
      <3>1. op[Platform].step \in {"load", "write"}
        <4>1. CASE Platform = t
          BY <1>2, <4>1
        <4>2. CASE Platform # t
          BY <1>6, <2>1, <4>2 DEF Threads
        <4>3. QED
          BY <4>1, <4>2
      <3>2. Writing(t)
        BY <1>2 DEF Writing
      <3>3. QED
        BY <1>1, <2>1, <3>1, <3>2 DEF GoneStaysGone
    <2>2. Gone' = Gone
      BY <1>2 DEF Gone
    <2>3. \A d \in Gone : d \notin connected /\ parked[d] = No /\ renamed[d] = No /\ name[d] = Absent
      BY <1>1 DEF GoneStaysGone
    <2>4. QED
      BY <1>2, <1>8, <2>1, <2>2, <2>3 DEF GoneStaysGone
  <1>17. QED
    BY <1>6, <1>10, <1>11, <1>12, <1>13, <1>14, <1>15, <1>16 DEF Kept

-----------------------------------------------------------------------------
(* del_device()                                                            *)

LEMMA DelPopKeeps ==
  ASSUME Kept, NEW t \in Threads \ {Platform}, Free(t), NEW d \in Devices, DelPop(t, d)
  PROVE  Kept'
  <1>1. RecordsTypeOK /\ OpTypeOK /\ LockOK /\ NoSelfNames /\ NamesKept
        /\ ThreadsApart /\ NoneExplained /\ GoneStaysGone
    BY DEF Kept
  <1> DEFINE kind == IF d \in connected \/ parked[d] = "info" THEN "info" ELSE "None"
             r == Op("unlink", d, kind)
  <1>2. /\ connected' = connected \ {d}
        /\ parked' = IF d \in connected THEN parked ELSE [parked EXCEPT ![d] = No]
        /\ raced' = IF Announcing(d) \/ Unlinking(d) THEN raced \cup {d} ELSE raced
        /\ op' = [op EXCEPT ![t] = r]
        /\ UNCHANGED <<saved, added, renamed, file, lock, platform, name, unkept, removed, failed>>
    BY DEF DelPop, platformVars
  <1>3. StepOf(t, r) /\ r # NoOp /\ r.step = "unlink" /\ r.dev = d /\ r.next = kind
    BY NewSteps DEF Op, NoOp
  <1>4. op[t] = NoOp /\ NoOp.step = "none"
    BY DEF Free, NoOp
  <1>5. OpTypeOK' /\ op'[t] = r /\ \A u \in Threads \ {t} : op'[u] = op[u]
    BY <1>1, <1>2, <1>3, Turn
  <1>6. kind = "None" => d \notin connected /\ parked[d] # "info"
    OBVIOUS
  <1>7. kind \in {"info", "None"}
    OBVIOUS
  <1> HIDE DEF r, kind
  <1>8. /\ \A u \in Threads : (Writing(u)' <=> Writing(u)) /\ (Writing(u) => op'[u] = op[u])
        /\ \A u \in Threads : op'[u].step = "unlink" => u = t \/ op'[u] = op[u]
        /\ SaveToCome'
    BY <1>3, <1>4, <1>5 DEF Writing, SaveToCome
  <1>9. \A x \in Devices : (Unlinking(x)' <=> Unlinking(x) \/ x = d)
    BY <1>3, <1>4, <1>5 DEF Unlinking
  <1>10. \A x \in Devices : Announcing(x)' => Announcing(x)
    BY <1>3, <1>5, <1>7 DEF Announcing, Free
  <1>11. RecordsTypeOK'
    BY <1>1, <1>2 DEF RecordsTypeOK
  <1>12. LockOK' /\ NoSelfNames'
    BY <1>1, <1>2, <1>8 DEF LockOK, NoSelfNames
  <1>13. /\ \A x \in Devices : parked'[x] = parked[x] \/ (x = d /\ d \notin connected /\ parked'[x] = No)
         /\ d \notin connected => parked'[d] = No
         /\ raced \subseteq raced' /\ (Announcing(d) \/ Unlinking(d) => d \in raced')
    BY <1>1, <1>2 DEF RecordsTypeOK
  <1>14. NamesKept' /\ FileFresh'
    <2>1. NamesKept'
      BY <1>1, <1>2, <1>9, <1>13 DEF NamesKept
    <2>2. QED
      BY <1>8, <2>1, FreshWhenToCome
  <1>15. ThreadsApart'
    <2>1. AnnouncedIsConnected' /\ UnlinkedIsNot' /\ ConnectedIsSaved'
      BY <1>1, <1>2, <1>9, <1>10, <1>13 DEF ThreadsApart, AnnouncedIsConnected, UnlinkedIsNot, ConnectedIsSaved
    <2>2. UnlinkedByOne'
      <3>1. \A u \in Threads \ {t} : op[u].step = "unlink" /\ op[u].dev = d => d \in raced'
        BY <1>13 DEF Unlinking
      <3>2. QED
        BY <1>1, <1>3, <1>5, <1>13, <3>1 DEF ThreadsApart, UnlinkedByOne
    <2>3. PlatformKnows'
      BY <1>1, <1>2, <1>9, <1>13 DEF ThreadsApart, PlatformKnows, RecordsTypeOK
    <2>4. QED
      BY <2>1, <2>2, <2>3 DEF ThreadsApart
  <1>16. NoneExplained'
    <2>1. \A x \in Devices : parked'[x] = "None" => x \in unkept' \cup raced'
      BY <1>1, <1>2, <1>13 DEF NoneExplained, No
    <2>2. ASSUME NEW u \in Threads, op'[u].step = "unlink", op'[u].next = "None", op'[u].dev \notin raced'
          PROVE  /\ op'[u].dev \notin connected' /\ parked'[op'[u].dev] = No
                 /\ renamed'[op'[u].dev] # No => op'[u].dev \in unkept'
      <3>1. CASE u = t
        <4>1. d \notin connected /\ parked[d] # "info" /\ d \notin raced' /\ op'[u].dev = d
          BY <1>3, <1>5, <1>6, <2>2, <3>1
        <4>2. renamed[d] # No => d \in unkept
          BY <1>1, <1>13, <4>1 DEF NamesKept, NoneExplained, RecordsTypeOK
        <4>3. QED
          BY <1>2, <1>13, <4>1, <4>2
      <3>2. CASE u # t
        <4>1. op'[u] = op[u] /\ op[u].dev \in Devices
          BY <1>1, <1>5, <2>2, <3>2, OpFields, StepFields
        <4>2. /\ op[u].dev \notin connected /\ parked[op[u].dev] = No
              /\ renamed[op[u].dev] # No => op[u].dev \in unkept
          BY <1>1, <1>13, <2>2, <4>1 DEF NoneExplained
        <4>3. QED
          BY <1>2, <1>13, <4>1, <4>2
      <3>3. QED
        BY <3>1, <3>2
    <2>3. QED
      BY <2>1, <2>2 DEF NoneExplained
  <1>17. GoneStaysGone'
    <2>1. \A x \in Gone' : x \in Gone /\ x \in Devices
      BY <1>1, <1>2, <1>13 DEF Gone, RecordsTypeOK
    <2>2. op'[Platform] = op[Platform]
      BY <1>5 DEF Threads
    <2>3. QED
      BY <1>1, <1>2, <1>8, <1>13, <2>1, <2>2 DEF GoneStaysGone
  <1>18. QED
    BY <1>5, <1>11, <1>12, <1>14, <1>15, <1>16, <1>17 DEF Kept

LEMMA DelUnlinkKeeps ==
  ASSUME Kept, NEW t \in Threads, DelUnlink(t)
  PROVE  Kept'
  <1>1. RecordsTypeOK /\ OpTypeOK /\ LockOK /\ NoSelfNames /\ NamesKept
        /\ ThreadsApart /\ NoneExplained /\ GoneStaysGone
    BY DEF Kept
  <1>2. PICK d \in Devices : op[t].dev = d
    BY <1>1, OpFields, StepFields DEF DelUnlink
  <1> DEFINE r == Op("save", d, "done")
  <1>3. /\ op[t].step = "unlink"
        /\ platform' = platform \ {d} /\ saved' = saved \ {d} /\ added' = added \ {d}
        /\ parked' = IF renamed[d] = No THEN parked ELSE [parked EXCEPT ![d] = op[t].next]
        /\ op' = [op EXCEPT ![t] = r]
        /\ UNCHANGED <<name, connected, renamed, file, lock, unkept, removed, raced, failed>>
    BY <1>2 DEF DelUnlink, histVars
  <1>4. t # Platform /\ op[t].next \in {"info", "None"} /\ "info" # No /\ "None" # No
    BY <1>1, <1>3, OpFields DEF StepOf, NoOp, No
  <1>5. StepOf(t, r) /\ r # NoOp /\ r.step = "save" /\ r.dev = d /\ r.next = "done"
    BY <1>4, NewSteps DEF Op, NoOp
  <1>6. OpTypeOK' /\ op'[t] = r /\ \A u \in Threads \ {t} : op'[u] = op[u]
    BY <1>1, <1>3, <1>5, Turn
  <1> HIDE DEF r
  <1>7. /\ \A u \in Threads : (Writing(u)' <=> Writing(u)) /\ (Writing(u) => op'[u] = op[u])
        /\ \A u \in Threads : op'[u].step = "unlink" => u # t /\ op'[u] = op[u] /\ op[u].step = "unlink"
        /\ SaveToCome'
    BY <1>3, <1>5, <1>6 DEF Writing, SaveToCome
  <1>8. \A x \in Devices : (Unlinking(x)' => Unlinking(x)) /\ (Unlinking(x) /\ x # d => Unlinking(x)')
    BY <1>2, <1>3, <1>5, <1>6 DEF Unlinking
  <1>9. \A x \in Devices : Announcing(x)' => Announcing(x)
    BY <1>5, <1>6 DEF Announcing, Free
  <1>10. Unlinking(d) /\ (d \in connected => d \in raced)
    <2>1. Unlinking(d)
      BY <1>2, <1>3 DEF Unlinking
    <2>2. QED
      BY <1>1, <2>1 DEF ThreadsApart, UnlinkedIsNot
  <1>11. \A u \in Threads : op'[u].step = "unlink" /\ op[u].dev = d => d \in raced
    BY <1>1, <1>2, <1>3, <1>7 DEF ThreadsApart, UnlinkedByOne
  <1>12. \A x \in Devices : \/ parked'[x] = parked[x] /\ (x = d => renamed[d] = No)
                            \/ x = d /\ renamed[d] # No /\ parked'[x] = op[t].next
    BY <1>1, <1>3 DEF RecordsTypeOK
  <1>13. RecordsTypeOK'
    BY <1>1, <1>3, <1>4 DEF RecordsTypeOK
  <1>14. LockOK' /\ NoSelfNames'
    BY <1>1, <1>3, <1>7 DEF LockOK, NoSelfNames
  <1>15. NamesKept' /\ FileFresh'
    <2>1. NamesKept'
      BY <1>1, <1>3, <1>4, <1>8, <1>12 DEF NamesKept
    <2>2. QED
      BY <1>7, <2>1, FreshWhenToCome
  <1>16. ThreadsApart'
    <2>1. AnnouncedIsConnected' /\ UnlinkedIsNot' /\ ConnectedIsSaved'
      BY <1>1, <1>3, <1>8, <1>9, <1>10 DEF ThreadsApart, AnnouncedIsConnected, UnlinkedIsNot, ConnectedIsSaved
    <2>2. UnlinkedByOne'
      BY <1>1, <1>3, <1>7 DEF ThreadsApart, UnlinkedByOne
    <2>3. PlatformKnows'
      BY <1>1, <1>3, <1>8 DEF ThreadsApart, PlatformKnows, RecordsTypeOK
    <2>4. QED
      BY <2>1, <2>2, <2>3 DEF ThreadsApart
  <1>17. NoneExplained'
    <2>1. \A x \in Devices : parked'[x] = "None" => x \in unkept' \cup raced'
      BY <1>1, <1>2, <1>3, <1>12 DEF NoneExplained
    <2>2. ASSUME NEW u \in Threads, op'[u].step = "unlink", op'[u].next = "None", op'[u].dev \notin raced'
          PROVE  /\ op'[u].dev \notin connected' /\ parked'[op'[u].dev] = No
                 /\ renamed'[op'[u].dev] # No => op'[u].dev \in unkept'
      <3>1. op'[u] = op[u] /\ op[u].step = "unlink" /\ op[u].dev \in Devices /\ op[u].dev # d
        BY <1>1, <1>3, <1>7, <1>11, <2>2, OpFields, StepFields
      <3>2. QED
        BY <1>1, <1>3, <1>12, <2>2, <3>1 DEF NoneExplained
    <2>3. QED
      BY <2>1, <2>2 DEF NoneExplained
  <1>18. GoneStaysGone'
    <2>1. Gone' = Gone /\ Gone \subseteq Devices
      BY <1>1, <1>3 DEF Gone, RecordsTypeOK
    <2>2. op'[Platform] = op[Platform]
      BY <1>4, <1>6 DEF Threads
    <2>3. \A x \in Gone : parked'[x] = parked[x]
      BY <1>1, <1>12, <2>1 DEF GoneStaysGone
    <2>4. QED
      BY <1>1, <1>3, <1>7, <2>1, <2>2, <2>3 DEF GoneStaysGone
  <1>19. QED
    BY <1>6, <1>13, <1>14, <1>15, <1>16, <1>17, <1>18 DEF Kept

-----------------------------------------------------------------------------
(* add_device()                                                            *)

LEMMA AddRenamedKeeps ==
  ASSUME Kept, NEW t \in Threads \ {Platform}, Free(t), NEW d \in Devices, renamed[d] # No,
         parked' = [parked EXCEPT ![d] = No],
         unkept' = IF d \in connected THEN unkept ELSE unkept \cup {d},
         op' = [op EXCEPT ![t] = Op("save", d, "done")],
         UNCHANGED <<connected, saved, added, renamed, removed, raced, failed, file, lock, platformVars>>
  PROVE  Kept'
  <1>1. RecordsTypeOK /\ OpTypeOK /\ LockOK /\ NoSelfNames /\ NamesKept
        /\ ThreadsApart /\ NoneExplained /\ GoneStaysGone
    BY DEF Kept
  <1> DEFINE r == Op("save", d, "done")
  <1>2. /\ \A x \in Devices : parked'[x] = parked[x] \/ (x = d /\ parked'[x] = No)
        /\ unkept \subseteq unkept' /\ (d \in connected \/ d \in unkept')
        /\ unkept' \subseteq Devices
        /\ UNCHANGED <<connected, saved, added, renamed, removed, raced, failed, file, lock, platform, name>>
    BY <1>1 DEF RecordsTypeOK, platformVars
  <1>3. StepOf(t, r) /\ r # NoOp /\ r.step = "save" /\ r.next = "done"
    BY NewSteps DEF Op, NoOp
  <1>4. op[t] = NoOp /\ NoOp.step = "none"
    BY DEF Free, NoOp
  <1>5. OpTypeOK' /\ op'[t] = r /\ \A u \in Threads \ {t} : op'[u] = op[u]
    BY <1>1, <1>3, Turn
  <1> HIDE DEF r
  <1>6. /\ \A u \in Threads : (Writing(u)' <=> Writing(u)) /\ (Writing(u) => op'[u] = op[u])
        /\ \A u \in Threads : op'[u].step = "unlink" => op'[u] = op[u]
        /\ \A x \in Devices : (Unlinking(x)' <=> Unlinking(x)) /\ (Announcing(x)' => Announcing(x))
        /\ SaveToCome' /\ op'[Platform] = op[Platform]
    BY <1>3, <1>4, <1>5 DEF Writing, SaveToCome, Unlinking, Announcing, Free, Threads
  <1>7. RecordsTypeOK'
    BY <1>1, <1>2 DEF RecordsTypeOK
  <1>8. LockOK' /\ NoSelfNames'
    BY <1>1, <1>2, <1>6 DEF LockOK, NoSelfNames
  <1>9. NamesKept' /\ FileFresh'
    BY <1>1, <1>2, <1>6, FreshWhenToCome DEF NamesKept
  <1>10. ThreadsApart'
    <2>1. AnnouncedIsConnected' /\ UnlinkedIsNot' /\ ConnectedIsSaved' /\ PlatformKnows'
      BY <1>1, <1>2, <1>6 DEF ThreadsApart, AnnouncedIsConnected, UnlinkedIsNot, ConnectedIsSaved, PlatformKnows,
         RecordsTypeOK
    <2>2. UnlinkedByOne'
      BY <1>1, <1>2, <1>6 DEF ThreadsApart, UnlinkedByOne
    <2>3. QED
      BY <2>1, <2>2 DEF ThreadsApart
  <1>11. NoneExplained'
    <2>1. \A x \in Devices : parked'[x] = "None" => x \in unkept' \cup raced'
      BY <1>1, <1>2 DEF NoneExplained, No
    <2>2. ASSUME NEW u \in Threads, op'[u].step = "unlink", op'[u].next = "None", op'[u].dev \notin raced'
          PROVE  /\ op'[u].dev \notin connected' /\ parked'[op'[u].dev] = No
                 /\ renamed'[op'[u].dev] # No => op'[u].dev \in unkept'
      <3>1. op'[u] = op[u] /\ op[u].dev \in Devices
        BY <1>1, <1>6, <2>2, OpFields, StepFields
      <3>2. QED
        BY <1>1, <1>2, <2>2, <3>1 DEF NoneExplained
    <2>3. QED
      BY <2>1, <2>2 DEF NoneExplained
  <1>12. GoneStaysGone'
    <2>1. \A x \in Gone' : x \in Gone /\ x \in Devices
      BY <1>1, <1>2 DEF Gone, RecordsTypeOK
    <2>2. QED
      BY <1>1, <1>2, <1>6, <2>1 DEF GoneStaysGone
  <1>13. QED
    BY <1>5, <1>7, <1>8, <1>9, <1>10, <1>11, <1>12 DEF Kept

LEMMA AddNewKeeps ==
  ASSUME Kept, NEW t \in Threads \ {Platform}, Free(t), NEW d \in Devices, renamed[d] = No, d \notin connected,
         connected' = connected \cup {d}, saved' = saved \cup {d}, removed' = removed \ {d},
         raced' = IF Unlinking(d) THEN raced \cup {d} ELSE raced,
         op' = [op EXCEPT ![t] = Op("save", d, "announce")],
         UNCHANGED <<added, renamed, parked, unkept, failed, file, lock, platformVars>>
  PROVE  Kept'
  <1>1. RecordsTypeOK /\ OpTypeOK /\ LockOK /\ NoSelfNames /\ NamesKept
        /\ ThreadsApart /\ NoneExplained /\ GoneStaysGone
    BY DEF Kept
  <1> DEFINE r == Op("save", d, "announce")
  <1>2. /\ raced \subseteq raced' /\ (Unlinking(d) => d \in raced') /\ raced' \subseteq Devices
        /\ UNCHANGED <<added, renamed, parked, unkept, failed, file, lock, platform, name>>
    BY <1>1 DEF RecordsTypeOK, platformVars
  <1>3. StepOf(t, r) /\ r # NoOp /\ r.step = "save" /\ r.dev = d
    BY NewSteps DEF Op, NoOp
  <1>4. op[t] = NoOp /\ NoOp.step = "none"
    BY DEF Free, NoOp
  <1>5. OpTypeOK' /\ op'[t] = r /\ \A u \in Threads \ {t} : op'[u] = op[u]
    BY <1>1, <1>3, Turn
  <1> HIDE DEF r
  <1>6. /\ \A u \in Threads : (Writing(u)' <=> Writing(u)) /\ (Writing(u) => op'[u] = op[u])
        /\ \A u \in Threads : op'[u].step = "unlink" => op'[u] = op[u]
        /\ SaveToCome' /\ op'[Platform] = op[Platform]
    BY <1>3, <1>4, <1>5 DEF Writing, SaveToCome, Threads
  <1>7. \A x \in Devices : (Unlinking(x)' <=> Unlinking(x)) /\ (Announcing(x)' => Announcing(x) \/ x = d)
    BY <1>3, <1>4, <1>5 DEF Unlinking, Announcing, Free
  <1>8. RecordsTypeOK'
    BY <1>1, <1>2 DEF RecordsTypeOK
  <1>9. LockOK' /\ NoSelfNames'
    BY <1>1, <1>2, <1>6 DEF LockOK, NoSelfNames
  <1>10. NamesKept' /\ FileFresh'
    BY <1>1, <1>2, <1>6, <1>7, FreshWhenToCome DEF NamesKept
  <1>11. ThreadsApart'
    <2>1. AnnouncedIsConnected' /\ UnlinkedIsNot' /\ ConnectedIsSaved' /\ PlatformKnows'
      BY <1>1, <1>2, <1>7 DEF ThreadsApart, AnnouncedIsConnected, UnlinkedIsNot, ConnectedIsSaved, PlatformKnows,
         RecordsTypeOK
    <2>2. UnlinkedByOne'
      BY <1>1, <1>2, <1>6 DEF ThreadsApart, UnlinkedByOne
    <2>3. QED
      BY <2>1, <2>2 DEF ThreadsApart
  <1>12. NoneExplained'
    <2>1. \A x \in Devices : parked'[x] = "None" => x \in unkept' \cup raced'
      BY <1>1, <1>2 DEF NoneExplained
    <2>2. ASSUME NEW u \in Threads, op'[u].step = "unlink", op'[u].next = "None", op'[u].dev \notin raced'
          PROVE  /\ op'[u].dev \notin connected' /\ parked'[op'[u].dev] = No
                 /\ renamed'[op'[u].dev] # No => op'[u].dev \in unkept'
      <3>1. op'[u] = op[u] /\ op[u].dev \in Devices
        BY <1>1, <1>6, <2>2, OpFields, StepFields
      <3>2. op[u].dev # d
        BY <1>2, <2>2, <3>1 DEF Unlinking
      <3>3. QED
        BY <1>1, <1>2, <2>2, <3>1, <3>2 DEF NoneExplained
    <2>3. QED
      BY <2>1, <2>2 DEF NoneExplained
  <1>13. GoneStaysGone'
    <2>1. \A x \in Gone' : x \in Gone /\ x \in Devices /\ x # d
      BY <1>1, <1>2 DEF Gone, RecordsTypeOK
    <2>2. QED
      BY <1>1, <1>2, <1>6, <2>1 DEF GoneStaysGone
  <1>14. QED
    BY <1>5, <1>8, <1>9, <1>10, <1>11, <1>12, <1>13 DEF Kept

LEMMA AddBeginKeeps ==
  ASSUME Kept, NEW t \in Threads \ {Platform}, Free(t), NEW d \in Devices, AddBegin(t, d)
  PROVE  Kept'
  <1>1. UNCHANGED <<file, lock, platformVars>>
    BY DEF AddBegin
  <1>2. CASE op' = op /\ UNCHANGED <<memVars, histVars>>
    BY <1>1, <1>2, NothingMoves DEF recordVars
  <1>3. CASE /\ renamed[d] # No /\ parked' = [parked EXCEPT ![d] = No]
             /\ unkept' = IF d \in connected THEN unkept ELSE unkept \cup {d}
             /\ op' = [op EXCEPT ![t] = Op("save", d, "done")]
             /\ UNCHANGED <<connected, saved, added, renamed, removed, raced, failed>>
    BY <1>1, <1>3, AddRenamedKeeps
  <1>4. CASE /\ renamed[d] = No /\ d \notin connected
             /\ connected' = connected \cup {d} /\ saved' = saved \cup {d} /\ removed' = removed \ {d}
             /\ raced' = IF Unlinking(d) THEN raced \cup {d} ELSE raced
             /\ op' = [op EXCEPT ![t] = Op("save", d, "announce")]
             /\ UNCHANGED <<added, renamed, parked, unkept, failed>>
    BY <1>1, <1>4, AddNewKeeps
  <1>5. QED
    BY <1>2, <1>3, <1>4 DEF AddBegin

-----------------------------------------------------------------------------
(* Notifications of the platform                                           *)

\* A name of the platform that is no device's own is meant for a name only.
LEMMA MeantIsName == \A n \in Names : Meant(n) \subseteq Names
  BY DEF Meant, KeysOf

(* The thread that handles notifications starts to save.                    *)
LEMMA NoticeSaves ==
  ASSUME OpTypeOK, Free(Platform), NEW d \in Names, op' = [op EXCEPT ![Platform] = Op("save", d, "load")]
  PROVE  /\ OpTypeOK' /\ op'[Platform].step = "save" /\ SaveToCome'
         /\ \A u \in Threads : (Writing(u)' <=> Writing(u)) /\ (Writing(u) => op'[u] = op[u])
         /\ \A u \in Threads : op'[u].step = "unlink" => op'[u] = op[u]
         /\ \A x \in Devices : (Unlinking(x)' <=> Unlinking(x)) /\ (Announcing(x)' => Announcing(x))
  <1> DEFINE r == Op("save", d, "load")
  <1>1. StepOf(Platform, r) /\ r # NoOp /\ r.step = "save" /\ r.next = "load"
    BY NewSteps DEF Op, NoOp
  <1>2. op[Platform] = NoOp /\ NoOp.step = "none"
    BY DEF Free, NoOp
  <1> HIDE DEF r
  <1>3. OpTypeOK' /\ op'[Platform] = r /\ \A u \in Threads \ {Platform} : op'[u] = op[u]
    BY <1>1, Turn DEF r, Threads
  <1>4. QED
    BY <1>1, <1>2, <1>3 DEF Writing, SaveToCome, Unlinking, Announcing, Free, Threads

LEMMA DeletedDeviceKeeps ==
  ASSUME Kept, NEW dev \in Devices, DeletedDevice(dev)
  PROVE  Kept'
  <1>1. RecordsTypeOK /\ OpTypeOK /\ LockOK /\ NoSelfNames /\ NamesKept
        /\ ThreadsApart /\ NoneExplained /\ GoneStaysGone
    BY DEF Kept
  <1>2. name[dev] \in Names
    BY <1>1 DEF RecordsTypeOK, DeletedDevice
  <1>3. PICK d \in Names :
          /\ renamed' = IF KeysOf(name[dev]) # {} THEN [renamed EXCEPT ![d] = No] ELSE renamed
          /\ connected' = connected \ {d} /\ saved' = saved \ {d} /\ added' = added \ {d}
          /\ parked' = [x \in Devices |-> IF x = d THEN No ELSE parked[x]]
          /\ removed' = removed \cup ({d} \cap Devices)
          /\ unkept' = IF renamed'[d] = No THEN unkept \ {d} ELSE unkept \cup ({d} \cap Devices)
          /\ raced' = IF Announcing(dev) \/ d # dev THEN raced \cup ({d, dev} \cap Devices) ELSE raced
          /\ op' = [op EXCEPT ![Platform] = Op("save", d, "load")]
    BY <1>2, MeantIsName DEF DeletedDevice
  <1>4. /\ platform' = platform \ {dev} /\ name' = [name EXCEPT ![dev] = Absent]
        /\ Free(Platform) /\ UNCHANGED <<file, lock, failed>>
    BY DEF DeletedDevice
  <1>5. /\ OpTypeOK' /\ op'[Platform].step = "save" /\ SaveToCome'
        /\ \A u \in Threads : (Writing(u)' <=> Writing(u)) /\ (Writing(u) => op'[u] = op[u])
        /\ \A u \in Threads : op'[u].step = "unlink" => op'[u] = op[u]
        /\ \A x \in Devices : (Unlinking(x)' <=> Unlinking(x)) /\ (Announcing(x)' => Announcing(x))
    <2>1. op' = [op EXCEPT ![Platform] = Op("save", d, "load")]
      BY <1>3
    <2>2. QED
      BY <1>1, <1>4, <2>1, NoticeSaves
  <1>6. /\ renamed' \in [Names -> Names \cup {No}]
        /\ \A n \in Names : renamed'[n] = renamed[n] \/ (n = d /\ renamed'[n] = No)
    BY <1>1, <1>3 DEF RecordsTypeOK
  <1>7. /\ \A x \in Devices : parked'[x] = IF x = d THEN No ELSE parked[x]
        /\ parked' \in [Devices -> {No, "info", "None"}]
    BY <1>1, <1>3 DEF RecordsTypeOK
  <1>8. /\ unkept' \subseteq Devices
        /\ \A x \in Devices : x # d => (x \in unkept <=> x \in unkept')
        /\ d \in Devices /\ renamed'[d] # No => d \in unkept'
    BY <1>1, <1>3 DEF RecordsTypeOK
  <1>9. /\ raced \subseteq raced' /\ raced' \subseteq Devices
        /\ Announcing(dev) => dev \in raced'
        /\ d \in Devices => d = dev \/ d \in raced'
    BY <1>1, <1>3 DEF RecordsTypeOK
  <1>10. \A x \in Devices : name'[x] = IF x = dev THEN Absent ELSE name[x]
    BY <1>1, <1>4 DEF RecordsTypeOK
  <1>11. RecordsTypeOK'
    <2>1. /\ connected' \subseteq Devices /\ saved' \subseteq Devices /\ added' \subseteq Devices
          /\ platform' \subseteq Devices /\ removed' \subseteq Devices
      BY <1>1, <1>3, <1>4 DEF RecordsTypeOK
    <2>2. /\ name' \in [Devices -> Names \cup {Absent}]
          /\ \A x \in Devices : name'[x] \in NewNames \cup {x, Absent}
      BY <1>1, <1>4, <1>10 DEF RecordsTypeOK
    <2>3. \A n \in Names : renamed'[n] # n
      BY <1>1, <1>6, Words DEF RecordsTypeOK
    <2>4. QED
      BY <1>1, <1>4, <1>6, <1>7, <1>8, <1>9, <2>1, <2>2, <2>3 DEF RecordsTypeOK
  <1>12. LockOK' /\ NoSelfNames'
    BY <1>1, <1>4, <1>5 DEF LockOK, NoSelfNames
  <1>13. NamesKept' /\ FileFresh'
    <2>1. NamesKept'
      <3>1. ASSUME NEW x \in Devices \ unkept', renamed'[x] # No
            PROVE  x \in connected' \/ parked'[x] # No \/ Unlinking(x)'
        <4>1. x # d /\ x \notin unkept /\ renamed[x] # No
          BY <1>6, <1>8, <3>1, Words
        <4>2. QED
          BY <1>1, <1>3, <1>5, <1>7, <4>1 DEF NamesKept
      <3>2. QED
        BY <3>1 DEF NamesKept
    <2>2. QED
      BY <1>5, <2>1, FreshWhenToCome
  <1>14. ThreadsApart'
    <2>1. AnnouncedIsConnected'
      BY <1>1, <1>3, <1>5, <1>9 DEF ThreadsApart, AnnouncedIsConnected
    <2>2. UnlinkedIsNot' /\ ConnectedIsSaved'
      BY <1>1, <1>3, <1>5, <1>9 DEF ThreadsApart, UnlinkedIsNot, ConnectedIsSaved
    <2>3. UnlinkedByOne'
      BY <1>1, <1>5, <1>9 DEF ThreadsApart, UnlinkedByOne
    <2>4. PlatformKnows'
      BY <1>1, <1>3, <1>4, <1>5, <1>9 DEF ThreadsApart, PlatformKnows, RecordsTypeOK
    <2>5. QED
      BY <2>1, <2>2, <2>3, <2>4 DEF ThreadsApart
  <1>15. NoneExplained'
    <2>1. \A x \in Devices : parked'[x] = "None" => x \in unkept' \cup raced'
      BY <1>1, <1>7, <1>8, <1>9 DEF NoneExplained, No
    <2>2. ASSUME NEW u \in Threads, op'[u].step = "unlink", op'[u].next = "None", op'[u].dev \notin raced'
          PROVE  /\ op'[u].dev \notin connected' /\ parked'[op'[u].dev] = No
                 /\ renamed'[op'[u].dev] # No => op'[u].dev \in unkept'
      <3>1. op'[u] = op[u] /\ op[u].dev \in Devices
        BY <1>1, <1>5, <2>2, OpFields, StepFields
      <3>2. /\ op[u].dev \notin connected /\ parked[op[u].dev] = No
            /\ renamed[op[u].dev] # No => op[u].dev \in unkept
        BY <1>1, <1>9, <2>2, <3>1 DEF NoneExplained
      <3>3. QED
        BY <1>3, <1>6, <1>7, <1>8, <3>1, <3>2, Words
    <2>3. QED
      BY <2>1, <2>2 DEF NoneExplained
  <1>16. GoneStaysGone'
    <2>1. ASSUME NEW x \in Gone'
          PROVE  x \notin connected' /\ parked'[x] = No /\ renamed'[x] = No /\ name'[x] = Absent
      <3>1. x \in Devices /\ x \in removed' /\ x \notin raced' /\ x \notin unkept'
        BY <1>11, <2>1 DEF Gone, RecordsTypeOK
      <3>2. CASE x = d
        BY <1>3, <1>7, <1>8, <1>9, <1>10, <3>1, <3>2
      <3>3. CASE x # d
        <4>1. x \in Gone
          BY <1>3, <1>8, <1>9, <3>1, <3>3 DEF Gone
        <4>2. QED
          BY <1>1, <1>3, <1>6, <1>7, <1>10, <3>1, <3>3, <4>1, Words DEF GoneStaysGone
      <3>4. QED
        BY <3>2, <3>3
    <2>2. QED
      BY <1>5, <2>1 DEF GoneStaysGone
  <1>17. QED
    BY <1>5, <1>11, <1>12, <1>13, <1>14, <1>15, <1>16 DEF Kept

LEMMA RenamedDeviceKeeps ==
  ASSUME Kept, NEW dev \in Devices, NEW new \in NewNames \cup {dev}, RenamedDevice(dev, new)
  PROVE  Kept'
  <1>1. RecordsTypeOK /\ OpTypeOK /\ LockOK /\ NoSelfNames /\ NamesKept
        /\ ThreadsApart /\ NoneExplained /\ GoneStaysGone
    BY DEF Kept
  <1>2. name[dev] \in Names /\ new \in Names
    BY <1>1, Words DEF RecordsTypeOK, RenamedDevice
  <1>3. PICK d \in Names :
          /\ renamed' = [renamed EXCEPT ![d] = IF d = new THEN No ELSE new]
          /\ unkept' = unkept \cup {x \in {d} \cap Devices : x \notin connected /\ parked[x] = No}
          /\ op' = [op EXCEPT ![Platform] = Op("save", d, "load")]
    BY <1>2, MeantIsName DEF RenamedDevice
  <1>4. /\ name' = [name EXCEPT ![dev] = new] /\ name[dev] # Absent /\ Free(Platform)
        /\ UNCHANGED <<connected, saved, added, parked, file, lock, platform, removed, raced, failed>>
    BY DEF RenamedDevice
  <1>5. /\ OpTypeOK' /\ op'[Platform].step = "save" /\ SaveToCome'
        /\ \A u \in Threads : (Writing(u)' <=> Writing(u)) /\ (Writing(u) => op'[u] = op[u])
        /\ \A u \in Threads : op'[u].step = "unlink" => op'[u] = op[u]
        /\ \A x \in Devices : (Unlinking(x)' <=> Unlinking(x)) /\ (Announcing(x)' => Announcing(x))
    <2>1. op' = [op EXCEPT ![Platform] = Op("save", d, "load")]
      BY <1>3
    <2>2. QED
      BY <1>1, <1>4, <2>1, NoticeSaves
  <1>6. /\ renamed' \in [Names -> Names \cup {No}] /\ \A n \in Names : renamed'[n] # n
        /\ \A n \in Names : n # d => renamed'[n] = renamed[n]
    BY <1>1, <1>2, <1>3, Words DEF RecordsTypeOK
  <1>7. /\ unkept \subseteq unkept' /\ unkept' \subseteq Devices
        /\ d \in Devices => d \in connected \/ parked[d] # No \/ d \in unkept'
    BY <1>1, <1>3 DEF RecordsTypeOK
  <1>8. \A x \in Devices : name'[x] = IF x = dev THEN new ELSE name[x]
    BY <1>1, <1>4 DEF RecordsTypeOK
  <1>9. RecordsTypeOK'
    <2>1. /\ name' \in [Devices -> Names \cup {Absent}]
          /\ \A x \in Devices : name'[x] \in NewNames \cup {x, Absent}
      BY <1>1, <1>2, <1>4, <1>8 DEF RecordsTypeOK
    <2>2. QED
      BY <1>1, <1>4, <1>6, <1>7, <2>1 DEF RecordsTypeOK
  <1>10. LockOK' /\ NoSelfNames'
    BY <1>1, <1>4, <1>5 DEF LockOK, NoSelfNames
  <1>11. NamesKept' /\ FileFresh'
    <2>1. NamesKept'
      BY <1>1, <1>4, <1>5, <1>6, <1>7, Words DEF NamesKept
    <2>2. QED
      BY <1>5, <2>1, FreshWhenToCome
  <1>12. ThreadsApart'
    <2>1. AnnouncedIsConnected' /\ UnlinkedIsNot' /\ ConnectedIsSaved' /\ PlatformKnows'
      BY <1>1, <1>4, <1>5 DEF ThreadsApart, AnnouncedIsConnected, UnlinkedIsNot, ConnectedIsSaved, PlatformKnows,
         RecordsTypeOK
    <2>2. UnlinkedByOne'
      BY <1>1, <1>4, <1>5 DEF ThreadsApart, UnlinkedByOne
    <2>3. QED
      BY <2>1, <2>2 DEF ThreadsApart
  <1>13. NoneExplained'
    <2>1. \A x \in Devices : parked'[x] = "None" => x \in unkept' \cup raced'
      BY <1>1, <1>4, <1>7 DEF NoneExplained
    <2>2. ASSUME NEW u \in Threads, op'[u].step = "unlink", op'[u].next = "None", op'[u].dev \notin raced'
          PROVE  /\ op'[u].dev \notin connected' /\ parked'[op'[u].dev] = No
                 /\ renamed'[op'[u].dev] # No => op'[u].dev \in unkept'
      <3>1. op'[u] = op[u] /\ op[u].dev \in Devices
        BY <1>1, <1>5, <2>2, OpFields, StepFields
      <3>2. /\ op[u].dev \notin connected /\ parked[op[u].dev] = No
            /\ renamed[op[u].dev] # No => op[u].dev \in unkept
        BY <1>1, <1>4, <2>2, <3>1 DEF NoneExplained
      <3>3. QED
        BY <1>4, <1>6, <1>7, <3>1, <3>2, Words
    <2>3. QED
      BY <2>1, <2>2 DEF NoneExplained
  <1>14. GoneStaysGone'
    <2>1. ASSUME NEW x \in Gone'
          PROVE  x \notin connected' /\ parked'[x] = No /\ renamed'[x] = No /\ name'[x] = Absent
      <3>1. x \in Devices /\ x \in Gone /\ x \notin unkept'
        BY <1>1, <1>4, <1>7, <2>1 DEF Gone, RecordsTypeOK
      <3>2. x \notin connected /\ parked[x] = No /\ renamed[x] = No /\ name[x] = Absent
        BY <1>1, <3>1 DEF GoneStaysGone
      <3>3. x # d /\ x # dev
        BY <1>4, <1>7, <3>1, <3>2
      <3>4. QED
        BY <1>4, <1>6, <1>8, <3>1, <3>2, <3>3, Words
    <2>2. QED
      BY <1>5, <2>1 DEF GoneStaysGone
  <1>15. QED
    BY <1>5, <1>9, <1>10, <1>11, <1>12, <1>13, <1>14 DEF Kept

-----------------------------------------------------------------------------
(* __load_persistent_devices()                                             *)

\* What is loaded from a file with contents f, and from one that is being written.
LoadsFile(r, con0, ren0, par0, f, known) ==
    /\ r.connected = IF known THEN con0 \cup {d \in Devices : f[d] # Absent} ELSE con0
    /\ \A d \in Devices : d \in r.names <=> d \in r.connected /\ f[d] # Absent
    /\ r.names \subseteq Devices
    /\ r.renamed \in [Names -> Names \cup {No}]
    /\ \A n \in Names : r.renamed[n] = IF n \in Devices /\ f[n] \in Names THEN f[n] ELSE ren0[n]
    /\ r.parked \in [Devices -> {No, "info", "None"}]
    /\ \A d \in Devices :
          \/ r.parked[d] = No /\ d \in r.connected /\ r.renamed[d] # No
          \/ r.parked[d] = IF f[d] \in Names THEN "info" ELSE par0[d]
LoadsNothing(r, con0, ren0, par0) ==
    /\ r.connected = con0 /\ r.renamed = ren0 /\ r.parked = par0 /\ r.names = {}
    /\ r.saves = FALSE /\ r.raises = FALSE /\ r.stumbles = FALSE

LEMMA LoadedIs ==
  ASSUME NEW con0 \in SUBSET Devices, NEW ren0 \in [Names -> Names \cup {No}],
         NEW par0 \in [Devices -> {No, "info", "None"}], NEW f \in Contents, NEW known
  PROVE  LoadsFile(Loaded(con0, ren0, par0, f, known), con0, ren0, par0, f, known)
  <1> DEFINE r == Loaded(con0, ren0, par0, f, known)
             names == {d \in Devices : f[d] # Absent}
             con == IF known THEN con0 \cup names ELSE con0
             ren == [n \in Names |-> IF n \in Devices /\ f[n] \in Names THEN f[n] ELSE ren0[n]]
             again == IF up /\ known /\ names # {} THEN {d \in con : ren[d] # No} ELSE {}
             par == [d \in Devices |-> CASE d \in again -> No
                                         [] d \notin again /\ f[d] \in Names -> "info"
                                         [] OTHER -> par0[d]]
  <1>1. r.connected = con /\ r.renamed = ren /\ r.parked = par /\ r.names = con \cap names
    BY TruncatedApart DEF Loaded
  <1>2. \A d \in Devices : par[d] = IF d \in again THEN No ELSE IF f[d] \in Names THEN "info" ELSE par0[d]
    OBVIOUS
  <1>3. par \in [Devices -> {No, "info", "None"}]
    BY <1>2
  <1>4. ren \in [Names -> Names \cup {No}] /\ \A n \in Names : ren[n] = IF n \in Devices /\ f[n] \in Names THEN f[n] ELSE ren0[n]
    OBVIOUS
  <1>5. \A d \in again : d \in con /\ ren[d] # No
    OBVIOUS
  <1>6. con \subseteq Devices
    OBVIOUS
  <1>7. \A d \in Devices : \/ par[d] = No /\ d \in con /\ ren[d] # No
                           \/ par[d] = IF f[d] \in Names THEN "info" ELSE par0[d]
    BY <1>2, <1>5
  <1>8. con = IF known THEN con0 \cup {d \in Devices : f[d] # Absent} ELSE con0
    OBVIOUS
  <1>9. con \cap names \subseteq Devices /\ \A d \in Devices : d \in con \cap names <=> d \in con /\ f[d] # Absent
    OBVIOUS
  <1> HIDE DEF con, ren, again, par, names, r
  <1>10. QED
    BY <1>1, <1>3, <1>4, <1>7, <1>8, <1>9 DEF r, LoadsFile

LEMMA LoadedNothing ==
  ASSUME NEW con0 \in SUBSET Devices, NEW ren0 \in [Names -> Names \cup {No}],
         NEW par0 \in [Devices -> {No, "info", "None"}], NEW known
  PROVE  LoadsNothing(Loaded(con0, ren0, par0, Truncated, known), con0, ren0, par0)
  <1> DEFINE r == Loaded(con0, ren0, par0, Truncated, known)
             names == {d \in Devices : EmptyFile[d] # Absent}
             con == IF known THEN con0 \cup names ELSE con0
             ren == [n \in Names |-> IF n \in Devices /\ EmptyFile[n] \in Names THEN EmptyFile[n] ELSE ren0[n]]
             again == IF up /\ known /\ names # {} THEN {d \in con : ren[d] # No} ELSE {}
             par == [d \in Devices |-> CASE d \in again -> No
                                         [] d \notin again /\ EmptyFile[d] \in Names -> "info"
                                         [] OTHER -> par0[d]]
  <1>1. /\ r.connected = con /\ r.renamed = ren /\ r.parked = par /\ r.names = con \cap names
        /\ r.saves = (again # {}) /\ r.raises = (again # {} /\ SaveRaises(par))
        /\ r.stumbles = \E d \in Devices : par0[d] = "None" /\ again \ {d} # {}
    BY DEF Loaded
  <1>2. names = {}
    BY EmptyContents
  <1>3. con = con0
    BY <1>2
  <1>4. ren = ren0
    BY EmptyContents, Words
  <1>5. again = {}
    BY <1>2
  <1>6. par = par0
    <2>1. \A d \in Devices : EmptyFile[d] \notin Names
      BY EmptyContents, Words
    <2>2. QED
      BY <1>5, <2>1
  <1>7. (again # {}) = FALSE /\ (again # {} /\ SaveRaises(par)) = FALSE
        /\ (\E d \in Devices : par0[d] = "None" /\ again \ {d} # {}) = FALSE
    BY <1>5
  <1> HIDE DEF con, ren, again, par, names, r
  <1>8. r.connected = con0 /\ r.renamed = ren0 /\ r.parked = par0 /\ r.names = {}
    BY <1>1, <1>2, <1>3, <1>4, <1>6
  <1>9. r.saves = FALSE /\ r.raises = FALSE /\ r.stumbles = FALSE
    BY <1>1, <1>7
  <1>10. QED
    BY <1>8, <1>9 DEF r, LoadsNothing

LEMMA LoadEmptyKeeps ==
  ASSUME Kept, NEW t \in Threads, Load(t), file = Truncated
  PROVE  Kept'
  <1>1. RecordsTypeOK /\ OpTypeOK /\ LockOK /\ NoSelfNames /\ NamesKept /\ FileFresh
        /\ ThreadsApart /\ NoneExplained /\ GoneStaysGone
    BY DEF Kept
  <1> DEFINE r == Loaded(connected, renamed, parked, file, TRUE)
  <1>2. /\ r.connected = connected /\ r.renamed = renamed /\ r.parked = parked /\ r.names = {}
        /\ r.saves = FALSE /\ r.raises = FALSE /\ r.stumbles = FALSE
    <2>1. /\ connected \in SUBSET Devices /\ renamed \in [Names -> Names \cup {No}]
          /\ parked \in [Devices -> {No, "info", "None"}]
      BY <1>1 DEF RecordsTypeOK
    <2>2. LoadsNothing(Loaded(connected, renamed, parked, Truncated, TRUE), connected, renamed, parked)
      BY <2>1, LoadedNothing
    <2>3. LoadsNothing(r, connected, renamed, parked)
      BY <2>2
    <2> HIDE DEF r
    <2>4. QED
      BY <2>3 DEF LoadsNothing
  <1>3. PICK fails \in {r.raises, r.stumbles} :
          /\ IF fails THEN saved' \in {saved \cup s : s \in SUBSET r.names} ELSE saved' = saved \cup r.names
          /\ failed' = (failed \/ fails)
          /\ raced' = raced \cup {d \in r.names : fails \/ Unlinking(d)}
    BY DEF Load
  <1>4. /\ op[t].step = "load" /\ op' = [op EXCEPT ![t] = NoOp]
        /\ connected' = r.connected /\ renamed' = r.renamed /\ parked' = r.parked
        /\ file' = IF r.saves /\ ~r.raises THEN Snapshot(r.connected, r.renamed, r.parked) ELSE file
        /\ UNCHANGED <<added, lock, platform, name, unkept, removed>>
    BY DEF Load, platformVars
  <1> HIDE DEF r
  <1>5. UNCHANGED <<connected, saved, added, renamed, parked, file, lock, platform, name, unkept, removed, raced>>
    BY <1>2, <1>3, <1>4
  <1>6. failed' <=> failed
    BY <1>2, <1>3
  <1>7. failed' \in BOOLEAN
    BY <1>1, <1>2, <1>3 DEF RecordsTypeOK
  <1>8. OpTypeOK' /\ op'[t] = NoOp /\ \A u \in Threads \ {t} : op'[u] = op[u]
    BY <1>1, <1>4, NewSteps, Turn
  <1>9. NoOp.step = "none"
    BY DEF NoOp
  <1>10. /\ \A u \in Threads : (Writing(u)' <=> Writing(u)) /\ (Writing(u) => op'[u] = op[u])
         /\ \A u \in Threads : op'[u].step = "unlink" => op'[u] = op[u]
         /\ SaveToCome' <=> SaveToCome
         /\ \A x \in Devices : (Unlinking(x)' <=> Unlinking(x)) /\ (Announcing(x)' => Announcing(x))
    BY <1>4, <1>8, <1>9 DEF Writing, Unlinking, Announcing, SaveToCome, Free
  <1>11. RecordsTypeOK'
    BY <1>1, <1>5, <1>7 DEF RecordsTypeOK
  <1>12. LockOK' /\ NoSelfNames'
    BY <1>1, <1>5, <1>10 DEF LockOK, NoSelfNames
  <1>13. NamesKept'
    BY <1>1, <1>5, <1>10 DEF NamesKept
  <1>14. FileFresh'
    <2>1. \A f : Holds(f) => Holds(f)'
      BY <1>5 DEF Holds
    <2>2. QED
      BY <1>1, <1>5, <1>6, <1>10, <2>1 DEF FileFresh
  <1>15. ThreadsApart'
    <2>1. AnnouncedIsConnected' /\ UnlinkedIsNot' /\ ConnectedIsSaved' /\ PlatformKnows'
      BY <1>1, <1>5, <1>10 DEF ThreadsApart, AnnouncedIsConnected, UnlinkedIsNot, ConnectedIsSaved, PlatformKnows,
         RecordsTypeOK
    <2>2. UnlinkedByOne'
      BY <1>1, <1>5, <1>10 DEF ThreadsApart, UnlinkedByOne
    <2>3. QED
      BY <2>1, <2>2 DEF ThreadsApart
  <1>16. NoneExplained'
    BY <1>1, <1>5, <1>10 DEF NoneExplained
  <1>17. GoneStaysGone'
    <2>1. Gone' = Gone
      BY <1>5 DEF Gone
    <2>2. op'[Platform].step \in {op[Platform].step, "none"}
      BY <1>8, <1>9 DEF Threads
    <2>3. QED
      BY <1>1, <1>5, <1>10, <2>1, <2>2 DEF GoneStaysGone
  <1>18. QED
    BY <1>8, <1>11, <1>12, <1>13, <1>14, <1>15, <1>16, <1>17 DEF Kept

LEMMA LoadFileKeeps ==
  ASSUME Kept, NEW t \in Threads, Load(t), file # Truncated
  PROVE  Kept'
  <1>1. RecordsTypeOK /\ OpTypeOK /\ LockOK /\ NoSelfNames /\ NamesKept /\ FileFresh
        /\ ThreadsApart /\ NoneExplained /\ GoneStaysGone
    BY DEF Kept
  <1>2. file \in Contents /\ ~lock /\ \A u \in Threads : ~Writing(u)
    BY <1>1 DEF RecordsTypeOK, LockOK
  <1> DEFINE r == Loaded(connected, renamed, parked, file, TRUE)
  <1>3. /\ r.connected = connected \cup {d \in Devices : file[d] # Absent}
        /\ \A d \in Devices : d \in r.names <=> d \in r.connected /\ file[d] # Absent
        /\ r.names \subseteq Devices
        /\ r.renamed \in [Names -> Names \cup {No}]
        /\ \A n \in Names : r.renamed[n] = IF n \in Devices /\ file[n] \in Names THEN file[n] ELSE renamed[n]
        /\ r.parked \in [Devices -> {No, "info", "None"}]
        /\ \A d \in Devices :
              \/ r.parked[d] = No /\ d \in r.connected /\ r.renamed[d] # No
              \/ r.parked[d] = IF file[d] \in Names THEN "info" ELSE parked[d]
    <2>1. /\ connected \in SUBSET Devices /\ renamed \in [Names -> Names \cup {No}]
          /\ parked \in [Devices -> {No, "info", "None"}]
      BY <1>1 DEF RecordsTypeOK
    <2>2. LoadsFile(r, connected, renamed, parked, file, TRUE)
      BY <1>2, <2>1, LoadedIs
    <2> HIDE DEF r
    <2>3. QED
      BY <2>2 DEF LoadsFile
  <1>4. PICK fails \in {r.raises, r.stumbles} :
          /\ IF fails THEN saved' \in {saved \cup s : s \in SUBSET r.names} ELSE saved' = saved \cup r.names
          /\ failed' = (failed \/ fails)
          /\ raced' = raced \cup {d \in r.names : fails \/ Unlinking(d)}
    BY DEF Load
  <1>5. /\ op[t].step = "load" /\ op' = [op EXCEPT ![t] = NoOp]
        /\ connected' = r.connected /\ renamed' = r.renamed /\ parked' = r.parked
        /\ file' = IF r.saves /\ ~r.raises THEN Snapshot(r.connected, r.renamed, r.parked) ELSE file
        /\ UNCHANGED <<added, lock, platform, name, unkept, removed>>
    BY DEF Load, platformVars
  <1> HIDE DEF r
  \* The dictionaries after it.
  <1>6. /\ connected \subseteq connected' /\ connected' \subseteq Devices
        /\ \A d \in Devices : d \in connected' <=> d \in connected \/ file[d] # Absent
        /\ \A d \in Devices : file[d] \in Names => file[d] # Absent
        /\ \A d \in Devices : renamed'[d] = IF file[d] \in Names THEN file[d] ELSE renamed[d]
    <2>1. connected' = connected \cup {d \in Devices : file[d] # Absent} /\ connected \subseteq Devices
      BY <1>1, <1>3, <1>5 DEF RecordsTypeOK
    <2>2. \A d \in Devices : renamed'[d] = IF file[d] \in Names THEN file[d] ELSE renamed[d]
      BY <1>3, <1>5, Words
    <2>3. QED
      BY <2>1, <2>2, Words
  <1>7. \A d \in Devices : \/ parked'[d] = No /\ d \in connected'
                           \/ parked'[d] = IF file[d] \in Names THEN "info" ELSE parked[d]
    BY <1>3, <1>5
  <1>8. /\ saved \subseteq saved' /\ saved' \subseteq saved \cup r.names
        /\ raced \subseteq raced' /\ raced' \subseteq raced \cup r.names
        /\ r.names \subseteq saved' \cup raced'
        /\ \A d \in r.names : Unlinking(d) => d \in raced'
        /\ ~failed' => ~failed
    <2>1. CASE fails
      BY <1>4, <2>1
    <2>2. CASE ~fails
      BY <1>4, <2>2
    <2>3. QED
      BY <2>1, <2>2
  <1>9. \A d \in Devices : d \in r.names <=> file[d] # Absent
    BY <1>3, <1>5, <1>6
  <1>10. /\ renamed' \in [Names -> Names \cup {No}] /\ \A n \in Names : renamed'[n] # n
         /\ parked' \in [Devices -> {No, "info", "None"}]
    <2>1. \A n \in Names : renamed'[n] # n
      BY <1>1, <1>2, <1>3, <1>5 DEF RecordsTypeOK, NoSelfNames
    <2>2. QED
      BY <1>3, <1>5, <2>1
  <1>11. /\ \A u \in Threads : op'[u].step # "none" => op'[u] = op[u]
         /\ OpTypeOK' /\ op'[t] = NoOp /\ \A u \in Threads \ {t} : op'[u] = op[u]
    <2>1. OpTypeOK' /\ op'[t] = NoOp /\ \A u \in Threads \ {t} : op'[u] = op[u]
      BY <1>1, <1>5, NewSteps, Turn
    <2>2. NoOp.step = "none"
      BY DEF NoOp
    <2>3. QED
      BY <2>1, <2>2
  <1>12. /\ \A u \in Threads : ~Writing(u)'
         /\ SaveToCome' <=> SaveToCome
         /\ \A x \in Devices : (Unlinking(x)' <=> Unlinking(x)) /\ (Announcing(x)' => Announcing(x))
    BY <1>2, <1>5, <1>11 DEF Writing, Unlinking, Announcing, SaveToCome, Free, NoOp
  \* A file that is written anew holds them.
  <1>13. \/ file' = file
         \/ /\ file' \in Contents
            /\ \A d \in Devices :
                  /\ file'[d] = IF d \in connected' \/ parked'[d] # No THEN renamed'[d] ELSE Absent
                  /\ file'[d] # d
    <2>1. CASE file' = file
      BY <2>1
    <2>2. CASE file' = Snapshot(connected', renamed', parked')
      <3>1. \A d \in Devices : file'[d] = IF d \in connected' \/ parked'[d] # No THEN renamed'[d] ELSE Absent
        BY <2>2 DEF Snapshot
      <3>2. \A d \in Devices : renamed'[d] \in Names \cup {No} /\ renamed'[d] # d /\ d # Absent
        BY <1>10, Words
      <3>3. file' \in Contents
        BY <2>2, <3>2 DEF Snapshot, Contents
      <3>4. \A d \in Devices : file'[d] # d
        BY <3>1, <3>2
      <3>5. QED
        BY <3>1, <3>3, <3>4
    <2>3. QED
      BY <1>5, <2>1, <2>2
  <1>14. file' \in Contents /\ file' # Truncated
    BY <1>2, <1>13, TruncatedApart
  <1>15. RecordsTypeOK'
    <2>1. saved' \subseteq Devices /\ raced' \subseteq Devices /\ failed' \in BOOLEAN
      <3>1. saved' \subseteq Devices /\ raced' \subseteq Devices
        BY <1>1, <1>3, <1>8 DEF RecordsTypeOK
      <3>2. failed' \in BOOLEAN
        BY <1>4
      <3>3. QED
        BY <3>1, <3>2
    <2>2. QED
      BY <1>1, <1>5, <1>6, <1>10, <1>14, <2>1 DEF RecordsTypeOK
  <1>16. LockOK' /\ NoSelfNames'
    <2>1. \A d \in Devices : file'[d] # d
      BY <1>1, <1>2, <1>13, <1>14 DEF NoSelfNames
    <2>2. QED
      BY <1>2, <1>5, <1>12, <1>14, <2>1 DEF LockOK, NoSelfNames
  <1>17. NamesKept'
    <2>1. ASSUME NEW d \in Devices \ unkept, renamed'[d] # No
          PROVE  d \in connected' \/ parked'[d] # No \/ Unlinking(d)
      <3>1. CASE file[d] \in Names
        BY <1>6, <3>1
      <3>2. CASE file[d] \notin Names
        BY <1>1, <1>6, <1>7, <2>1, <3>2 DEF NamesKept
      <3>3. QED
        BY <3>1, <3>2
    <2>2. QED
      BY <1>5, <1>12, <2>1 DEF NamesKept
  <1>18. FileFresh'
    <2>1. SUFFICES ASSUME ~failed, ~SaveToCome PROVE Holds(file)'
      BY <1>8, <1>12 DEF FileFresh
    <2>2. CASE file' = file
      <3>1. Holds(file)
        BY <1>1, <1>2, <2>1 DEF FileFresh
      <3>2. \A d \in connected' : file[d] # Absent
        BY <1>6, <3>1 DEF Holds
      <3>3. \A d \in Devices \ unkept : renamed'[d] # No => file[d] = renamed'[d]
        BY <1>6, <3>1 DEF Holds
      <3>4. QED
        BY <1>5, <2>2, <3>2, <3>3 DEF Holds
    <2>3. CASE file' # file
      <3>1. \A d \in Devices : file'[d] = IF d \in connected' \/ parked'[d] # No THEN renamed'[d] ELSE Absent
        BY <1>13, <2>3
      <3>2. \A d \in connected' : file'[d] # Absent
        BY <1>6, <1>10, <3>1, Words
      <3>3. \A d \in Devices : ~Unlinking(d)'
        BY <1>12, <2>1 DEF SaveToCome, Unlinking
      <3>4. \A d \in Devices \ unkept' : renamed'[d] # No => file'[d] = renamed'[d]
        BY <1>17, <3>1, <3>3 DEF NamesKept
      <3>5. QED
        BY <3>2, <3>4 DEF Holds
    <2>4. QED
      BY <2>2, <2>3
  <1>19. ThreadsApart'
    <2>1. AnnouncedIsConnected' /\ PlatformKnows'
      BY <1>1, <1>5, <1>6, <1>8, <1>12 DEF ThreadsApart, AnnouncedIsConnected, PlatformKnows, RecordsTypeOK
    <2>2. UnlinkedIsNot'
      BY <1>1, <1>6, <1>8, <1>9, <1>12 DEF ThreadsApart, UnlinkedIsNot
    <2>3. ConnectedIsSaved'
      BY <1>1, <1>6, <1>8, <1>9 DEF ThreadsApart, ConnectedIsSaved, RecordsTypeOK
    <2>4. UnlinkedByOne'
      <3>1. \A u \in Threads : op'[u].step = "unlink" => op'[u] = op[u]
        BY <1>11
      <3>2. QED
        BY <1>1, <1>8, <3>1 DEF ThreadsApart, UnlinkedByOne
    <2>5. QED
      BY <2>1, <2>2, <2>3, <2>4 DEF ThreadsApart
  <1>20. NoneExplained'
    <2>1. \A d \in Devices : parked'[d] = "None" => parked[d] = "None"
      BY <1>7, Words DEF No
    <2>2. \A x \in Devices : parked'[x] = "None" => x \in unkept' \cup raced'
      BY <1>1, <1>5, <1>8, <2>1 DEF NoneExplained
    <2>3. ASSUME NEW u \in Threads, op'[u].step = "unlink", op'[u].next = "None", op'[u].dev \notin raced'
          PROVE  /\ op'[u].dev \notin connected' /\ parked'[op'[u].dev] = No
                 /\ renamed'[op'[u].dev] # No => op'[u].dev \in unkept'
      <3>1. op'[u] = op[u] /\ op[u].dev \in Devices
        BY <1>1, <1>11, <2>3, OpFields, StepFields
      <3>2. /\ op[u].dev \notin connected /\ parked[op[u].dev] = No
            /\ renamed[op[u].dev] # No => op[u].dev \in unkept
        BY <1>1, <1>8, <2>3, <3>1 DEF NoneExplained
      <3>3. file[op[u].dev] = Absent
        BY <1>8, <1>9, <2>3, <3>1 DEF Unlinking
      <3>4. QED
        BY <1>5, <1>6, <1>7, <3>1, <3>2, <3>3
    <2>4. QED
      BY <2>2, <2>3 DEF NoneExplained
  <1>21. GoneStaysGone'
    <2>1. t = Platform /\ op'[Platform].step = "none"
      <3>1. t = Platform
        BY <1>1, <1>5, OpFields, StepFields
      <3>2. QED
        BY <1>11, <3>1 DEF NoOp
    <2>2. ASSUME NEW x \in Gone'
          PROVE  x \notin connected' /\ parked'[x] = No /\ renamed'[x] = No /\ name'[x] = Absent
      <3>1. x \in Gone /\ x \in Devices
        BY <1>1, <1>5, <1>8, <2>2 DEF Gone, RecordsTypeOK
      <3>2. /\ x \notin connected /\ parked[x] = No /\ renamed[x] = No /\ name[x] = Absent
            /\ file[x] = Absent
        BY <1>1, <1>2, <1>5, <2>1, <3>1 DEF GoneStaysGone
      <3>3. QED
        BY <1>5, <1>6, <1>7, <3>1, <3>2
    <2>3. QED
      BY <2>1, <2>2 DEF GoneStaysGone
  <1>22. QED
    BY <1>11, <1>15, <1>16, <1>17, <1>18, <1>19, <1>20, <1>21 DEF Kept

LEMMA LoadKeeps ==
  ASSUME Kept, NEW t \in Threads, Load(t)
  PROVE  Kept'
  BY LoadEmptyKeeps, LoadFileKeeps

LEMMA RestartKeeps ==
  ASSUME Kept, NEW known \in BOOLEAN, Restart(known)
  PROVE  Kept'
  <1>1. RecordsTypeOK /\ OpTypeOK /\ LockOK /\ NoSelfNames
    BY DEF Kept
  <1> DEFINE con0 == {}
             ren0 == [n \in Names |-> No]
             par0 == [d \in Devices |-> No]
             r == Loaded(con0, ren0, par0, file, known)
  <1>2. /\ con0 \in SUBSET Devices /\ ren0 \in [Names -> Names \cup {No}]
        /\ par0 \in [Devices -> {No, "info", "None"}]
        /\ con0 = {} /\ \A n \in Names : ren0[n] = No
        /\ \A d \in Devices : par0[d] = No
    OBVIOUS
  <1>3. /\ connected' = r.connected /\ renamed' = r.renamed /\ parked' = r.parked /\ saved' = r.names
        /\ file' = CASE r.saves -> Snapshot(r.connected, r.renamed, r.parked)
                     [] ~r.saves /\ file = Truncated -> EmptyFile
                     [] OTHER -> file
    BY DEF Restart
  <1>4. /\ added' = {} /\ platform' = {} /\ lock' = FALSE /\ op' = [t \in Threads |-> NoOp]
        /\ unkept' = {} /\ removed' = {} /\ raced' = {} /\ failed' = FALSE /\ name' = name
    BY DEF Restart
  <1>5. r = Loaded(con0, ren0, par0, file, known)
    OBVIOUS
  <1> HIDE DEF r, con0, ren0, par0
  <1>6. \A u \in Threads : op'[u] = NoOp /\ op'[u].step = "none"
    BY <1>4 DEF NoOp
  <1>7. /\ \A u \in Threads : ~Writing(u)'
        /\ \A x \in Devices : ~Unlinking(x)' /\ ~Announcing(x)'
        /\ ~SaveToCome' /\ OpTypeOK'
    <2>1. OpTypeOK'
      BY <1>4, <1>6, NewSteps DEF OpTypeOK
    <2>2. QED
      BY <1>6, <2>1 DEF Writing, Unlinking, Announcing, SaveToCome, Free
  \* The dictionaries after it, and the file.
  <1>8. /\ connected' \subseteq Devices /\ saved' = connected'
        /\ renamed' \in [Names -> Names \cup {No}] /\ \A n \in Names : renamed'[n] # n
        /\ parked' \in [Devices -> {No, "info"}]
        /\ \A d \in Devices : renamed'[d] # No => d \in connected' \/ parked'[d] # No
    <2>1. CASE file = Truncated
      <3>1. LoadsNothing(r, con0, ren0, par0)
        BY <1>2, <1>5, <2>1, LoadedNothing
      <3>2. connected' = {} /\ saved' = {} /\ renamed' = ren0 /\ parked' = par0
        BY <1>2, <1>3, <3>1 DEF LoadsNothing
      <3>3. par0 \in [Devices -> {No, "info"}]
        BY DEF par0
      <3>4. QED
        BY <1>2, <3>2, <3>3, Words
    <2>2. CASE file \in Contents
      <3>1. LoadsFile(r, con0, ren0, par0, file, known)
        BY <1>2, <1>5, <2>2, LoadedIs
      <3>2. connected' = IF known THEN {d \in Devices : file[d] # Absent} ELSE {}
        BY <1>2, <1>3, <3>1 DEF LoadsFile
      <3>3. connected' \subseteq Devices /\ saved' = connected'
        <4>1. connected' \subseteq Devices /\ \A d \in connected' : file[d] # Absent
          BY <3>2
        <4>2. saved' \subseteq Devices /\ \A d \in Devices : d \in saved' <=> d \in connected' /\ file[d] # Absent
          BY <1>3, <3>1 DEF LoadsFile
        <4>3. QED
          BY <4>1, <4>2
      <3>4. /\ renamed' \in [Names -> Names \cup {No}]
            /\ \A n \in Names : renamed'[n] = IF n \in Devices /\ file[n] \in Names THEN file[n] ELSE No
        BY <1>2, <1>3, <3>1 DEF LoadsFile
      <3>5. \A n \in Names : renamed'[n] # n
        BY <1>1, <2>2, <3>4, Words, TruncatedApart DEF NoSelfNames
      <3>6. \A d \in Devices : \/ parked'[d] = No /\ d \in connected'
                               \/ parked'[d] = IF file[d] \in Names THEN "info" ELSE No
        BY <1>2, <1>3, <3>1 DEF LoadsFile
      <3>7. parked' \in [Devices -> {No, "info", "None"}]
        BY <1>3, <3>1 DEF LoadsFile
      <3>8. parked' \in [Devices -> {No, "info"}]
        BY <3>6, <3>7
      <3>9. \A d \in Devices : renamed'[d] # No => d \in connected' \/ parked'[d] # No
        BY <3>4, <3>6, Words DEF No
      <3>10. QED
        BY <3>3, <3>4, <3>5, <3>8, <3>9
    <2>3. QED
      BY <1>1, <2>1, <2>2 DEF RecordsTypeOK
  <1>9. /\ file' \in Contents /\ \A d \in Devices : file'[d] # d
        /\ \A d \in connected' : file'[d] # Absent
        /\ \A d \in Devices : renamed'[d] # No => file'[d] = renamed'[d]
    <2>1. CASE r.saves
      <3>1. file' = Snapshot(connected', renamed', parked')
        BY <1>3, <2>1
      <3>2. /\ file' = [d \in Devices |-> file'[d]]
            /\ \A d \in Devices : file'[d] = IF d \in connected' \/ parked'[d] # No THEN renamed'[d] ELSE Absent
        BY <3>1 DEF Snapshot
      <3>3. \A d \in Devices : renamed'[d] \in Names \cup {No} /\ renamed'[d] # d /\ renamed'[d] # Absent /\ d # Absent
        BY <1>8, Words
      <3>4. file' \in Contents
        BY <3>2, <3>3 DEF Contents
      <3>5. QED
        BY <1>8, <3>2, <3>3, <3>4
    <2>2. CASE ~r.saves /\ file = Truncated
      <3>1. file' = EmptyFile
        BY <1>3, <2>2
      <3>2. LoadsNothing(r, con0, ren0, par0)
        BY <1>2, <1>5, <2>2, LoadedNothing
      <3>3. connected' = {} /\ \A d \in Devices : renamed'[d] = No
        BY <1>2, <1>3, <3>2, Words DEF LoadsNothing
      <3>4. QED
        BY <3>1, <3>3, EmptyContents, Words
    <2>3. CASE ~r.saves /\ file # Truncated
      <3>1. file' = file /\ file \in Contents
        BY <1>1, <1>3, <2>3 DEF RecordsTypeOK
      <3>2. LoadsFile(r, con0, ren0, par0, file, known)
        BY <1>2, <1>5, <3>1, LoadedIs
      <3>3. /\ connected' = IF known THEN {d \in Devices : file[d] # Absent} ELSE {}
            /\ \A n \in Names : renamed'[n] = IF n \in Devices /\ file[n] \in Names THEN file[n] ELSE No
        BY <1>2, <1>3, <3>2 DEF LoadsFile
      <3>4. \A d \in connected' : file[d] # Absent
        BY <3>3
      <3>5. \A d \in Devices : renamed'[d] # No => file[d] = renamed'[d]
        BY <3>3, Words
      <3>6. \A d \in Devices : file[d] # d
        BY <1>1, <2>3 DEF NoSelfNames
      <3>7. QED
        BY <3>1, <3>4, <3>5, <3>6
    <2>4. QED
      BY <2>1, <2>2, <2>3
  <1>10. RecordsTypeOK'
    <2>1. parked' \in [Devices -> {No, "info", "None"}]
      BY <1>8
    <2>2. QED
      BY <1>1, <1>4, <1>8, <1>9, <2>1 DEF RecordsTypeOK
  <1>11. LockOK' /\ NoSelfNames'
    BY <1>4, <1>7, <1>9, TruncatedApart DEF LockOK, NoSelfNames
  <1>12. NamesKept' /\ FileFresh'
    <2>1. Holds(file)'
      BY <1>9 DEF Holds
    <2>2. QED
      BY <1>7, <1>8, <2>1 DEF NamesKept, FileFresh
  <1>13. ThreadsApart'
    <2>1. UnlinkedByOne'
      BY <1>6 DEF UnlinkedByOne
    <2>2. QED
      BY <1>4, <1>7, <1>8, <2>1
         DEF ThreadsApart, AnnouncedIsConnected, UnlinkedIsNot, ConnectedIsSaved, PlatformKnows
  <1>14. NoneExplained'
    BY <1>6, <1>8 DEF NoneExplained, No
  <1>15. GoneStaysGone'
    BY <1>4 DEF GoneStaysGone, Gone
  <1>16. QED
    BY <1>7, <1>10, <1>11, <1>12, <1>13, <1>14, <1>15 DEF Kept

-----------------------------------------------------------------------------
(* The loops of the watcher and of the idle checker                        *)

(* A thread, or a notification, that leaves the loops alone.               *)
LEMMA LoopsUnchanged ==
  ASSUME LoopTypeOK, up' \in BOOLEAN, UNCHANGED <<loopVars, todo>>
  PROVE  LoopTypeOK'
  BY DEF LoopTypeOK, loopVars

LEMMA StepKeeps ==
  ASSUME IInv, NEW t \in Threads, Step(t)
  PROVE  IInv'
  <1>1. Kept /\ LoopTypeOK
    BY DEF IInv
  <1>2. Kept'
    BY <1>1, SaveOpenKeeps, SaveWriteKeeps, AnnounceKeeps, DelUnlinkKeeps, LoadKeeps DEF Step
  <1>3. up' = up /\ UNCHANGED <<loopVars, todo>>
    BY DEF Step, SaveOpen, SaveWrite, Announce, DelUnlink, Load
  <1>4. QED
    BY <1>1, <1>2, <1>3, LoopsUnchanged DEF IInv, LoopTypeOK

LEMMA ConnectorKeeps ==
  ASSUME IInv, ConnectorCall
  PROVE  IInv'
  <1>1. Kept /\ LoopTypeOK
    BY DEF IInv
  <1>2. PICK d \in Devices : AddBegin(Connector, d) \/ DelPop(Connector, d)
    BY DEF ConnectorCall
  <1>3. Connector \in Threads \ {Platform} /\ Free(Connector)
    BY DEF ConnectorCall, Threads, Connector, Platform
  <1>4. Kept'
    BY <1>1, <1>2, <1>3, AddBeginKeeps, DelPopKeeps
  <1>5. up' = up /\ UNCHANGED <<loopVars, todo>>
    BY <1>2 DEF ConnectorCall, AddBegin, DelPop
  <1>6. QED
    BY <1>1, <1>4, <1>5, LoopsUnchanged DEF IInv, LoopTypeOK

LEMMA WatcherKeeps ==
  ASSUME IInv, WatcherStep
  PROVE  IInv'
  <1>1. Kept /\ LoopTypeOK /\ RecordsTypeOK
    BY DEF IInv, Kept
  <1>2. CASE WatcherLosesLink \/ WatcherStarts \/ WatcherSubscribes
    <2>1. UNCHANGED recordVars
      BY <1>2 DEF WatcherLosesLink, WatcherStarts, WatcherSubscribes, recordVars
    <2>2. Kept'
      BY <1>1, <2>1, NothingMoves
    <2>3. ASSUME WatcherLosesLink PROVE LoopTypeOK'
      <3>1. /\ subscribed' = FALSE
            /\ UNCHANGED <<up, todo, watchPc, idlePc>>
        BY <2>3 DEF WatcherLosesLink
      <3>2. QED
        BY <1>1, <3>1 DEF LoopTypeOK
    <2>4. ASSUME WatcherStarts PROVE LoopTypeOK'
      <3>1. /\ watchPc' = "adding" /\ todo' = [todo EXCEPT ![Watcher] = saved]
            /\ UNCHANGED <<up, subscribed, idlePc>>
        BY <2>4 DEF WatcherStarts
      <3>2. QED
        BY <1>1, <3>1 DEF LoopTypeOK, RecordsTypeOK
    <2>5. ASSUME WatcherSubscribes PROVE LoopTypeOK'
      <3>1. /\ subscribed' = up /\ watchPc' = "idle"
            /\ UNCHANGED <<up, todo, idlePc>>
        BY <2>5 DEF WatcherSubscribes
      <3>2. QED
        BY <1>1, <3>1 DEF LoopTypeOK
    <2>6. QED
      BY <1>2, <2>2, <2>3, <2>4, <2>5 DEF IInv
  <1>3. CASE WatcherAdds
    <2>1. Watcher \in Threads \ {Platform} /\ Free(Watcher)
      BY <1>3 DEF WatcherAdds, Threads, Watcher, Platform
    <2>2. PICK d \in todo[Watcher] :
            \/ /\ d \in saved /\ AddBegin(Watcher, d)
               /\ todo' = [todo EXCEPT ![Watcher] = @ \ {d}]
            \/ /\ d \notin saved
               /\ watchPc' = "idle" /\ todo' = [todo EXCEPT ![Watcher] = {}]
               /\ UNCHANGED <<up, memVars, file, lock, op, subscribed, idlePc, platformVars, histVars>>
      BY <1>3 DEF WatcherAdds
    <2>3. CASE d \in saved
      <3>1. AddBegin(Watcher, d) /\ todo' = [todo EXCEPT ![Watcher] = @ \ {d}] /\ d \in Devices
        BY <1>1, <2>2, <2>3 DEF RecordsTypeOK
      <3>2. Kept'
        BY <1>1, <2>1, <3>1, AddBeginKeeps
      <3>3. LoopTypeOK'
        BY <1>1, <3>1 DEF LoopTypeOK, AddBegin, loopVars
      <3>4. QED
        BY <3>2, <3>3 DEF IInv
    <2>4. CASE d \notin saved
      <3>1. /\ watchPc' = "idle" /\ todo' = [todo EXCEPT ![Watcher] = {}]
            /\ UNCHANGED <<up, memVars, file, lock, op, subscribed, idlePc, platformVars, histVars>>
        BY <2>2, <2>4
      <3>2. Kept'
        BY <1>1, <3>1, NothingMoves DEF recordVars
      <3>3. LoopTypeOK'
        BY <1>1, <3>1 DEF LoopTypeOK
      <3>4. QED
        BY <3>2, <3>3 DEF IInv
    <2>5. QED
      BY <2>3, <2>4
  <1>4. QED
    BY <1>2, <1>3 DEF WatcherStep

LEMMA IdleKeeps ==
  ASSUME IInv, IdleStep
  PROVE  IInv'
  <1>1. Kept /\ LoopTypeOK /\ RecordsTypeOK
    BY DEF IInv, Kept
  <1>2. CASE IdleScan \/ IdleDies \/ IdleCollects \/ IdleWaits
    <2>1. UNCHANGED recordVars
      BY <1>2 DEF IdleScan, IdleDies, IdleCollects, IdleWaits, recordVars
    <2>2. Kept'
      BY <1>1, <2>1, NothingMoves
    <2>3. ASSUME IdleScan PROVE LoopTypeOK'
      <3>1. /\ idlePc' = "scanning" /\ todo' = [todo EXCEPT ![Idle] = connected]
            /\ UNCHANGED <<up, subscribed, watchPc>>
        BY <2>3 DEF IdleScan
      <3>2. QED
        BY <1>1, <3>1 DEF LoopTypeOK, RecordsTypeOK
    <2>4. ASSUME IdleDies PROVE LoopTypeOK'
      <3>1. /\ idlePc' = "dead" /\ todo' = [todo EXCEPT ![Idle] = {}]
            /\ UNCHANGED <<up, subscribed, watchPc>>
        BY <2>4 DEF IdleDies
      <3>2. QED
        BY <1>1, <3>1 DEF LoopTypeOK
    <2>5. ASSUME IdleCollects PROVE LoopTypeOK'
      <3>1. PICK idle \in SUBSET connected : todo' = [todo EXCEPT ![Idle] = idle]
        BY <2>5 DEF IdleCollects
      <3>2. idle \in SUBSET Devices
        BY <1>1 DEF RecordsTypeOK
      <3>3. idlePc' = "deleting" /\ UNCHANGED <<up, subscribed, watchPc>>
        BY <2>5 DEF IdleCollects
      <3>4. QED
        BY <1>1, <3>1, <3>2, <3>3 DEF LoopTypeOK
    <2>6. ASSUME IdleWaits PROVE LoopTypeOK'
      <3>1. /\ idlePc' = "waiting"
            /\ UNCHANGED <<up, todo, subscribed, watchPc>>
        BY <2>6 DEF IdleWaits
      <3>2. QED
        BY <1>1, <3>1 DEF LoopTypeOK
    <2>7. QED
      BY <1>2, <2>2, <2>3, <2>4, <2>5, <2>6 DEF IInv
  <1>3. CASE IdleDeletes
    <2>1. Idle \in Threads \ {Platform} /\ Free(Idle)
      BY <1>3 DEF IdleDeletes, Threads, Idle, Platform
    <2>2. PICK d \in todo[Idle] : DelPop(Idle, d) /\ todo' = [todo EXCEPT ![Idle] = @ \ {d}]
      BY <1>3 DEF IdleDeletes
    <2>3. d \in Devices
      BY <1>1 DEF LoopTypeOK
    <2>4. Kept'
      BY <1>1, <2>1, <2>2, <2>3, DelPopKeeps
    <2>5. LoopTypeOK'
      BY <1>1, <2>2 DEF LoopTypeOK, DelPop, loopVars
    <2>6. QED
      BY <2>4, <2>5 DEF IInv
  <1>4. QED
    BY <1>2, <1>3 DEF IdleStep

LEMMA NoticeKeeps ==
  ASSUME IInv, Notice
  PROVE  IInv'
  <1>1. Kept /\ LoopTypeOK
    BY DEF IInv
  <1>2. PICK dev \in Devices : DeletedDevice(dev) \/ \E new \in NewNames \cup {dev} : RenamedDevice(dev, new)
    BY DEF Notice
  <1>3. Kept'
    BY <1>1, <1>2, DeletedDeviceKeeps, RenamedDeviceKeeps
  <1>4. up' = up /\ UNCHANGED <<loopVars, todo>>
    BY <1>2 DEF DeletedDevice, RenamedDevice
  <1>5. QED
    BY <1>1, <1>3, <1>4, LoopsUnchanged DEF IInv, LoopTypeOK

LEMMA EnvironmentKeeps ==
  ASSUME IInv, LinkChanges \/ (\E known \in BOOLEAN : Restart(known)) \/ UNCHANGED vars
  PROVE  IInv'
  <1>1. Kept /\ LoopTypeOK
    BY DEF IInv
  <1>2. CASE LinkChanges \/ UNCHANGED vars
    <2>1. UNCHANGED recordVars /\ UNCHANGED <<loopVars, todo>>
      BY <1>2 DEF LinkChanges, vars, threadVars, recordVars
    <2>2. up' \in BOOLEAN
      BY <1>1, <1>2 DEF LoopTypeOK, LinkChanges, vars
    <2>3. QED
      BY <1>1, <2>1, <2>2, NothingMoves, LoopsUnchanged DEF IInv
  <1>3. ASSUME NEW known \in BOOLEAN, Restart(known) PROVE IInv'
    <2>1. LoopTypeOK'
      BY <1>3 DEF LoopTypeOK, Restart
    <2>2. QED
      BY <1>1, <1>3, <2>1, RestartKeeps DEF IInv
  <1>4. QED
    BY <1>2, <1>3

LEMMA InitInv == Init => IInv
  <1> SUFFICES ASSUME Init PROVE IInv
    OBVIOUS
  <1>1. \A u \in Threads : op[u] = NoOp /\ op[u].step = "none"
    BY DEF Init, NoOp
  <1>2. OpTypeOK
    BY <1>1, NewSteps DEF Init, OpTypeOK
  <1>3. file \in Contents /\ file # Truncated /\ \A d \in Devices : file[d] = Absent
    BY EmptyContents, TruncatedApart DEF Init
  <1>4. LoopTypeOK
    BY DEF Init, LoopTypeOK
  <1>5. RecordsTypeOK
    BY <1>3, Words DEF Init, RecordsTypeOK
  <1>6. LockOK /\ NoSelfNames
    BY <1>1, <1>3, Words DEF Init, LockOK, NoSelfNames, Writing
  <1>7. NamesKept /\ FileFresh
    BY <1>1, Words DEF Init, NamesKept, FileFresh, Holds, Writing
  <1>8. ThreadsApart
    BY <1>1 DEF Init, ThreadsApart, AnnouncedIsConnected, UnlinkedIsNot, UnlinkedByOne, ConnectedIsSaved,
                PlatformKnows, Announcing, Free
  <1>9. NoneExplained
    BY <1>1 DEF Init, NoneExplained, No
  <1>10. GoneStaysGone
    BY DEF Init, GoneStaysGone, Gone
  <1>11. QED
    BY <1>2, <1>4, <1>5, <1>6, <1>7, <1>8, <1>9, <1>10 DEF IInv, Kept

-----------------------------------------------------------------------------
(* The theorems                                                            *)

LEMMA InvariantHolds == Spec => []IInv
  <1>1. Init => IInv
    BY InitInv
  <1>2. IInv /\ [Next]_vars => IInv'
    BY StepKeeps, ConnectorKeeps, WatcherKeeps, IdleKeeps, NoticeKeeps, EnvironmentKeeps DEF Next
  <1>3. QED
    BY <1>1, <1>2, PTL DEF Spec

LEMMA QuietIs ==
  Quiet => ~SaveToCome /\ (\A t \in Threads : ~Writing(t)) /\ \A d \in Devices : ~Unlinking(d)
  BY DEF Quiet, Free, NoOp, SaveToCome, Writing, Unlinking

LEMMA TypesHold == IInv => DeviceRegistryTypeOK
  BY DEF IInv, Kept, LoopTypeOK, RecordsTypeOK, Contents, DeviceRegistryTypeOK

\* Whatever threads save the devices, and however often the platform renames and
\* deletes them, when no call is under way the file holds every connected device and
\* every name in force that is not lost for one of the reasons `unkept` records
\* (__save_persistent_devices, add_device, del_device).
THEOREM FileHoldsConnectedHolds == Spec => []FileHoldsConnected
  <1>1. IInv => FileHoldsConnected
    <2>1. SUFFICES ASSUME IInv, Quiet, ~failed
                   PROVE  file # Truncated /\ Holds(file)
      BY TypesHold DEF FileHoldsConnected, Holds
    <2>2. ~lock
      BY <2>1, QuietIs DEF IInv, Kept, LockOK
    <2>3. QED
      BY <2>1, <2>2, QuietIs DEF IInv, Kept, LockOK, FileFresh
  <1>2. QED
    BY <1>1, InvariantHolds, PTL

\* A device the platform deleted is connected again only if its connector added it,
\* or for one of the reasons the histories record (__process_deleted_gateway_devices,
\* __load_persistent_devices).
THEOREM DeletedStaysDeletedHolds == Spec => []DeletedStaysDeleted
  <1>1. IInv => DeletedStaysDeleted
    BY DEF IInv, Kept, GoneStaysGone, Gone, DeletedStaysDeleted
  <1>2. QED
    BY <1>1, InvariantHolds, PTL

\* The dictionaries and the platform agree when no call is under way, and an entry
\* None, which makes every save raise, comes only from the two causes stated
\* (add_device, del_device).
THEOREM RegistriesAgreeHolds == Spec => []RegistriesAgree
  <1>1. IInv => RegistriesAgree
    <2>1. SUFFICES ASSUME IInv
                   PROVE  /\ Quiet => /\ connected \ raced \subseteq saved
                                      /\ platform \ raced \subseteq connected
                          /\ \A d \in Devices : parked[d] = "None" => d \in unkept \cup raced
      BY DEF RegistriesAgree
    <2>2. connected \ raced \subseteq saved
      BY <2>1 DEF IInv, Kept, ThreadsApart, ConnectedIsSaved
    <2>3. Quiet => platform \ raced \subseteq connected
      BY <2>1, QuietIs DEF IInv, Kept, ThreadsApart, PlatformKnows, RecordsTypeOK
    <2>4. \A d \in Devices : parked[d] = "None" => d \in unkept \cup raced
      BY <2>1 DEF IInv, Kept, NoneExplained
    <2>5. QED
      BY <2>2, <2>3, <2>4
  <1>2. QED
    BY <1>1, InvariantHolds, PTL
=============================================================================
