-------------------------- MODULE SqliteEventStorage --------------------------
(***************************************************************************)
(* storage/sqlite: put() fills a queue in memory; a Database object is a   *)
(* thread with a connection to one file.  The one that writes drains the   *)
(* queue into its file, the one that reads prefetches the next pack, and   *)
(* one object may do both.  When its file is full the writing thread       *)
(* replaces itself by a new Database on a new file; when its file is       *)
(* drained the sending thread deletes it and goes on to the next.  The two *)
(* rotations share one list of files and no lock.                          *)
(*                                                                         *)
(* A row's id is its place in the file, and rows are only deleted from the *)
(* front.  A statement and its commit are one step.  The size of a file is *)
(* the greatest number of rows it held.  File names are numbers in the     *)
(* order of their creation.  The deletion by age compares milliseconds     *)
(* with seconds and never deletes, so it is left out.                      *)
(***************************************************************************)
EXTENDS Sequences, FiniteSets, Integers

CONSTANTS
    MaxMessages,            \* bound: messages put; they are numbered
    SizeLimit,              \* size_limit, in rows
    MaxDbAmount,            \* max_db_amount
    BatchSize,              \* writing_batch_size
    MaxReadRecords,         \* max_read_records_count
    MaxDatabases,           \* bound: Database objects created
    MaxCrashes              \* bound: restarts of the process

ASSUME SqliteAssumption ==
    /\ {MaxMessages, SizeLimit, BatchSize, MaxReadRecords} \subseteq Nat \ {0}
    /\ MaxDbAmount \in Nat \ {0, 1}
    /\ MaxDatabases \in Nat \ {0, 1}     \* a restart may open two
    /\ MaxCrashes \in Nat

VARIABLES
    queue,                  \* write_queue
    db,                     \* the Database objects created, in order
    disk,                   \* the files created, in order: rows, gone, size, there
    files,                  \* _database_files
    readDb,                 \* __read_database, 0 for None
    writeDb,                \* __write_database, 0 for None
    isMax,                  \* __is_max_db_amount_reached
    stopped,                \* stopped
    sender,                 \* where the sending thread is
    pack,                   \* the pack in the sending thread's hands
    deletePoint,            \* delete_time_point
    crashes,                \* restarts so far
    accepted,               \* history: number of messages put() answered True for
    done,                   \* history: messages of processed packs
    reread,                 \* history: messages handed out again after that
    inFlight,               \* history: messages a query answered and a delete overtook
    drained,                \* history: rows of the file when it was found drained
    lost                    \* history: pairs of a message and how it was lost

storeVars == <<queue, db, disk, files, readDb, writeDb, isMax, stopped>>
senderVars == <<sender, pack, deletePoint>>
history == <<crashes, accepted, done, reread, inFlight, drained, lost>>
vars == <<storeVars, senderVars, history>>

Messages == 1 .. MaxMessages
Lower(a, b) == IF a < b THEN a ELSE b
Elements(s) == {s[k] : k \in DOMAIN s}
Sorted(S) == {s \in [1 .. Cardinality(S) -> S] : \A j, k \in DOMAIN s : j < k => s[j] < s[k]}
Removed(s, e) ==
    LET at == CHOOSE k \in DOMAIN s : s[k] = e
    IN  [k \in 1 .. Len(s) - 1 |-> IF k < at THEN s[k] ELSE s[k + 1]]
NewFile == [rows |-> <<>>, gone |-> 0, size |-> 0, there |-> TRUE]

\* Database.__init__(): an object on file f whose thread is about to run.
Database(f, reads, writes, callback) ==
    [file |-> f, reads |-> reads, writes |-> writes, callback |-> callback,
     limit |-> FALSE, stop |-> FALSE, closed |-> FALSE, canPrepare |-> TRUE,
     next |-> <<>>, selected |-> <<>>, batch |-> <<>>, pc |-> "top"]

DiskFile == [rows : Seq(Messages), gone : Nat, size : Nat, there : BOOLEAN]
DatabaseObject == [file : Nat, reads : BOOLEAN, writes : BOOLEAN, callback : BOOLEAN,
    limit : BOOLEAN, stop : BOOLEAN, closed : BOOLEAN, canPrepare : BOOLEAN,
    next : Seq(Nat), selected : Seq(Nat), batch : Seq(Messages),
    pc : {"top", "assign", "insert", "cleanup", "start", "end", "spin"}]

SqliteTypeOK ==
    /\ queue \in Seq(Messages)
    /\ db \in Seq(DatabaseObject) /\ Len(db) <= MaxDatabases
    /\ disk \in Seq(DiskFile)
    /\ Elements(files) \subseteq DOMAIN disk
    /\ readDb \in 0 .. Len(db) /\ writeDb \in 0 .. Len(db)
    /\ isMax \in BOOLEAN /\ stopped \in BOOLEAN
    /\ sender \in {"idle", "got", "deleted", "prepared", "cleanup", "start", "finalize", "remove", "reopen", "count"}
    /\ pack \in Seq(Messages) /\ deletePoint \in Nat
    /\ crashes \in 0 .. MaxCrashes /\ accepted \in 0 .. MaxMessages
    /\ done \subseteq Messages /\ reread \subseteq done /\ inFlight \subseteq Messages
    /\ drained \in Nat
    /\ lost \subseteq Messages \X {"crash", "held", "unlinked", "late", "closed", "unread"}

Init ==
    /\ queue = <<>>
    /\ db = << Database(1, TRUE, TRUE, TRUE) >>
    /\ disk = << NewFile >>
    /\ files = <<1>>
    /\ readDb = 1 /\ writeDb = 1
    /\ isMax = FALSE /\ stopped = FALSE
    /\ sender = "idle" /\ pack = <<>> /\ deletePoint = 0
    /\ crashes = 0 /\ accepted = 0
    /\ done = {} /\ reread = {} /\ inFlight = {} /\ drained = 0 /\ lost = {}

-----------------------------------------------------------------------------
\* The rows of file f, as ids; what a SELECT with LIMIT answers.
RowIds(f) == [k \in 1 .. Len(disk[f].rows) - disk[f].gone |-> disk[f].gone + k]
Select(f) == SubSeq(RowIds(f), 1, Lower(MaxReadRecords, Len(RowIds(f))))
Unread(f) == {disk[f].rows[k] : k \in Elements(RowIds(f))}

\* database_has_records(): a stopped or closed database has none.
HasRecords(i) == ~db[i].stop /\ ~db[i].closed /\ RowIds(db[i].file) # <<>>

\* read_data(): the prefetched batch, or else a query.
ReadData(i) ==
    IF db[i].stop \/ db[i].closed \/ stopped THEN <<>>
    ELSE IF db[i].next # <<>> THEN db[i].next
    ELSE Select(db[i].file)

FileIsFull(i) == disk[db[i].file].there /\ disk[db[i].file].size >= SizeLimit

\* close_db() and db.close().
Closed(o) == [o EXCEPT !.stop = TRUE, !.closed = TRUE]

\* __cleanup_write_db_after_thread_termination(): a database that is also read
\* stays and only stops writing; another one is closed and forgotten.
CleanedUp(objects) ==
    IF readDb # writeDb THEN [objects EXCEPT ![writeDb] = Closed(@)]
                        ELSE [objects EXCEPT ![readDb].writes = FALSE]

\* Mutant: the new database is not in the list.
StartUnlisted(objects) ==
    /\ Len(objects) < MaxDatabases
    /\ disk' = Append(disk, NewFile)
    /\ db' = Append(objects, Database(Len(disk) + 1, FALSE, TRUE, TRUE))
    /\ writeDb' = Len(objects) + 1
    /\ UNCHANGED files

\* Mutant: the new database does not write.
StartIdle(objects) ==
    /\ Len(objects) < MaxDatabases
    /\ disk' = Append(disk, NewFile)
    /\ db' = Append(objects, Database(Len(disk) + 1, FALSE, FALSE, TRUE))
    /\ writeDb' = Len(objects) + 1
    /\ files' = Append(files, Len(disk) + 1)

\* Mutant: the new database is not remembered.
StartForgotten(objects) ==
    /\ Len(objects) < MaxDatabases
    /\ disk' = Append(disk, NewFile)
    /\ db' = Append(objects, Database(Len(disk) + 1, FALSE, TRUE, TRUE))
    /\ files' = Append(files, Len(disk) + 1)
    /\ UNCHANGED writeDb

\* __start_write_database(): a new file, and a thread that drains the queue.
StartWriteDatabase(objects) ==
    /\ Len(objects) < MaxDatabases
    /\ disk' = Append(disk, NewFile)
    /\ db' = Append(objects, Database(Len(disk) + 1, FALSE, TRUE, TRUE))
    /\ writeDb' = Len(objects) + 1
    /\ files' = Append(files, Len(disk) + 1)

\* _rotation_lock of object i is free for caller c (0 is the sending thread).
RotationFree(i, c) ==
    /\ c # 0 => ~(sender \in {"cleanup", "start"} /\ readDb = i)
    /\ c = 0 => db[i].pc \notin {"cleanup", "start"}

-----------------------------------------------------------------------------
(* put(), on the storing thread *)

PutAnswersTrue ==
    /\ ~isMax /\ ~stopped /\ writeDb # 0
    /\ db[writeDb].limit => Len(files) < MaxDbAmount

\* put(): queued in memory, before any database has it.
Put ==
    /\ accepted < MaxMessages
    /\ PutAnswersTrue
    /\ queue' = Append(queue, accepted + 1)
    /\ accepted' = accepted + 1
    /\ UNCHANGED <<db, disk, files, readDb, writeDb, isMax, stopped, senderVars, crashes, done, reread, inFlight, drained, lost>>

\* put() that meets the last file full: from now on it answers False, until
\* the reader has deleted a file.
PutReachesMaximum ==
    /\ ~isMax /\ ~stopped /\ writeDb # 0
    /\ db[writeDb].limit /\ Len(files) >= MaxDbAmount
    /\ isMax' = TRUE
    /\ UNCHANGED <<queue, db, disk, files, readDb, writeDb, stopped, senderVars, history>>

-----------------------------------------------------------------------------
(* Database.run(), on the thread of object i *)

(* A turn reads, writes and checks the size, each if there is something to *)
(* do; a turn without anything to do changes nothing.                      *)

\* The loop condition fails, and the thread closes its connection.
RunEnds(i) ==
    /\ db[i].pc = "top"
    /\ stopped \/ db[i].stop
    /\ db' = [db EXCEPT ![i].pc = "end", ![i].closed = TRUE]
    /\ UNCHANGED <<queue, disk, files, readDb, writeDb, isMax, stopped, senderVars, history>>

\* The query of the prefetch, ...
PrefetchSelect(i) ==
    /\ db[i].pc = "top"
    /\ ~stopped /\ ~db[i].stop
    /\ db[i].reads /\ db[i].canPrepare /\ db[i].next = <<>>
    /\ db' = [db EXCEPT ![i].pc = "assign", ![i].selected = ReadData(i)]
    /\ UNCHANGED <<queue, disk, files, readDb, writeDb, isMax, stopped, senderVars, history>>

\* ... and the assignment of its answer to __next_batch, however late.
PrefetchAssign(i) ==
    /\ db[i].pc = "assign"
    /\ db' = [db EXCEPT ![i].pc = "top", ![i].next = db[i].selected,
                        ![i].selected = <<>>, ![i].canPrepare = FALSE]
    /\ UNCHANGED <<queue, disk, files, readDb, writeDb, isMax, stopped, senderVars, history>>

\* process(): as many messages as arrive in time leave the queue.
Process(i) ==
    /\ db[i].pc = "top"
    /\ ~stopped /\ ~db[i].stop
    /\ db[i].writes
    /\ \E n \in 1 .. Lower(BatchSize, Len(queue)) :
          /\ db' = [db EXCEPT ![i].pc = "insert", ![i].batch = SubSeq(queue, 1, n)]
          /\ queue' = SubSeq(queue, n + 1, Len(queue))
    /\ UNCHANGED <<disk, files, readDb, writeDb, isMax, stopped, senderVars, history>>

\* execute_many_write(): an open connection gets the rows, although the file
\* may be unlinked; a closed one answers None and the batch is gone; a stopped
\* but open one is retried for ever.
Insert(i) ==
    LET f == db[i].file
        b == db[i].batch
        size == Len(disk[f].rows) + Len(b) - disk[f].gone
    IN  /\ db[i].pc = "insert"
        /\ \/ /\ ~db[i].stop /\ ~db[i].closed
              /\ disk' = IF disk[f].there
                         THEN [disk EXCEPT ![f].rows = @ \o b,
                                           ![f].size = IF @ < size THEN size ELSE @]
                         ELSE disk
              /\ lost' = IF disk[f].there THEN lost ELSE lost \cup (Elements(b) \X {"unlinked"})
              /\ db' = [db EXCEPT ![i].pc = "top", ![i].batch = <<>>]
           \/ /\ db[i].stop \/ db[i].closed
              /\ db' = [db EXCEPT ![i].pc = IF db[i].closed THEN "top" ELSE "spin", ![i].batch = <<>>]
              /\ lost' = lost \cup (Elements(b) \X {"held"})
              /\ UNCHANGED disk
        /\ UNCHANGED <<queue, files, readDb, writeDb, isMax, stopped, senderVars, crashes, accepted, done, reread, inFlight, drained>>

\* process_file_limit(), when the period of the check is over.
ProcessFileLimit(i) ==
    LET o == [db EXCEPT ![i].limit = TRUE]
    IN  /\ db[i].pc = "top"
        /\ ~stopped /\ ~db[i].stop
        /\ ~db[i].limit /\ FileIsFull(i) /\ RotationFree(i, i)
        /\ db' = [o EXCEPT ![i].pc =
                     IF /\ db[i].callback /\ db[i].writes /\ writeDb # 0
                        /\ o[writeDb].limit /\ Len(files) < MaxDbAmount
                     THEN "cleanup" ELSE "top"]
        /\ UNCHANGED <<queue, disk, files, readDb, writeDb, isMax, stopped, senderVars, history>>

\* on_write_database_callback() on the writing thread: the old database is
\* closed or becomes read-only, ...
RotateCleanup(i) ==
    LET o == [db EXCEPT ![i].pc = IF writeDb = 0 THEN "top" ELSE "start"]
    IN  /\ db[i].pc = "cleanup"
        /\ db' = IF writeDb = 0 THEN o ELSE CleanedUp(o)
        /\ writeDb' = IF readDb = writeDb THEN writeDb ELSE 0
        /\ UNCHANGED <<queue, disk, files, readDb, isMax, stopped, senderVars, history>>

\* ... and a new one takes its place.
RotateStart(i) ==
    /\ db[i].pc = "start"
    /\ StartWriteDatabase([db EXCEPT ![i].pc = "top"])
    /\ UNCHANGED <<queue, readDb, isMax, stopped, senderVars, history>>

DatabaseThread(i) ==
    /\ i \in DOMAIN db
    /\ \/ RunEnds(i) \/ PrefetchSelect(i) \/ PrefetchAssign(i)
       \/ Process(i) \/ Insert(i)
       \/ ProcessFileLimit(i) \/ RotateCleanup(i) \/ RotateStart(i)

-----------------------------------------------------------------------------
(* get_event_pack() and event_pack_processing_done(), on the sending thread *)

\* get_event_pack() with rows: the pack, and the id up to which it is deleted.
GetEventPack ==
    /\ sender = "idle" /\ ~stopped /\ readDb # 0
    /\ LET ids == ReadData(readDb)
           rows == disk[db[readDb].file].rows
       IN  /\ ids # <<>>
           /\ pack' = [k \in DOMAIN ids |-> rows[ids[k]]]
           /\ deletePoint' = IF deletePoint < ids[Len(ids)] THEN ids[Len(ids)] ELSE deletePoint
    /\ sender' = "got"
    /\ reread' = reread \cup (Elements(pack') \cap done)
    /\ UNCHANGED <<storeVars, crashes, accepted, done, inFlight, drained, lost>>

\* get_event_pack() without rows: a drained file that is not the last is left.
LeaveDrainedFile ==
    /\ sender = "idle" /\ ~stopped /\ readDb # 0
    /\ ReadData(readDb) = <<>>
    /\ \/ ~disk[db[readDb].file].there
       \/ Len(files) > 1 /\ ~HasRecords(readDb)
    /\ sender' = "finalize"
    /\ drained' = Len(disk[db[readDb].file].rows)
    /\ UNCHANGED <<storeVars, pack, deletePoint, crashes, accepted, done, reread, inFlight, lost>>

\* event_pack_processing_done(): delete_data(), ...
DeleteData ==
    LET i == readDb
        f == db[i].file
    IN  /\ sender = "got" /\ ~stopped
        /\ disk' = IF db[i].stop \/ db[i].closed THEN disk
                   ELSE [disk EXCEPT ![f].gone = IF @ < deletePoint THEN Lower(deletePoint, Len(disk[f].rows)) ELSE @]
        /\ done' = done \cup Elements(pack)
        /\ pack' = <<>>
        /\ sender' = "deleted"
        /\ UNCHANGED <<queue, db, files, readDb, writeDb, isMax, stopped, deletePoint, crashes, accepted, reread, inFlight, drained, lost>>

\* Mutant: the prefetched batch is kept.
CanPrepareKeepingBatch ==
    /\ sender = "deleted"
    /\ db' = [db EXCEPT ![readDb].canPrepare = TRUE]
    /\ inFlight' = inFlight \cup {disk[db[readDb].file].rows[k] : k \in Elements(db[readDb].selected)}
    /\ sender' = "prepared"
    /\ UNCHANGED <<queue, disk, files, readDb, writeDb, isMax, stopped, pack, deletePoint,
                   crashes, accepted, done, reread, drained, lost>>

\* ... can_prepare_new_batch(), ...
CanPrepareNewBatch ==
    /\ sender = "deleted"
    /\ db' = [db EXCEPT ![readDb].next = <<>>, ![readDb].canPrepare = TRUE]
    /\ inFlight' = inFlight \cup {disk[db[readDb].file].rows[k] : k \in Elements(db[readDb].selected)}
    /\ sender' = "prepared"
    /\ UNCHANGED <<queue, disk, files, readDb, writeDb, isMax, stopped, pack, deletePoint,
                   crashes, accepted, done, reread, drained, lost>>

\* ... and process_file_limit() of a drained file, whose callback may rotate
\* the write database from this thread.
CheckDrainedFile ==
    LET o == [db EXCEPT ![readDb].limit = @ \/ FileIsFull(readDb)]
        calls == FileIsFull(readDb) /\ o[readDb].callback /\ o[readDb].writes
    IN  /\ sender = "prepared"
        /\ IF HasRecords(readDb)
           THEN sender' = "idle" /\ UNCHANGED db
           ELSE /\ calls => RotationFree(readDb, 0)
                /\ db' = o
                /\ sender' = IF calls /\ writeDb = 0 THEN "idle"
                             ELSE IF calls /\ o[writeDb].limit /\ Len(files) < MaxDbAmount THEN "cleanup"
                             ELSE IF o[readDb].limit THEN "finalize" ELSE "idle"
        /\ drained' = Len(disk[db[readDb].file].rows)
        /\ UNCHANGED <<queue, disk, files, readDb, writeDb, isMax, stopped, pack, deletePoint,
                       crashes, accepted, done, reread, inFlight, lost>>

\* The callback on the sending thread.
SenderCleanup ==
    /\ sender = "cleanup"
    /\ sender' = IF writeDb = 0 THEN "idle" ELSE "start"
    /\ db' = IF writeDb = 0 THEN db ELSE CleanedUp(db)
    /\ writeDb' = IF readDb = writeDb THEN writeDb ELSE 0
    /\ UNCHANGED <<queue, disk, files, readDb, isMax, stopped, pack, deletePoint, history>>

SenderStart ==
    /\ sender = "start"
    /\ StartWriteDatabase(db)
    /\ sender' = "finalize"
    /\ UNCHANGED <<queue, readDb, isMax, stopped, pack, deletePoint, history>>

-----------------------------------------------------------------------------
(* __rotate_read_database(), on the sending thread *)

\* __finalize_read_database_thread(): rows that arrived since the file was
\* found drained go with it, and all of them when it was found closed.
FinalizeReadDatabase ==
    LET i == readDb
        f == db[i].file
    IN  /\ sender = "finalize"
        /\ IF disk[f].there
           THEN /\ db' = [db EXCEPT ![i] = Closed(@)]
                /\ lost' = lost \cup {<<disk[f].rows[k], IF k > drained THEN "late"
                                        ELSE IF db[i].stop THEN "closed" ELSE "unread">> :
                                      k \in Elements(RowIds(f))}
                /\ sender' = "remove"
           ELSE /\ sender' = "reopen"
                /\ UNCHANGED <<db, lost>>
        /\ UNCHANGED <<queue, disk, files, readDb, writeDb, isMax, stopped, pack, deletePoint, crashes, accepted, done, reread, inFlight, drained>>

\* __delete_db_files()
DeleteDbFiles ==
    LET f == db[readDb].file
        known == {p[1] : p \in lost}
    IN  /\ sender = "remove"
        /\ disk' = [disk EXCEPT ![f].there = FALSE]
        /\ files' = Removed(files, f)
        /\ lost' = lost \cup ((Unread(f) \ known) \X {"late"})
        /\ sender' = "reopen"
        /\ UNCHANGED <<queue, db, readDb, writeDb, isMax, stopped, pack, deletePoint, crashes, accepted, done, reread, inFlight, drained>>

\* The next file is opened; the last one is read through the write database.
\* When that is just being replaced it is None: the assignment to its
\* should_read raises, and None is left behind as the read database.
ReopenReadDatabase ==
    /\ sender = "reopen"
    /\ deletePoint' = 0
    /\ IF Len(files) > 1
       THEN /\ Len(db) < MaxDatabases
            /\ db' = Append(db, Database(files[1], TRUE, FALSE, FALSE))
            /\ readDb' = Len(db) + 1
            /\ sender' = "count"
       ELSE /\ readDb' = writeDb
            /\ db' = IF writeDb = 0 THEN db ELSE [db EXCEPT ![writeDb].reads = TRUE]
            /\ sender' = IF writeDb = 0 THEN "idle" ELSE "count"
    /\ UNCHANGED <<queue, disk, files, writeDb, isMax, stopped, pack, history>>

\* __check_and_handle_max_db_count() after a file is gone.  The full database
\* that was the last to be written goes on draining the queue.
CheckMaxDbCount ==
    /\ sender = "count"
    /\ sender' = "idle"
    /\ isMax' = (Len(files) >= MaxDbAmount)
    /\ IF isMax /\ Len(files) < MaxDbAmount
       THEN StartWriteDatabase(db)
       ELSE UNCHANGED <<db, disk, writeDb, files>>
    /\ UNCHANGED <<queue, readDb, stopped, pack, deletePoint, history>>

Sender ==
    \/ GetEventPack \/ LeaveDrainedFile
    \/ DeleteData \/ CanPrepareNewBatch \/ CheckDrainedFile
    \/ SenderCleanup \/ SenderStart
    \/ FinalizeReadDatabase \/ DeleteDbFiles \/ ReopenReadDatabase \/ CheckMaxDbCount

-----------------------------------------------------------------------------
\* stop(): the databases are told to stop; their threads close them.
Stop ==
    /\ ~stopped
    /\ stopped' = TRUE
    /\ db' = [i \in DOMAIN db |-> [db[i] EXCEPT !.stop =
                 @ \/ i = readDb \/ (i = writeDb /\ readDb # 0)]]
    /\ UNCHANGED <<queue, disk, files, readDb, writeDb, isMax, senderVars, history>>

\* The process ends and a new one starts: __select_initial_db_files() reads the
\* first file in the folder and writes the last.
Restart ==
    LET there == {f \in DOMAIN disk : disk[f].there}
        hands == UNION {Elements(db[i].batch) : i \in DOMAIN db}
    IN  /\ crashes < MaxCrashes
        /\ crashes' = crashes + 1
        /\ lost' = lost \cup ((Elements(queue) \cup hands) \X {"crash"})
        /\ queue' = <<>>
        /\ disk' = IF there = {} THEN Append(disk, NewFile) ELSE disk
        /\ files' \in Sorted(IF there = {} THEN {Len(disk) + 1} ELSE there)
        /\ LET first == files'[1]
               last == files'[Len(files')]
           IN  IF first = last
               THEN db' = << Database(last, TRUE, TRUE, TRUE) >> /\ readDb' = 1
               ELSE /\ db' = << Database(last, FALSE, TRUE, TRUE), Database(first, TRUE, FALSE, FALSE) >>
                    /\ readDb' = 2
        /\ writeDb' = 1
        /\ isMax' = FALSE /\ stopped' = FALSE
        /\ sender' = "prepared" /\ pack' = <<>> /\ deletePoint' = 0
        /\ UNCHANGED <<accepted, done, reread, inFlight, drained>>

Next ==
    \/ Put \/ PutReachesMaximum
    \/ \E i \in 1 .. MaxDatabases : DatabaseThread(i)
    \/ Sender
    \/ Stop \/ Restart

Spec == Init /\ [][Next]_vars

\* The database threads run, and a call of the sending thread returns.
FairSpec ==
    /\ Spec
    /\ \A i \in 1 .. MaxDatabases : WF_vars(DatabaseThread(i))
    /\ WF_vars(sender \notin {"idle", "got"} /\ Sender)

-----------------------------------------------------------------------------
\* Every variable is of its type, and every message put() answered True for is in
\* the queue, in the hands of a database thread, in a file of the list, processed,
\* or lost in a known way.  No known way is that of a file deleted with rows that
\* were in it when the reader found it drained.
Accounted ==
    /\ SqliteTypeOK
    /\ \A p \in lost : p[2] # "unread"
    /\ \A m \in 1 .. accepted :
        \/ m \in Elements(queue)
        \/ \E i \in DOMAIN db : m \in Elements(db[i].batch)
        \/ \E f \in Elements(files) : disk[f].there /\ m \in Unread(f)
        \/ m \in done
        \/ \E p \in lost : p[1] = m

\* A pack that was deleted is handed out again only when the prefetch had
\* queried it before the delete and assigned the answer after
\* can_prepare_new_batch(): the window the regression test leaves open.
RereadWasInFlight == reread \subseteq inFlight

\* The reader is left without a database only when it falls back on the write
\* database while the writing thread is between two of them.
ReaderKeepsDatabase ==
    [][readDb # 0 /\ readDb' = 0 => \E i \in DOMAIN db : db[i].pc = "start"]_vars

\* A message put() answered True for leaves the queue: some thread writes.  After
\* stop() every database thread ends, or repeats for ever the insert of a batch it
\* had taken.
QueueIsDrained ==
    /\ \A m \in Messages : m \in Elements(queue) ~> (m \notin Elements(queue) \/ stopped)
    /\ stopped ~> (~stopped \/ \A i \in DOMAIN db : db[i].pc \in {"end", "spin"})

=============================================================================
