-------------------------- MODULE FileEventStorage --------------------------
(***************************************************************************)
(* FileEventStorage: the storing thread appends records to the newest data *)
(* file (EventStorageWriter), the sending thread reads packs from the      *)
(* oldest on (EventStorageReader), and state_file.txt remembers between    *)
(* two runs of the process how far the packs have been processed.          *)
(*                                                                         *)
(* A file is named after the millisecond of its creation; names are        *)
(* numbers here and the clock does not run backwards.  data_files holds    *)
(* what the folder holds, since every creation and removal updates both,   *)
(* so DOMAIN disk stands for the two.  Lines always decode: only put()     *)
(* writes them.  The handle of the reader stands at newPos.                *)
(***************************************************************************)
EXTENDS Sequences, FiniteSets, Integers

CONSTANTS
    Events,                 \* records given to put()
    MaxFileCount,           \* max_file_count
    MaxRecordsPerFile,      \* max_records_per_file
    MaxReadRecords,         \* max_read_records_count
    MaxCrashes,             \* bound on restarts of the process
    Torn                    \* the state file truncated and not yet written

ASSUME FileStorageAssumption ==
    /\ MaxFileCount \in Nat \ {0}
    /\ MaxRecordsPerFile \in Nat \ {0}
    /\ MaxReadRecords \in Nat \ {0}
    /\ MaxCrashes \in Nat

VARIABLES
    disk,                   \* the data files: name -> lines
    lastName,               \* the newest name given so far
    stateFile,              \* state_file.txt: a position, or Torn
    writer,                 \* the storing thread: idle or writing
    writerFile,             \* current_file of the writer
    recordsCount,           \* current_file_records_count
    stopped,                \* stop() was called
    reader,                 \* the sending thread: where in read() or discard_batch()
    currentPos,             \* current_pos
    newPos,                 \* new_pos
    aliased,                \* current_pos and new_pos are one object
    batch,                  \* current_batch, <<>> also for None
    toRead,                 \* records_to_read
    crashes,                \* restarts so far
    accepted,               \* history: events for which put() wrote a line
    done,                   \* history: events of packs processed
    raced,                  \* history: lines of a file left by the reader unread
    cleared,                \* history: lines of a pack deleted before it was done
    torn                    \* history: a restart found the state file empty

diskVars == <<disk, lastName>>
writerVars == <<writer, writerFile, recordsCount, stopped>>
readerVars == <<reader, currentPos, newPos, aliased, batch, toRead>>
history == <<crashes, accepted, done, raced, cleared, torn>>
vars == <<diskVars, stateFile, writerVars, readerVars, history>>

Pos(f, l) == [file |-> f, line |-> l]
ElementsOf(s) == {s[k] : k \in DOMAIN s}
Least(S) == CHOOSE x \in S : \A y \in S : x <= y
Greatest(S) == CHOOSE x \in S : \A y \in S : y <= x
WithFile(f) == [g \in DOMAIN disk \cup {f} |-> IF g \in DOMAIN disk THEN disk[g] ELSE <<>>]
Without(S) == [f \in DOMAIN disk \ S |-> disk[f]]
UnreadOf(f, line) == {disk[f][k] : k \in line + 1 .. Len(disk[f])}

Position == [file : Nat, line : Nat]

FileTypeOK ==
    /\ IsFiniteSet(DOMAIN disk) /\ DOMAIN disk \subseteq 1 .. lastName
    /\ \A f \in DOMAIN disk : disk[f] \in Seq(Events)
    /\ lastName \in Nat
    /\ stateFile \in Position \cup {Torn}
    /\ writer \in {"idle", "writing"}
    /\ writerFile \in Nat /\ recordsCount \in Nat
    /\ stopped \in BOOLEAN
    /\ reader \in {"idle", "lines", "switch", "truncated", "written"}
    /\ currentPos \in Position /\ newPos \in Position
    /\ aliased => currentPos = newPos
    /\ batch \in Seq(Events) /\ Len(batch) <= MaxReadRecords
    /\ toRead \in 0 .. MaxReadRecords
    /\ crashes \in 0 .. MaxCrashes
    /\ accepted \in Seq(Events)
    /\ UNION {done, raced, cleared} \subseteq Events
    /\ torn \in BOOLEAN

\* The first start: init_data_files creates one data file and the state file.
Init ==
    /\ disk = [f \in {1} |-> <<>>] /\ lastName = 1
    /\ stateFile = Pos(1, 0)
    /\ writer = "idle" /\ writerFile = 1 /\ recordsCount = 0 /\ stopped = FALSE
    /\ reader = "idle"
    /\ currentPos = Pos(1, 0) /\ newPos = Pos(1, 0) /\ aliased = TRUE
    /\ batch = <<>> /\ toRead = 0
    /\ crashes = 0 /\ accepted = <<>>
    /\ done = {} /\ raced = {} /\ cleared = {}
    /\ torn = FALSE

-----------------------------------------------------------------------------
\* EventStorageWriter.write.  The limit is tested first: one file more than
\* max_file_count is allowed.  A full file is followed by a new one, unless
\* the new name is of the same millisecond: then create_file finds the file
\* there and the writer goes on with it, counting from 0 again.
CreateDatafile ==
    \/ /\ lastName' = lastName + 1
       /\ disk' = WithFile(lastName + 1)
       /\ writerFile' = lastName + 1
    \/ UNCHANGED <<lastName, disk, writerFile>>

BeginWrite ==
    /\ writer = "idle"
    /\ ~stopped
    /\ Cardinality(DOMAIN disk) <= MaxFileCount
    /\ writer' = "writing"
    /\ IF recordsCount >= MaxRecordsPerFile
       THEN CreateDatafile /\ recordsCount' = 0
       ELSE UNCHANGED <<diskVars, writerFile, recordsCount>>
    /\ UNCHANGED <<stopped, stateFile, readerVars, history>>

WriteRecord(e) ==
    /\ writer = "writing"
    /\ e \notin ElementsOf(accepted)
    /\ disk' = [disk EXCEPT ![writerFile] = Append(@, e)]
    /\ recordsCount' = recordsCount + 1
    /\ accepted' = Append(accepted, e)
    /\ writer' = "idle"
    /\ UNCHANGED <<lastName, stateFile, writerFile, stopped, readerVars, crashes, done, raced, cleared, torn>>

\* An IOError is logged and put() answers True all the same: no line.
WriteFails ==
    /\ writer = "writing"
    /\ writer' = "idle"
    /\ UNCHANGED <<diskVars, stateFile, writerFile, recordsCount, stopped, readerVars, history>>

-----------------------------------------------------------------------------
\* EventStorageReader.read: a pack that was not discarded is handed out again,
\* which changes nothing.
BeginRead ==
    /\ reader = "idle"
    /\ batch = <<>>
    /\ reader' = "lines"
    /\ toRead' = MaxReadRecords
    /\ UNCHANGED <<diskVars, stateFile, writerVars, currentPos, newPos, aliased, batch, history>>

\* Reading without moving the position.
MoveNowhere(line) == UNCHANGED <<newPos, currentPos>>

\* set_line moves current_pos too while the two are one object.
MoveTo(line) ==
    /\ newPos' = [newPos EXCEPT !.line = line]
    /\ currentPos' = IF aliased THEN newPos' ELSE currentPos

LinesRead ==
    LET available == Len(disk[newPos.file]) - newPos.line
    IN  IF available < toRead THEN available ELSE toRead

\* The readline loop, up to the end of the file or the last record to read.
ReadLines ==
    /\ reader = "lines"
    /\ batch' = batch \o SubSeq(disk[newPos.file], newPos.line + 1, newPos.line + LinesRead)
    /\ toRead' = toRead - LinesRead
    /\ MoveTo(newPos.line + LinesRead)
    /\ reader' = "switch"
    /\ UNCHANGED <<diskVars, stateFile, writerVars, aliased, history>>

\* The last line has no line end yet, as the writer is at it: read() returns.
ReadTornLine ==
    /\ reader = "lines"
    /\ writer = "writing" /\ writerFile = newPos.file
    /\ Len(disk[newPos.file]) - newPos.line < toRead
    /\ batch' = batch \o SubSeq(disk[newPos.file], newPos.line + 1, newPos.line + LinesRead)
    /\ toRead' = toRead - LinesRead
    /\ MoveTo(newPos.line + LinesRead)
    /\ reader' = "idle"
    /\ UNCHANGED <<diskVars, stateFile, writerVars, aliased, history>>

NextFiles == {f \in DOMAIN disk : f > newPos.file}

\* Go on to the next file when there is one, and delete the file of
\* current_pos: the first file of this pack, at the first switch.
LeaveFile ==
    /\ reader = "switch"
    /\ newPos.line <= MaxRecordsPerFile \/ toRead > 0
    /\ NextFiles # {}
    /\ disk' = Without({currentPos.file})
    /\ raced' = raced \cup UnreadOf(newPos.file, newPos.line)
    /\ cleared' = cleared \cup (IF currentPos.file \in DOMAIN disk
                                THEN ElementsOf(disk[currentPos.file]) \cap ElementsOf(batch)
                                ELSE {})
    /\ newPos' = Pos(Least(NextFiles), 0)
    /\ aliased' = FALSE
    /\ reader' = IF toRead > 0 THEN "lines" ELSE "idle"
    /\ UNCHANGED <<lastName, stateFile, writerVars, currentPos, batch, toRead, crashes, accepted,
                   done, torn>>

ReturnPack ==
    /\ reader = "switch"
    /\ \/ NextFiles = {}
       \/ newPos.line > MaxRecordsPerFile /\ toRead = 0
    /\ reader' = "idle"
    /\ UNCHANGED <<diskVars, stateFile, writerVars, currentPos, newPos, aliased, batch, toRead, history>>

-----------------------------------------------------------------------------
\* EventStorageReader.discard_batch.  Opening the state file empties it.
TruncateState ==
    /\ reader = "idle"
    /\ batch # <<>>
    /\ stateFile' = Torn
    /\ reader' = "truncated"
    /\ UNCHANGED <<diskVars, writerVars, currentPos, newPos, aliased, batch, toRead, history>>

\* Writing the position of the pack before.
WriteOldState ==
    /\ reader = "truncated"
    /\ stateFile' = currentPos
    /\ reader' = "written"
    /\ done' = done \cup ElementsOf(batch)
    /\ UNCHANGED <<diskVars, writerVars, currentPos, newPos, aliased, batch, toRead, crashes,
                   accepted, raced, cleared, torn>>

\* Closing it writes the new position.
WriteState ==
    /\ reader = "truncated"
    /\ stateFile' = newPos
    /\ reader' = "written"
    /\ done' = done \cup ElementsOf(batch)
    /\ UNCHANGED <<diskVars, writerVars, currentPos, newPos, aliased, batch, toRead, crashes,
                   accepted, raced, cleared, torn>>

\* Taking the file of the new position for processed too.
FilesUpToNew == {f \in DOMAIN disk : f <= newPos.file}

\* Then _remove_processed_files deletes the files in front of it.
ProcessedFiles ==
    LET stops == DOMAIN disk \cap {currentPos.file, newPos.file}
    IN  {f \in DOMAIN disk : \A s \in stops : f < s}

RemoveProcessedFiles ==
    /\ reader = "written"
    /\ disk' = Without(ProcessedFiles)
    /\ currentPos' = newPos /\ aliased' = TRUE
    /\ batch' = <<>>
    /\ reader' = "idle"
    /\ UNCHANGED <<lastName, stateFile, writerVars, newPos, toRead, history>>

\* stop(): put() refuses from now on, packs are still read and processed.
Stop ==
    /\ ~stopped
    /\ stopped' = TRUE
    /\ UNCHANGED <<diskVars, stateFile, writer, writerFile, recordsCount, readerVars, history>>

-----------------------------------------------------------------------------
\* The process dies at any point and is started again.
FilesFound ==
    IF \A f \in DOMAIN disk : disk[f] = <<>>
    THEN WithFile(lastName + 1)
    ELSE disk

\* Keeping the line when the file is gone.
StartAtOldLine(files) ==
    IF stateFile = Torn THEN Pos(Least(DOMAIN files), 0)
    ELSE IF stateFile.file \in DOMAIN files THEN stateFile
         ELSE Pos(Least(DOMAIN files), stateFile.line)

\* read_state_file: the state file may be empty, or name a file deleted since.
StartPosition(files) ==
    IF stateFile # Torn /\ stateFile.file \in DOMAIN files
    THEN stateFile
    ELSE Pos(Least(DOMAIN files), 0)

Restart ==
    LET files == FilesFound
        start == StartPosition(files)
    IN  /\ crashes < MaxCrashes
        /\ crashes' = crashes + 1
        /\ disk' = [f \in {g \in DOMAIN files : g >= start.file} |-> files[f]]
        /\ lastName' = Greatest(DOMAIN files \cup {lastName})
        /\ writer' = "idle"
        /\ writerFile' = Greatest(DOMAIN files)
        /\ recordsCount' = Len(files[Greatest(DOMAIN files)])
        /\ stopped' = FALSE
        /\ reader' = "idle"
        /\ currentPos' = start /\ newPos' = start /\ aliased' = TRUE
        /\ batch' = <<>> /\ toRead' = 0
        /\ torn' = (torn \/ stateFile = Torn)
        /\ UNCHANGED <<stateFile, accepted, done, raced, cleared>>

Next ==
    \/ BeginWrite
    \/ \E e \in Events : WriteRecord(e)
    \/ WriteFails
    \/ BeginRead \/ ReadLines \/ ReadTornLine \/ LeaveFile \/ ReturnPack
    \/ TruncateState \/ WriteState \/ RemoveProcessedFiles
    \/ Stop
    \/ Restart

Spec == Init /\ [][Next]_vars

-----------------------------------------------------------------------------
Unread ==
    UNION {UnreadOf(f, IF f = newPos.file THEN newPos.line ELSE 0) :
              f \in {g \in DOMAIN disk : g >= newPos.file}}

Pending == ElementsOf(batch) \cup Unread

PlaceIn(s, e) == CHOOSE k \in DOMAIN s : s[k] = e
Place(e) == PlaceIn(accepted, e)

\* Every variable is of its type, and whatever the threads and restarts do, the reader stands in a file that is
\* there, never beyond its end, the writer appends to the newest file, which
\* the reader therefore never deletes, and the limit of files holds for files
\* with records (an empty one may be left over by a restart).
FilesInPlace ==
    /\ FileTypeOK
    /\ newPos.file \in DOMAIN disk
    /\ newPos.line <= Len(disk[newPos.file])
    /\ writerFile = Greatest(DOMAIN disk)
    /\ Cardinality({f \in DOMAIN disk : disk[f] # <<>>}) <= MaxFileCount + 1

\* A written record stays within reach of the reader until its pack is done,
\* across any number of restarts, but for two windows of read(): it leaves a
\* file with lines unread, or deletes the first file of a pack not yet done.
LossWindows == ElementsOf(accepted) \subseteq UNION {done, Pending, raced, cleared}

\* Records of a pack processed are never read again, not even by the next
\* process, unless it died between emptying and writing the state file.
DoneStaysDone == torn \/ reader = "written" \/ done \cap Pending = {}

\* A pack holds records in the order of their put(), and none that comes after
\* a record still to be read.
PacksInOrder ==
    /\ \A a, b \in DOMAIN batch : a < b => Place(batch[a]) < Place(batch[b])
    /\ \A e \in ElementsOf(batch), u \in Unread : Place(e) < Place(u)
=============================================================================
