---------------------------- MODULE StorageFeeder ---------------------------
(***************************************************************************)
(* The storing half of the uplink.  Connector threads call                 *)
(* send_to_storage, which answers SUCCESS as soon as the item is in        *)
(* __converted_data_queue.  One thread, __send_to_storage, takes items out *)
(* in batches, splits each into records of at most maxPayloadSizeBytes and *)
(* puts them into the event storage, trying five times when it is full.    *)
(*                                                                         *)
(* The storage is seen through its free room only, which the sending       *)
(* thread gives back as it clears packs.                                   *)
(***************************************************************************)
EXTENDS Sequences, Naturals

CONSTANTS
    Items,                  \* what connectors hand over
    RecordsOf,              \* how many records an item is split into
    Forbidden,              \* items the device filter rejects
    Invalid,                \* items validate_converted_data rejects
    RaisesAt,               \* the record whose processing raises, 0 for none
    OldFormat,              \* items that are dictionaries, not ConvertedData
    BatchSize,              \* batch_size
    Tries,                  \* tries
    Capacity                \* how many records the storage has room for

ASSUME FeederAssumption ==
    /\ RecordsOf \in [Items -> Nat \ {0}]
    /\ Forbidden \subseteq Items
    /\ Invalid \subseteq Items
    /\ RaisesAt \in [Items -> Nat]
    /\ \A i \in Items : RaisesAt[i] <= RecordsOf[i]
    /\ OldFormat \subseteq Items
    /\ BatchSize \in Nat \ {0}
    /\ Tries \in Nat
    /\ Capacity \in Nat \ {0}

VARIABLES
    queue,                  \* __converted_data_queue
    batch,                  \* tasks, still to be processed
    phase,                  \* collecting or putting
    record,                 \* the record of Head(batch) being put
    tries,                  \* current_try
    room,                   \* free room of the storage
    mayAddDevice,           \* whether add_device can be called for an unknown device
    accepted,               \* history: items answered SUCCESS, in this order
    batchOf,                \* history: the batch that took an item, 0 for none
    batches,                \* history: the number of batches begun
    written,                \* history: records put, in this order
    skipped,                \* history: items left out on purpose
    rejected                \* history: records no try found room for

feedVars == <<queue, batch, phase, record, tries, room, mayAddDevice,
          accepted, batchOf, batches, written, skipped, rejected>>
taskVars == <<batch, phase, record, tries>>

RecordsFrom(i) == {<<i, n>> : n \in 1 .. RecordsOf[i]}
Records == UNION {RecordsFrom(i) : i \in Items}
ElementsOf(s) == {s[k] : k \in DOMAIN s}

FeederTypeOK ==
    /\ queue \in Seq(Items)
    /\ batch \in Seq(Items) /\ Len(batch) <= BatchSize
    /\ phase \in {"collecting", "processing", "putting"}
    /\ phase = "putting" => record \in 1 .. RecordsOf[Head(batch)]
    /\ tries \in 0 .. Tries
    /\ room \in 0 .. Capacity
    /\ mayAddDevice \in BOOLEAN
    /\ accepted \in Seq(Items)
    /\ batchOf \in [Items -> Nat]
    /\ batches \in Nat
    /\ written \in Seq(Records)
    /\ skipped \subseteq Items
    /\ rejected \subseteq Records

FeederInit ==
    /\ queue = <<>>
    /\ batch = <<>>
    /\ phase = "collecting"
    /\ record = 1
    /\ tries = 0
    /\ room = Capacity
    /\ mayAddDevice = TRUE
    /\ accepted = <<>>
    /\ batchOf = [i \in Items |-> 0]
    /\ batches = 0
    /\ written = <<>>
    /\ skipped = {}
    /\ rejected = {}

-----------------------------------------------------------------------------
\* send_to_storage: FORBIDDEN_DEVICE changes nothing, SUCCESS queues the item.
SendToStorage(i) ==
    /\ i \notin ElementsOf(accepted)
    /\ i \notin Forbidden
    /\ queue' = Append(queue, i)
    /\ accepted' = Append(accepted, i)
    /\ UNCHANGED <<taskVars, room, mayAddDevice, batchOf, batches, written, skipped, rejected>>

\* A collecting loop that takes the newest item first.
CollectNewest ==
    /\ phase = "collecting"
    /\ queue # <<>>
    /\ Len(batch) < BatchSize
    /\ queue' = SubSeq(queue, 1, Len(queue) - 1)
    /\ batch' = Append(batch, queue[Len(queue)])
    /\ batchOf' = [batchOf EXCEPT ![queue[Len(queue)]] = batches + 1]
    /\ UNCHANGED <<phase, record, tries, room, mayAddDevice, accepted, batches, written,
                   skipped, rejected>>

\* One turn of the collecting loop of __send_to_storage.
Collect ==
    /\ phase = "collecting"
    /\ queue # <<>>
    /\ Len(batch) < BatchSize
    /\ queue' = Tail(queue)
    /\ batch' = Append(batch, Head(queue))
    /\ batchOf' = [batchOf EXCEPT ![Head(queue)] = batches + 1]
    /\ UNCHANGED <<phase, record, tries, room, mayAddDevice, accepted, batches, written,
                   skipped, rejected>>

\* The loop ends with the queue empty, the batch full or 500 ms gone.
StartBatch ==
    /\ phase = "collecting"
    /\ batch # <<>>
    /\ phase' = "processing"
    /\ batches' = batches + 1
    /\ UNCHANGED <<queue, batch, record, tries, room, mayAddDevice, accepted, batchOf,
                   written, skipped, rejected>>

FinishBatch ==
    /\ phase = "processing"
    /\ batch = <<>>
    /\ phase' = "collecting"
    /\ UNCHANGED <<queue, batch, record, tries, room, mayAddDevice, accepted, batchOf,
                   batches, written, skipped, rejected>>

\* __process_event up to the splitting.  Invalid data are left out; so are new
\* format data of a device that would have to be added for a connector that is
\* not available, while old format data are stored all the same.
LeftOut(i) == i \in Invalid \/ (i \notin OldFormat /\ ~mayAddDevice)

BeginItem ==
    /\ phase = "processing"
    /\ batch # <<>>
    /\ IF LeftOut(Head(batch))
       THEN /\ skipped' = skipped \cup {Head(batch)}
            /\ batch' = Tail(batch)
            /\ UNCHANGED <<phase, record, tries>>
       ELSE /\ phase' = "putting"
            /\ record' = 1
            /\ tries' = 0
            /\ UNCHANGED <<batch, skipped>>
    /\ UNCHANGED <<queue, room, mayAddDevice, accepted, batchOf, batches, written, rejected>>

\* The next record of the item, or the next item of the batch.
Advance ==
    IF record < RecordsOf[Head(batch)]
    THEN /\ record' = record + 1
         /\ tries' = 0
         /\ UNCHANGED <<batch, phase>>
    ELSE /\ batch' = Tail(batch)
         /\ phase' = "processing"
         /\ record' = 1
         /\ tries' = 0

Raises == record = RaisesAt[Head(batch)]

\* __send_data_pack_to_storage: put() answers True,
PutRecord ==
    /\ phase = "putting"
    /\ ~Raises
    /\ room > 0
    /\ room' = room - 1
    /\ written' = Append(written, <<Head(batch), record>>)
    /\ Advance
    /\ UNCHANGED <<queue, mayAddDevice, accepted, batchOf, batches, skipped, rejected>>

\* A retry loop that forgets to count.
RetryPutForEver ==
    /\ phase = "putting"
    /\ ~Raises
    /\ room = 0
    /\ UNCHANGED feedVars

\* or False: after a sleep it is tried again, four times; then the record is
\* dropped with an error in the log.
RetryPut ==
    /\ phase = "putting"
    /\ ~Raises
    /\ room = 0
    /\ tries < Tries
    /\ tries' = tries + 1
    /\ UNCHANGED <<queue, batch, phase, record, room, mayAddDevice, accepted, batchOf, batches,
                   written, skipped, rejected>>

GiveUpRecord ==
    /\ phase = "putting"
    /\ ~Raises
    /\ room = 0
    /\ tries = Tries
    /\ rejected' = rejected \cup {<<Head(batch), record>>}
    /\ Advance
    /\ UNCHANGED <<queue, room, mayAddDevice, accepted, batchOf, batches, written, skipped>>

\* A handler that throws the queue away too.
RaiseDropsQueue ==
    /\ phase = "putting"
    /\ Raises
    /\ batch' = <<>>
    /\ queue' = <<>>
    /\ phase' = "collecting"
    /\ record' = 1
    /\ tries' = 0
    /\ UNCHANGED <<room, mayAddDevice, accepted, batchOf, batches, written, skipped, rejected>>

\* An exception reaches the handler around the batch, and the loop starts over
\* with a new list of tasks.
RaiseFromItem ==
    /\ phase = "putting"
    /\ Raises
    /\ batch' = <<>>
    /\ phase' = "collecting"
    /\ record' = 1
    /\ tries' = 0
    /\ UNCHANGED <<queue, room, mayAddDevice, accepted, batchOf, batches, written, skipped, rejected>>

-----------------------------------------------------------------------------
\* The sending thread clears records; connectors and the connection come and go.
FreeRoom ==
    /\ room < Capacity
    /\ room' = room + 1
    /\ UNCHANGED <<queue, taskVars, mayAddDevice, accepted, batchOf, batches, written,
                   skipped, rejected>>

ChangeAvailability ==
    /\ mayAddDevice' = ~mayAddDevice
    /\ UNCHANGED <<queue, taskVars, room, accepted, batchOf, batches, written, skipped, rejected>>

FeederThread ==
    \/ Collect \/ StartBatch \/ FinishBatch \/ BeginItem
    \/ PutRecord \/ RetryPut \/ GiveUpRecord \/ RaiseFromItem

FeederNext ==
    \/ \E i \in Items : SendToStorage(i)
    \/ FeederThread
    \/ FreeRoom
    \/ ChangeAvailability

FeederSpec == FeederInit /\ [][FeederNext]_feedVars

\* Only the storing thread is fair: the sending thread may be without connection
\* for ever, so room may never come back.
FairFeederSpec == FeederSpec /\ WF_feedVars(FeederThread)

-----------------------------------------------------------------------------
InHand(i) == i \in ElementsOf(queue) \cup ElementsOf(batch)

\* The place of an item in the order of acceptance.
PlaceIn(s, i) == CHOOSE k \in DOMAIN s : s[k] = i
Place(i) == PlaceIn(accepted, i)

BehindRaising(i) ==
    \E j \in ElementsOf(accepted) \ skipped :
        /\ RaisesAt[j] > 0
        /\ batchOf[j] = batchOf[i]
        /\ Place(j) <= Place(i)

\* Every variable is of its type, and what connectors were promised is kept:
\* send_to_storage answered SUCCESS, so the item is stored record by record,
\* left out or rejected with a line in the log, or still on its way.  The one
\* exception is an item that raises, or stands behind one that raises in the
\* same batch: the handler of __send_to_storage drops the rest of the list.
LostOnlyBehindRaising ==
    /\ FeederTypeOK
    /\ \A i \in ElementsOf(accepted) :
        \/ InHand(i)
        \/ i \in skipped
        \/ RecordsFrom(i) \subseteq ElementsOf(written) \cup rejected
        \/ BehindRaising(i)

\* Records reach the storage in the order in which send_to_storage accepted
\* their items, whatever the batches, retries and exceptions in between, and
\* never twice.
StoredInOrder ==
    \A a, b \in DOMAIN written :
        a < b => \/ Place(written[a][1]) < Place(written[b][1])
                 \/ written[a][1] = written[b][1] /\ written[a][2] < written[b][2]

\* A full storage slows the storing thread down but never stops it: every item
\* leaves the queue and the batch, even when room never comes back.
EveryItemLeaves == \A i \in Items : i \in ElementsOf(accepted) ~> ~InHand(i)
=============================================================================
