------------------------- MODULE MemoryEventStorage -------------------------
(***************************************************************************)
(* storage/memory/memory_event_storage.py: a bounded queue.Queue and the   *)
(* pack in the consumer's hands.  put() runs on the storing thread and     *)
(* get_event_pack() / event_pack_processing_done() on the sending thread,  *)
(* so a put may fall between the qsize() that sizes a pack and each of the *)
(* get_nowait() calls that fill it.                                        *)
(***************************************************************************)
EXTENDS Sequences, Naturals

CONSTANTS
    Events,                 \* the events the gateway may store
    MaxRecordsCount,        \* max_records_count; Queue(0) would be unbounded
    ReadRecordsCount,       \* read_records_count
    MaxPuts                 \* bound: how many events are put in a behaviour

ASSUME MemoryStorageAssumption ==
    /\ MaxRecordsCount \in Nat \ {0}
    /\ ReadRecordsCount \in Nat \ {0}
    /\ MaxPuts \in Nat

VARIABLES
    eventsQueue,            \* __events_queue
    eventPack,              \* __event_pack
    isStopped,              \* __stopped
    collecting,             \* the list get_event_pack() is building
    left,                   \* get_nowait() calls it has still to make
    admitted,               \* history: every event put() answered True for
    cleared                 \* history: the events of the packs declared processed

memoryVars == <<eventsQueue, eventPack, isStopped, collecting, left, admitted, cleared>>

MemoryTypeOK ==
    /\ eventsQueue \in Seq(Events)
    /\ Len(eventsQueue) <= MaxRecordsCount
    /\ eventPack \in Seq(Events)
    /\ isStopped \in BOOLEAN
    /\ collecting \in Seq(Events)
    /\ left \in 0 .. ReadRecordsCount
    /\ admitted \in Seq(Events)
    /\ cleared \in Seq(Events)

MemoryInit ==
    /\ eventsQueue = <<>>
    /\ eventPack = <<>>
    /\ isStopped = FALSE
    /\ collecting = <<>>
    /\ left = 0
    /\ admitted = <<>>
    /\ cleared = <<>>

-----------------------------------------------------------------------------

\* put(): answers True and queues the event, unless stopped or Full, when it
\* answers False and changes nothing.
PutEvent(e) ==
    /\ Len(admitted) < MaxPuts
    /\ ~isStopped
    /\ Len(eventsQueue) < MaxRecordsCount
    /\ eventsQueue' = Append(eventsQueue, e)
    /\ admitted' = Append(admitted, e)
    /\ UNCHANGED <<eventPack, isStopped, collecting, left, cleared>>

\* Mutant: an open pack is not kept.
GetEventPackAgain ==
    /\ left = 0
    /\ Len(eventsQueue) > 0
    /\ left' = IF Len(eventsQueue) < ReadRecordsCount THEN Len(eventsQueue) ELSE ReadRecordsCount
    /\ UNCHANGED <<eventsQueue, eventPack, isStopped, collecting, admitted, cleared>>

\* Mutant: the range ignores qsize().
GetFullEventPack ==
    /\ left = 0
    /\ eventPack = <<>>
    /\ Len(eventsQueue) > 0
    /\ left' = ReadRecordsCount
    /\ UNCHANGED <<eventsQueue, eventPack, isStopped, collecting, admitted, cleared>>

\* get_event_pack() with an empty pack: the range is evaluated once, before
\* the first element is taken.
OpenPack ==
    /\ left = 0
    /\ eventPack = <<>>
    /\ Len(eventsQueue) > 0
    /\ left' = IF Len(eventsQueue) < ReadRecordsCount THEN Len(eventsQueue) ELSE ReadRecordsCount
    /\ UNCHANGED <<eventsQueue, eventPack, isStopped, collecting, admitted, cleared>>

\* One turn of the list comprehension; the last one assigns __event_pack.
\* get_nowait() on an empty queue raises Empty, and the half-built list is
\* dropped with what was taken into it.
GetNowait ==
    /\ left > 0
    /\ IF eventsQueue = <<>>
       THEN /\ collecting' = <<>>
            /\ left' = 0
            /\ UNCHANGED <<eventsQueue, eventPack>>
       ELSE /\ eventsQueue' = Tail(eventsQueue)
            /\ left' = left - 1
            /\ collecting' = IF left = 1 THEN <<>> ELSE Append(collecting, Head(eventsQueue))
            /\ eventPack' = IF left = 1 THEN Append(collecting, Head(eventsQueue)) ELSE eventPack
    /\ UNCHANGED <<isStopped, admitted, cleared>>

\* event_pack_processing_done(), called by the thread that gets the packs.
EventPackProcessingDone ==
    /\ left = 0
    /\ eventPack' = <<>>
    /\ cleared' = cleared \o eventPack
    /\ UNCHANGED <<eventsQueue, isStopped, collecting, left, admitted>>

\* stop()
StopMemory ==
    /\ isStopped' = TRUE
    /\ UNCHANGED <<eventsQueue, eventPack, collecting, left, admitted, cleared>>

MemoryNext ==
    \/ \E e \in Events : PutEvent(e)
    \/ OpenPack
    \/ GetNowait
    \/ EventPackProcessingDone
    \/ StopMemory

MemorySpec == MemoryInit /\ [][MemoryNext]_memoryVars

-----------------------------------------------------------------------------
\* No put() racing with get_event_pack() loses or reorders an event: the events
\* accepted are the cleared ones, the open pack, the pack being built and the
\* queue, in this order.  A get_nowait() that met an empty queue would break it.
NothingDropped == admitted = ((cleared \o eventPack) \o collecting) \o eventsQueue

\* What the storage holds, as its users see it.
Storage == INSTANCE EventStorage WITH
    stored <- (eventPack \o collecting) \o eventsQueue,
    packLen <- Len(eventPack)

\* The queue and the pack together keep the promise of every event storage:
\* accepted order, one pack at a time, nothing cleared before it is processed.
ImplementsEventStorage == Storage!EventStorageSpec
=============================================================================
