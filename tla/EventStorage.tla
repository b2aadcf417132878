---------------------------- MODULE EventStorage ----------------------------
(***************************************************************************)
(* What every event storage of the gateway promises its two users, the     *)
(* thread that fills it (tb_gateway_service.__send_to_storage) and the     *)
(* thread that empties it (tb_gateway_service.__read_data_from_storage):   *)
(* the interface storage/event_storage.py, and the contract its three      *)
(* implementations share.                                                  *)
(*                                                                         *)
(* An event for which put() answered True stays in the storage, in the     *)
(* order of the answers, until event_pack_processing_done().  A pack is a  *)
(* prefix of what is stored; the same pack is handed out again until it is *)
(* declared processed, and only the events of that pack are cleared then.  *)
(***************************************************************************)
EXTENDS Sequences, Naturals

CONSTANT Events                \* the events the gateway may store

VARIABLES
    stored,                    \* accepted and not yet cleared, oldest first
    packLen                    \* how many of them the consumer was handed

esVars == <<stored, packLen>>

\* The events that get_event_pack() returned and that are not cleared yet.
EventPack == SubSeq(stored, 1, packLen)

EventStorageTypeOK ==
    /\ stored \in Seq(Events)
    /\ packLen \in 0 .. Len(stored)

EventStorageInit ==
    /\ stored = <<>>
    /\ packLen = 0

\* put(event) answering True.
Put(e) ==
    /\ stored' = Append(stored, e)
    /\ UNCHANGED packLen

\* get_event_pack(): an open pack is handed out again; otherwise a new one is
\* opened on the oldest events.
GetEventPack ==
    /\ packLen = 0
    /\ packLen' \in 1 .. Len(stored)
    /\ UNCHANGED stored

\* event_pack_processing_done(): "events from previous get_event_pack may be
\* cleared", and no others.
EventPackProcessingDone ==
    /\ stored' = SubSeq(stored, packLen + 1, Len(stored))
    /\ packLen' = 0

EventStorageNext ==
    \/ \E e \in Events : Put(e)
    \/ GetEventPack
    \/ EventPackProcessingDone

EventStorageSpec == EventStorageInit /\ [][EventStorageNext]_esVars
=============================================================================
