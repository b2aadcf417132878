-------------------------- MODULE BacnetConnector ---------------------------
(***************************************************************************)
(* connectors/bacnet: devices are asked for (who-is) again and again; one  *)
(* that answers (I-Am) is added, its objects are discovered, and then it   *)
(* is polled.  Everything runs in one event loop; requests end when        *)
(* confirmation_handler hands over their answer, or their abort.           *)
(*                                                                         *)
(* own: gathered, the loops were started; confirms, confirmation_handler   *)
(* runs; heard, __indication_queue; adding and at, the device that         *)
(* indication_callback is adding and how far it is; added, __devices;      *)
(* objects, the devices with objects to read; failed, those of whose       *)
(* objects some could not be read (failed_to_read_indexes); barren, those  *)
(* whose discovery brought nothing; reading, the reads under way.          *)
(***************************************************************************)
EXTENDS FieldConnector

BacInit ==
    /\ FieldInit("bacnet", Workers)
    /\ own = [gathered |-> FALSE, confirms |-> TRUE, heard |-> <<>>, adding |-> "none",
              at |-> "none", added |-> {}, objects |-> {}, failed |-> {}, barren |-> {},
              reading |-> {}]

\* __discover_devices, first by __start and then by __main_loop: a device that
\* answers its who-is is heard.  (The answer of a device that is in __devices already
\* changes nothing, and is not followed.)
Answering ==
    LET silent == {d \in Devices : ~link[d]} \cup Range(own.heard) \cup own.added \cup {own.adding} IN
    Chosen(Order, {k \in DOMAIN Order : Order[k] \notin silent})
BacDiscovers ==
    /\ At("main", "idle") /\ ~stopped /\ To("main", "scan")
    /\ own' = [own EXCEPT !.heard = @ \o Answering, !.gathered = TRUE]
    /\ UNCHANGED <<life, hand, data, session, known, env, rpc>>

\* indication_callback: the next I-Am.
BacHears ==
    /\ own.gathered /\ ~stopped /\ own.adding = "none" /\ own.heard # <<>>
    /\ own' = [own EXCEPT !.heard = Tail(@), !.adding = Head(own.heard), !.at = "name"]
    /\ UNCHANGED <<life, work, data, session, known, env, rpc>>

\* A request ends: with an answer, or with an abort when the device is silent.
Ended == own.confirms /\ ~At("main", "ended")

\* __add_device: the name is asked for (without an answer the identifier serves),
\* and the device is added and its task started.
BacAdds ==
    /\ own.at = "name" /\ Ended
    /\ own' = [own EXCEPT !.at = "objects", !.added = @ \cup {own.adding}]
    /\ known' = known \cup {own.adding}
    /\ UNCHANGED <<life, work, data, session, env, rpc>>

\* get_device_objects: the objects of a device, or without those that will be asked
\* for again, or none, for good.
Discovered(d) == IF link[d] THEN {"objects"} ELSE {"failed", "barren"}

\* Then __check_and_update_device_config discovers its objects.
BacFinds ==
    /\ own.at = "objects" /\ Ended
    /\ \E as \in Discovered(own.adding) :
         own' = [own EXCEPT ![as] = @ \cup {own.adding}, !.at = "none", !.adding = "none"]
    /\ UNCHANGED <<life, work, data, session, known, env, rpc>>

\* Device.rescan and __rescan_devices.
BacRescans(d) ==
    /\ d \in own.failed /\ link[d] /\ Ended /\ ~stopped
    /\ own' = [own EXCEPT !.failed = @ \ {d}, !.objects = @ \cup {d}]
    /\ UNCHANGED <<life, work, data, session, known, env, rpc>>

\* Device.run: the devices that are due.
BacDue == own.objects \ own.reading

\* __main_loop: tasks for the devices that are due, after a discovery
\* or without.  A task may take any time, which stands for the wait in the queue too.
BacPolls ==
    /\ At("main", "scan") \/ (At("main", "idle") /\ BacDue # {})
    /\ own.gathered /\ ~stopped /\ To("main", "idle")
    /\ own' = [own EXCEPT !.reading = @ \cup BacDue]
    /\ UNCHANGED <<life, hand, data, session, known, env, rpc>>

\* read_multiple_objects: the request is answered; one that fails brings no results.
ReadAnswered(d) == link[d]

\* __read_multiple_properties.
BacReads(d) ==
    /\ d \in own.reading /\ Ended
    /\ own' = [own EXCEPT !.reading = @ \ {d}]
    /\ \/ ReadAnswered(d) /\ Produce(d, "convert")
       \/ ~ReadAnswered(d) /\ UNCHANGED data
    /\ UNCHANGED <<life, work, session, known, env, rpc>>

\* __convert_data: items that cannot be converted are left out.
BacConverts == ConvertsHead

\* __save_data.
BacSaves == SavesHead("save", "idle")

\* confirmation_handler returns at a confirmation that no request waits for.
BacStray ==
    /\ Happens /\ own.gathered /\ own.confirms /\ own' = [own EXCEPT !.confirms = FALSE]
    /\ UNCHANGED <<life, work, data, session, known, link, rpc>>

\* close(): devices and application are stopped, all tasks are cancelled in the end.
BacClose ==
    /\ ~stopped /\ stopped' = TRUE
    /\ UNCHANGED <<kind, work, data, conn, env, rpc>>

\* __process_rpc: the task ends with a value or an error, or the wait is over.
BacProcessed(d, late_result) ==
    (IF Ended THEN {Returns(1, "none", "error"), Returns(1, "value", IF link[d] THEN "value" ELSE "empty")}
     ELSE {}) \cup {Returns(1, late_result, "timeout")}

\* A configured method: every configuration with its name is processed and replied to.
BacDeviceRpc(d) ==
    BacProcessed(d, "none") \cup {Returns(1, "none", "refused"), Returns(2, "none", "twice")}

\* get and set: parameters that do not match the schema make the handler raise.
BacReservedRpc(d) ==
    BacProcessed(d, "error") \cup {Returns(1, "none", "refused"), Returns(0, "raises", "schema")}

\* server_side_rpc_handler.
BacRpc(d) ==
    IF d \notin own.added THEN {Returns(1, "none", "refused")}
    ELSE BacDeviceRpc(d) \cup BacReservedRpc(d)

\* __write_property.
PropertyWritten(d) == link[d] /\ Ended

\* on_attributes_update: the device is looked up and the property written by tasks
\* of the loop, both waited for.
BacUpdate(d) ==
    IF d \in own.added THEN Written(PropertyWritten(d)) ELSE {"unknown"}

IsBacnet == kind = "bacnet"
BacPeriod == IsBacnet /\ BacDiscovers
BacMain ==
    IsBacnet /\ (BacDiscovers \/ BacPolls \/ Ends("main", {"idle", "scan"}))
BacAside == IsBacnet /\ (BacHears \/ BacAdds \/ BacFinds)
BacConvert == IsBacnet /\ (BacConverts \/ Ends("convert", {"idle"}))
BacSave == IsBacnet /\ (BacSaves \/ Ends("save", {"idle"}))
BacDevice(d) == IsBacnet /\ (BacRescans(d) \/ BacReads(d))
BacOutside == IsBacnet /\ BacStray
BacGateway == IsBacnet /\ BacClose
BacHandler == IsBacnet /\ (RpcReturns(BacRpc(rpc.st)) \/ UpdateReturns(BacUpdate(rpc.st)))
=============================================================================
