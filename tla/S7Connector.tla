---------------------------- MODULE S7Connector -----------------------------
(***************************************************************************)
(* connectors/s7: one event loop connects to the devices, once, and then   *)
(* reads those that are due one after the other, with calls that block     *)
(* it.  Later reconnects are the client library's (auto_reconnect).        *)
(*                                                                         *)
(* own: loaded, _devices is filled; connected, the devices whose first     *)
(* connect() succeeded.  queue.poll is __process_device_queue.             *)
(***************************************************************************)
EXTENDS FieldConnector

S7Init ==
    /\ FieldInit("s7", Workers) /\ own = [loaded |-> FALSE, connected |-> {}]

\* _load_devices and _connect_to_devices: a failure is logged, and not tried again.
S7Starts ==
    /\ At("main", "idle") /\ ~stopped /\ To("main", "loop")
    /\ own' = [loaded |-> TRUE, connected |-> {d \in Devices : link[d]}]
    /\ session' = {d \in Devices : link[d]}
    /\ UNCHANGED <<life, hand, data, known, env, rpc>>

\* Device.run: a device that is due (once in the queue at a time).
S7Due(d) ==
    /\ At("main", "loop") /\ ~stopped /\ d \notin Range(queue.poll) /\ Put("poll", d)
    /\ UNCHANGED <<life, work, made, sent, lost, conn, env, rpc>>

\* Device.read and Device.write.
S7Answers(d) == link[d] /\ d \in own.connected

\* _read_data_from_devices: data points that cannot be read are None, for which the
\* converter makes nothing.
S7Reads ==
    /\ At("main", "loop") /\ ~stopped /\ queue.poll # <<>>
    /\ LET d == Head(queue.poll)
           rest == [queue EXCEPT !.poll = Tail(@)]
       IN  \/ /\ S7Answers(d) /\ Reads(1)
              /\ \E bad \in BOOLEAN :
                   queue' = [rest EXCEPT !.convert = Append(@, Reading(d, 1, bad))]
           \/ /\ ~(S7Answers(d) /\ made < MaxSamples)
              /\ queue' = rest /\ UNCHANGED made
    /\ UNCHANGED <<life, work, sent, lost, conn, env, rpc>>

\* _convert_data and _save_data.
S7Converts == ConvertsHead
S7Saves == SavesHead("save", "idle")

\* close(): the devices are disconnected; all tasks are cancelled in the end.
S7Close ==
    /\ ~stopped /\ stopped' = TRUE /\ session' = {}
    /\ UNCHANGED <<kind, work, data, known, own, env, rpc>>

\* _process_rpc for a configured or a reserved method: the client is called on the
\* gateway's thread; what it raises is replied here and by the gateway.
S7Processed(d) ==
    {Returns(1, "error", "error")}
        \cup (IF S7Answers(d) THEN {Returns(1, "none", "value")} ELSE {})

\* server_side_rpc_handler: a method with the connector's prefix is not replied to.
S7Rpc(d) ==
    IF ~own.loaded THEN {Returns(1, "error", "refused")}
    ELSE {Returns(1, "error", "refused"), Returns(1, "none", "refused"), Returns(0, "value", "silent")}
           \cup S7Processed(d)

\* on_attributes_update: the client is called on the thread of the callback.
S7Update(d) == IF own.loaded THEN Written(S7Answers(d)) ELSE {"unknown"}

IsS7 == kind = "s7"
S7Main == IsS7 /\ (S7Starts \/ S7Reads \/ Ends("main", {"idle", "loop"}))
S7Convert == IsS7 /\ (S7Converts \/ Ends("convert", {"idle"}))
S7Save == IsS7 /\ (S7Saves \/ Ends("save", {"idle"}))
S7Device(d) == IsS7 /\ S7Due(d)
S7Gateway == IsS7 /\ S7Close
S7Handler == IsS7 /\ (RpcReturns(S7Rpc(rpc.st)) \/ UpdateReturns(S7Update(rpc.st)))
=============================================================================
