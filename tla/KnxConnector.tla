---------------------------- MODULE KnxConnector ----------------------------
(***************************************************************************)
(* connectors/knx: an event loop connects to the bus and serves the        *)
(* requests that the devices' threads put into a queue (queue.poll);       *)
(* other tasks of it convert and send.  own: connected, the event          *)
(* __is_client_connected, which only the end of the client clears.         *)
(***************************************************************************)
EXTENDS FieldConnector

KnxInit == FieldInit("knx", Workers) /\ own = [connected |-> FALSE]

KnxBus == \A d \in Devices : link[d]

\* __start_client_with_block: again and again until it succeeds.
KnxConnects ==
    /\ At("main", "idle") /\ ~stopped /\ KnxBus /\ To("main", "loop")
    /\ own' = [connected |-> TRUE] /\ session' = Devices
    /\ UNCHANGED <<life, hand, data, known, env, rpc>>

\* Device.run: a device that is due (once in the queue at a time).
KnxDue(d) ==
    /\ own.connected /\ ~stopped /\ d \notin Range(queue.poll) /\ Put("poll", d)
    /\ UNCHANGED <<life, work, made, sent, lost, conn, env, rpc>>

\* __process_device_request: without the bus a request is dropped.
KnxReads ==
    /\ At("main", "loop") /\ ~stopped /\ queue.poll # <<>>
    /\ LET rest == [queue EXCEPT !.poll = Tail(@)] IN
       \/ /\ KnxBus /\ Reads(1)
          /\ \E bad \in BOOLEAN :
               queue' = [rest EXCEPT !.convert = Append(@, Reading(Head(queue.poll), 1, bad))]
       \/ ~(KnxBus /\ made < MaxSamples) /\ queue' = rest /\ UNCHANGED made
    /\ UNCHANGED <<life, work, sent, lost, conn, env, rpc>>

\* __convert_data and __send_data.
KnxConverts == ConvertsHead
KnxSends == SavesHead("save", "idle")

\* The loop sees the flag: the client is stopped.
KnxEnds ==
    /\ stopped /\ pc["main"] \in {"idle", "loop"} /\ To("main", "ended")
    /\ own' = [connected |-> FALSE] /\ session' = {}
    /\ UNCHANGED <<life, hand, data, known, env, rpc>>

\* close() sets the flag and stops the devices.
KnxClose ==
    /\ ~stopped /\ stopped' = TRUE
    /\ UNCHANGED <<kind, work, data, conn, env, rpc>>

\* A task that is not done in time is given up.
KnxProcessedSilently == {Returns(0, "none", "timeout")}

\* __process_rpc: a task of the loop, waited for; an error and a timeout are replied.
KnxProcessed ==
    {Returns(1, "none", "timeout"), Returns(1, "none", "error")}
        \cup (IF KnxBus /\ At("main", "loop") THEN {Returns(1, "none", "value")} ELSE {})

\* server_side_rpc_handler: without a configuration nothing is replied, a reserved
\* method without parameters raises.
KnxRpc(d) == KnxProcessed \cup {Returns(0, "none", "silent"), Returns(0, "raises", "incomplete")}

\* on_attributes_update writes on the thread of the callback.
KnxUpdate(d) == Written(KnxBus /\ own.connected)

IsKnx == kind = "knx"
KnxMain == IsKnx /\ (KnxConnects \/ KnxReads \/ KnxEnds)
KnxConvert == IsKnx /\ (KnxConverts \/ Ends("convert", {"idle"}))
KnxSave == IsKnx /\ (KnxSends \/ Ends("save", {"idle"}))
KnxDevice(d) == IsKnx /\ KnxDue(d)
KnxGateway == IsKnx /\ KnxClose
KnxHandler == IsKnx /\ (RpcReturns(KnxRpc(rpc.st)) \/ UpdateReturns(KnxUpdate(rpc.st)))
=============================================================================
