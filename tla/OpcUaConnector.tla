--------------------------- MODULE OpcUaConnector ---------------------------
(***************************************************************************)
(* connectors/opcua: the event loop connects, scans the devices of the     *)
(* configuration and polls them, or subscribes to their nodes.  Data of    *)
(* subscriptions are converted by a thread (save), answers to polls by a   *)
(* pool (its jobs are hand.save) fed by another thread (convert).  All     *)
(* devices are behind one server; a device stands for its one node.        *)
(*                                                                         *)
(* own: subs, enable_subscriptions; recreate, __client_recreation_required;*)
(* connected, __connected; nodes, __device_nodes in order; loaded, those   *)
(* whose nodes list is filled; cache, __nodes_config_cache.                *)
(***************************************************************************)
EXTENDS FieldConnector

Serving == \A d \in Devices : link[d]

UaInit ==
    /\ FieldInit("opcua", Workers)
    /\ own \in [subs : BOOLEAN, recreate : {TRUE}, connected : {FALSE}, nodes : {<<>>},
                loaded : {{}}, cache : {{}}]

Disconnected(o) == [o EXCEPT !.connected = FALSE, !.recreate = @ \/ (o.connected /\ o.subs)]
Forgotten(o) == [o EXCEPT !.nodes = <<>>, !.loaded = {}, !.cache = {}, !.recreate = FALSE]

\* The head of start_client's loop: a new client and its connection.  A client to
\* be created anew forgets the devices, with subscriptions only once it is connected.
Connection ==
    LET forgets == own.recreate /\ (Serving \/ ~own.subs \/ own.nodes = <<>>)
        o == IF forgets THEN Forgotten(own) ELSE own
    IN  /\ known' = IF forgets THEN known \ Range(own.nodes) ELSE known
        /\ IF Serving
           THEN own' = [o EXCEPT !.connected = TRUE] /\ session' = Devices /\ To("main", "loop")
           ELSE own' = Disconnected(o) /\ session' = {} /\ UNCHANGED pc
        /\ UNCHANGED <<life, hand, data, env, rpc>>
UaConnects == At("main", "idle") /\ ~stopped /\ Connection

\* find_nodes browses the server, and the names of devices are read from it;
\* _create_new_devices skips what it does not find.
Browsed == Serving
Created == IF Browsed THEN Order ELSE own.nodes

\* __scan_device_nodes: devices not yet known are added, then the nodes of each are
\* looked up anew, its list empty in between (hand.main: the devices to go).
UaScans ==
    /\ At("main", "loop") /\ ~own.recreate /\ own.connected
    /\ To("main", "scan") /\ Hold("main", Order)
    /\ own' = [own EXCEPT !.nodes = Created]
    /\ UNCHANGED <<life, data, session, known, env, rpc>>
UaEmpties ==
    /\ At("main", "scan") /\ hand.main # <<>> /\ Head(hand.main) \in Range(own.nodes)
    /\ To("main", "look") /\ own' = [own EXCEPT !.loaded = @ \ {Head(hand.main)}]
    /\ UNCHANGED <<life, hand, data, session, known, env, rpc>>

\* _subscribe_for_node_updates_in_batches: the nodes of d are subscribed to and noted.
Subscribed(d) == IF own.subs THEN own.cache \cup {d} ELSE own.cache

\* _load_devices_nodes for one device; a ConnectionError leaves the loop.
UaLoads ==
    /\ At("main", "look")
    /\ \/ /\ Browsed /\ To("main", "scan") /\ Hold("main", Tail(hand.main))
          /\ own' = [own EXCEPT !.loaded = @ \cup {Head(hand.main)},
                                !.cache = Subscribed(Head(hand.main))]
       \/ /\ ~Browsed /\ To("main", "idle") /\ Hold("main", <<>>)
          /\ own' = [Disconnected(own) EXCEPT !.recreate = TRUE]
    /\ UNCHANGED <<life, data, session, known, env, rpc>>
UaScanned ==
    /\ At("main", "scan")
    /\ ~(hand.main # <<>> /\ Head(hand.main) \in Range(own.nodes))
    /\ To("main", "loop") /\ Hold("main", <<>>)
    /\ UNCHANGED <<life, data, conn, env, rpc>>

\* The loop sees that the client must be created anew, or that it is not connected.
UaLeaves ==
    /\ At("main", "loop") /\ (own.recreate \/ ~own.connected)
    /\ To("main", "idle") /\ own' = Disconnected(own) /\ session' = {}
    /\ UNCHANGED <<life, hand, data, known, env, rpc>>

\* __poll_nodes: the nodes of all devices in requests of at most ReadLimit nodes.
\* A request that fails is logged only.
Chunks(s) ==
    [k \in 1..(Len(s) + ReadLimit - 1) \div ReadLimit |->
        SubSeq(s, ReadLimit * (k - 1) + 1, IF ReadLimit * k < Len(s) THEN ReadLimit * k ELSE Len(s))]
Polled == Chosen(own.nodes, {k \in DOMAIN own.nodes : own.nodes[k] \in own.loaded})
UaPolls ==
    /\ At("main", "loop") /\ ~own.recreate /\ own.connected /\ ~own.subs
    /\ Serving /\ Polled # <<>> /\ Reads(Len(Polled))
    /\ LET values == [k \in 1..Len(Polled) |-> Reading(Polled[k], k, FALSE)] IN
       queue' = [queue EXCEPT !.convert = @ \o Chunks(values)]
    /\ UNCHANGED <<life, work, sent, lost, conn, env, rpc>>

\* _monitor_server_loop and _renew_channel_loop meet a lost connection; a bad
\* status of a subscription (status_change_callback) has the same effect.
UaMonitors ==
    /\ session # {} /\ ~Serving /\ ~stopped
    /\ \E c \in BOOLEAN : own' = [own EXCEPT !.recreate = TRUE, !.connected = @ /\ c]
    /\ session' = {}
    /\ UNCHANGED <<life, work, data, known, env, rpc>>

\* SubHandler.datachange_notification.
UaNotified(d) ==
    /\ Serving /\ session # {} /\ own.subs /\ d \in own.cache /\ ~At("main", "ended")
    /\ made < MaxSamples /\ Produce(d, "convert")
    /\ UNCHANGED <<life, work, conn, env, rpc>>

\* __convert_sub_data: a batch of what is queued, in two steps, as close() may come
\* between.  A node that is not in the cache any more is thrown away silently.
UaTakes ==
    /\ own.subs /\ ~stopped /\ At("save", "idle") /\ queue.convert # <<>>
    /\ \E n \in 1..Len(queue.convert) :
         /\ To("save", "busy") /\ Hold("save", SubSeq(queue.convert, 1, n))
         /\ queue' = [queue EXCEPT !.convert = SubSeq(@, n + 1, Len(@))]
    /\ UNCHANGED <<life, made, sent, lost, conn, env, rpc>>
UaConverts ==
    /\ At("save", "busy") /\ To("save", "idle") /\ Hold("save", <<>>)
    /\ LET found == Chosen(hand.save, {k \in DOMAIN hand.save : hand.save[k].dev \in own.cache}) IN
       /\ Deliver(Own(Good(found)))
       /\ lost' = lost \cup {[s |-> x, why |-> "converter"] : x \in Bad(found)}
                       \cup {[s |-> x, why |-> "uncached"] : x \in Range(hand.save) \ Range(found)}
    /\ UNCHANGED <<life, queue, made, session, own, env, rpc>>

\* __thread_pool_executor_processor: an answer becomes a job of the pool.
UaSubmits ==
    /\ ~own.subs /\ ~stopped /\ At("convert", "idle") /\ queue.convert # <<>>
    /\ Hold("save", Append(hand.save, Head(queue.convert)))
    /\ queue' = [queue EXCEPT !.convert = Tail(@)]
    /\ UNCHANGED <<life, pc, made, sent, lost, conn, env, rpc>>

\* __convert_retrieved_data: the values are dealt out to the devices there are now,
\* beginning with the first, as many to each as it has nodes.
Dealt(values) ==
    [k \in 1..(IF Len(values) < Len(Polled) THEN Len(values) ELSE Len(Polled)) |->
        [s |-> values[k], as |-> Polled[k]]]
UaPoolConverts(i) ==
    /\ ~own.subs /\ Hold("save", Without(hand.save, i))
    /\ LET values == hand.save[i]
           dealt == Dealt(values)
       IN  /\ Deliver(dealt)
           /\ Lose(Range(values) \ {e.s : e \in Range(dealt)}, "undealt")
    /\ UNCHANGED <<life, pc, queue, made, session, own, env, rpc>>

\* close(): the devices are deleted from the gateway; the loop disconnects.
UaClose ==
    /\ ~stopped /\ stopped' = TRUE
    /\ known' = known \ Range(own.nodes)
    /\ own' = [own EXCEPT !.connected = FALSE] /\ session' = {}
    /\ UNCHANGED <<kind, work, data, env, rpc>>

\* __write_value, __read_value and __call_method, tasks of the event loop.
NodeAnswers == Serving /\ ~At("main", "ended")

\* server_side_rpc_handler: a device not found (its nodes were forgotten) or a method
\* not configured, a task that answers, fails or outlives the timeout.
UaRpc(d) ==
    IF d \notin Range(own.nodes) THEN {Returns(0, "error", "refused"), Returns(1, "none", "refused")}
    ELSE {Returns(1, "none", "refused"), Returns(1, "error", "timeout")}
           \cup (IF NodeAnswers THEN {Returns(1, "value", "value")}
                 ELSE {Returns(1, "error", "error")})

\* on_attributes_update: the value is written by a task of the loop, waited for.
UaUpdate(d) ==
    IF d \in Range(own.nodes) THEN Written(NodeAnswers) ELSE {"unknown"}

IsOpcUa == kind = "opcua"
UaMain ==
    /\ IsOpcUa
    /\ \/ UaConnects \/ UaScans \/ UaEmpties \/ UaLoads \/ UaScanned \/ UaLeaves \/ UaPolls
       \/ Ends("main", {"idle", "scan", "look", "loop"})
UaTask(i) == IsOpcUa /\ i <= Len(hand.save) /\ UaPoolConverts(i)
UaAside == IsOpcUa /\ UaMonitors
UaConvert == IsOpcUa /\ (UaSubmits \/ Ends("convert", {"idle"}))
UaPoolDone == own.subs \/ (hand.save = <<>> /\ At("convert", "ended"))
UaSave == IsOpcUa /\ (UaTakes \/ UaConverts \/ (UaPoolDone /\ Ends("save", {"idle"})))
UaField(d) == IsOpcUa /\ UaNotified(d)
UaGateway == IsOpcUa /\ UaClose
UaHandler == IsOpcUa /\ (RpcReturns(UaRpc(rpc.st)) \/ UpdateReturns(UaUpdate(rpc.st)))
=============================================================================
