--------------------------- MODULE MqttConnector ----------------------------
(***************************************************************************)
(* connectors/mqtt: the client's network thread receives messages, one     *)
(* thread (convert) looks up who is to convert them, and a pool of         *)
(* workers (hand.save: their batches) converts and sends them.  The main   *)
(* thread connects and sizes the pool.  A device has one topic.  RPCs with *)
(* an answer of the device are those of module RpcProcessing.              *)
(*                                                                         *)
(* own: connected, _connected; mapped, the topics in __mapping_sub_topics; *)
(* filling, those that _on_connect, under way, has yet to enter; workers,  *)
(* the size of the pool, 0 before the first; grown, history: it was more   *)
(* than 1; capacity, of __msg_queue (maxMessageQueue).  queue.poll is      *)
(* _on_message_queue, queue.convert __msg_queue.                           *)
(***************************************************************************)
EXTENDS FieldConnector

MaxWorkers == 2     \* maxNumberOfWorkers, at its least above 1
PerWorker == 1      \* maxMessageNumberPerWorker, at its least

MqttInit ==
    /\ FieldInit("mqtt", Workers)
    /\ own \in [connected : {FALSE}, mapped : {{}}, filling : {<<>>}, workers : {0}, grown : {FALSE},
                capacity : 1..MaxPending]

Broker == \A d \in Devices : link[d]

\* __connect; the broker's answer starts _on_connect on the network thread, which
\* empties the mapping
MqttConnects ==
    /\ At("main", "idle") /\ ~stopped /\ session = {} /\ Broker
    /\ session' = Devices /\ own' = [own EXCEPT !.connected = TRUE, !.mapped = {}, !.filling = Order]
    /\ UNCHANGED <<life, work, data, known, env, rpc>>

\* and enters the topics one by one.
MqttMaps ==
    /\ own.filling # <<>>
    /\ own' = [own EXCEPT !.mapped = @ \cup {Head(own.filling)}, !.filling = Tail(@)]
    /\ UNCHANGED <<life, work, data, session, known, env, rpc>>

\* _on_disconnect.
MqttDisconnected ==
    /\ session # {} /\ own.filling = <<>> /\ (~Broker \/ stopped)
    /\ session' = {} /\ own' = [own EXCEPT !.connected = FALSE]
    /\ UNCHANGED <<life, work, data, known, env, rpc>>

\* _on_message: data of a device, or its request to be connected or disconnected (of
\* the first device only).
Message(d, what, x) == [dev |-> d, what |-> what, x |-> x]
MqttData(d) ==
    /\ session # {} /\ Broker /\ own.filling = <<>> /\ ~stopped /\ Reads(1)
    /\ \E bad \in BOOLEAN : Put("poll", Message(d, "data", <<Reading(d, 1, bad)>>))
    /\ UNCHANGED <<life, work, sent, lost, conn, env, rpc>>
MqttRequest(d) ==
    /\ d = Order[1] /\ session # {} /\ Broker /\ own.filling = <<>> /\ ~stopped /\ Happens
    /\ \E what \in {"connect", "disconnect"} : Put("poll", Message(d, what, <<>>))
    /\ UNCHANGED <<life, work, made, sent, lost, conn, link, rpc>>

\* _process_on_message and put_data_to_convert.  A topic that is not mapped at the
\* moment is taken for no topic of ours; a full queue refuses.
Refusal(m) == IF m.dev \notin own.mapped THEN "unmapped" ELSE "full"
Accepted(m) == m.dev \in own.mapped /\ Len(queue.convert) < own.capacity
MqttProcesses ==
    /\ At("convert", "idle") /\ ~stopped /\ queue.poll # <<>>
    /\ LET m == Head(queue.poll)
           into == IF Accepted(m) THEN m.x ELSE <<>>
       IN  /\ queue' = [queue EXCEPT !.poll = Tail(@), !.convert = @ \o into]
           /\ Lose(Range(m.x) \ Range(into), Refusal(m))
           /\ known' = CASE m.what = "connect" -> known \cup {m.dev}
                         [] m.what = "disconnect" -> known \ {m.dev}
                         [] OTHER -> known
    /\ UNCHANGED <<life, work, made, sent, session, own, env, rpc>>

\* The mapping changes its size while the thread iterates over it: a RuntimeError
\* that nothing catches ends the thread.
MqttDies ==
    /\ At("convert", "idle") /\ ~stopped /\ queue.poll # <<>>
    /\ own.filling # <<>> /\ own.mapped # {} /\ To("convert", "ended")
    /\ LET m == Head(queue.poll) IN
       queue' = [queue EXCEPT !.poll = Tail(@)] /\ Lose(Range(m.x), "unmapped")
    /\ UNCHANGED <<life, hand, made, sent, conn, env, rpc>>

\* __threads_manager.
Needed == Len(queue.convert) \div PerWorker
MqttManages ==
    /\ At("main", "idle") /\ ~stopped
    /\ LET n == own.workers IN
       \/ n = 0 /\ own' = [own EXCEPT !.workers = 1]
       \/ Needed > n /\ n \in 1..MaxWorkers - 1 /\ own' = [own EXCEPT !.workers = n + 1, !.grown = TRUE]
       \/ Needed < n /\ n > 1 /\ own' = [own EXCEPT !.workers = n - 1]
    /\ UNCHANGED <<life, work, data, session, known, env, rpc>>

\* ConverterWorker.run: a worker takes a batch and goes through it, whatever happens
\* meanwhile; what raises ends the batch.
After(n) == SubSeq(queue.convert, n + 1, Len(queue.convert))
MqttTakes ==
    /\ Len(hand.save) < own.workers /\ ~stopped /\ queue.convert # <<>>
    /\ \E n \in 1..Len(queue.convert) :
         /\ Hold("save", Append(hand.save, SubSeq(queue.convert, 1, n)))
         /\ queue' = [queue EXCEPT !.convert = After(n)]
    /\ UNCHANGED <<life, pc, made, sent, lost, conn, env, rpc>>
MqttConverts(i) ==
    /\ LET batch == hand.save[i]
           x == Head(batch)
           rest == IF x.bad THEN <<>> ELSE Tail(batch)
       IN  /\ Hold("save", IF rest = <<>> THEN Without(hand.save, i) ELSE [hand.save EXCEPT ![i] = rest])
           /\ Deliver(Own(Good(<<x>>)))
           /\ lost' = IF x.bad THEN lost \cup {[s |-> y, why |-> "batch"] : y \in Range(batch)} ELSE lost
    /\ UNCHANGED <<life, pc, queue, made, session, own, env, rpc>>

\* close(): the client is disconnected, the workers are told to stop.
MqttClose ==
    /\ ~stopped /\ stopped' = TRUE
    /\ UNCHANGED <<kind, work, data, conn, env, rpc>>

\* server_side_rpc_handler without an answer of the device: acknowledged at once,
\* as sent even if the client was not connected; without a configuration, or when
\* something is raised, not at all.
MqttRpc(d) == {Returns(1, "none", "value"), Returns(0, "none", "silent")}

\* on_attributes_update: publish() while the client is connected.
MqttUpdate(d) == Written(session # {})

IsMqtt == kind = "mqtt"
MqttMain == IsMqtt /\ (MqttConnects \/ MqttManages \/ Ends("main", {"idle"}))
MqttAside == IsMqtt /\ (MqttMaps \/ MqttDisconnected)
MqttConvert == IsMqtt /\ (MqttProcesses \/ MqttDies \/ Ends("convert", {"idle"}))
MqttSave == IsMqtt /\ (MqttTakes \/ (hand.save = <<>> /\ Ends("save", {"idle"})))
MqttTask(i) == IsMqtt /\ i <= Len(hand.save) /\ MqttConverts(i)
MqttField(d) == IsMqtt /\ (MqttData(d) \/ MqttRequest(d))
MqttGateway == IsMqtt /\ MqttClose
MqttHandler == IsMqtt /\ (RpcReturns(MqttRpc(rpc.st)) \/ UpdateReturns(MqttUpdate(rpc.st)))
=============================================================================
