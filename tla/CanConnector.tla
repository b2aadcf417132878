---------------------------- MODULE CanConnector ----------------------------
(***************************************************************************)
(* connectors/can: one thread opens the bus and reads its messages; the    *)
(* Poller sends requests.  Only sending notices that the bus is down.      *)
(*                                                                         *)
(* own: polling, there are messages to poll; retries, reconnectCount is 1  *)
(* and not unlimited; count, __reconnect_count; error, __bus_error; opened,*)
(* __bus is set.  queue.save is the reader's buffer.                       *)
(***************************************************************************)
EXTENDS FieldConnector

CanInit ==
    /\ FieldInit("can", {"main"})
    /\ own \in [polling : BOOLEAN, retries : BOOLEAN, count : {0}, error : {FALSE}, opened : {FALSE}]

Bus == \A d \in Devices : link[d]

\* __is_reconnect_enabled, after the connection was shut down.
Retried(o) == [o EXCEPT !.count = IF o.retries THEN @ + 1 ELSE @]
GivesUp(o) == o.retries /\ o.count > 1

\* run: the bus is opened and polled once,
CanConnects ==
    /\ At("main", "idle") /\ ~stopped
    /\ IF Bus
       THEN To("main", "loop") /\ session' = Devices /\ own' = [own EXCEPT !.count = 0, !.opened = TRUE]
       ELSE /\ own' = Retried(own) /\ To("main", IF GivesUp(own') THEN "ended" ELSE "idle")
            /\ UNCHANGED session
    /\ UNCHANGED <<life, hand, data, known, env, rpc>>

\* and its messages are read, converted and sent to the gateway.
CanReads == SavesHead("main", "loop")
CanMessage(d) ==
    /\ session # {} /\ Bus /\ made < MaxSamples /\ Produce(d, "save")
    /\ UNCHANGED <<life, work, conn, env, rpc>>

\* Poller.__poll_and_schedule: send_data_to_bus notes the error.
CanPolls ==
    /\ own.polling /\ session # {} /\ ~Bus /\ ~own.error /\ own' = [own EXCEPT !.error = TRUE]
    /\ UNCHANGED <<life, work, data, session, known, env, rpc>>

\* __check_if_error_happened raises: the bus is shut down, the reader's buffer lost.
CanFails ==
    /\ At("main", "loop") /\ ~stopped /\ own.error
    /\ session' = {} /\ queue' = [queue EXCEPT !.save = <<>>] /\ Lose(Range(queue.save), "buffer")
    /\ own' = Retried([own EXCEPT !.error = FALSE])
    /\ To("main", IF GivesUp(own') THEN "ended" ELSE "idle")
    /\ UNCHANGED <<life, hand, made, sent, known, env, rpc>>

\* close() only sets the flag.
CanClose ==
    /\ ~stopped /\ stopped' = TRUE
    /\ UNCHANGED <<kind, work, data, conn, env, rpc>>

\* send_data_to_bus for a handler: an error is noted, even when there is no connection
\* at the moment, in which case the next one will be shut down for it.
CanSends ==
    /\ own.opened /\ UNCHANGED <<session, known>>
    /\ own' = [own EXCEPT !.error = @ \/ session = {} \/ ~Bus]
CanSent == {Returns(0, "none", "silent"), Returns(1, "none", "value")}

\* __process_reserved_rpc (set): a missing nodeId is a KeyError.
CanReservedRpc == {Returns(1, "none", "error"), Returns(0, "raises", "incomplete")}

\* server_side_rpc_handler: a bus that was never opened is an AttributeError; a reply
\* is sent if the configuration wants one.
CanRpc ==
    \/ RpcReturns({Returns(0, "none", "silent")} \cup CanReservedRpc)
    \/ ~own.opened /\ RpcReturns({Returns(0, "raises", "no bus")})
    \/ RpcEnds(CanSent) /\ CanSends

\* on_attributes_update.
CanUpdate ==
    \/ UpdateReturns(Written(FALSE))
    \/ UpdateEnds({IF session # {} /\ Bus THEN "written" ELSE "failed"}) /\ CanSends

IsCan == kind = "can"
CanMain == IsCan /\ (CanConnects \/ CanReads \/ CanFails \/ Ends("main", {"idle", "loop"}))
CanAside == IsCan /\ CanPolls
CanField(d) == IsCan /\ CanMessage(d)
CanGateway == IsCan /\ CanClose
CanHandler == IsCan /\ (CanRpc \/ CanUpdate)
=============================================================================
