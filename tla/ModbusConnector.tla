-------------------------- MODULE ModbusConnector ---------------------------
(***************************************************************************)
(* connectors/modbus: one event loop runs a timer per slave, the polls     *)
(* (concurrent tasks, but for serial lines), and the loops that convert    *)
(* and save.  close() runs on another thread.  Every slave has a           *)
(* connection of its own; one poll of a slave is followed at a time.       *)
(*                                                                         *)
(* own[d]: tries, the slave's connection_attempt_count; at, how far its    *)
(* poll is.                                                                *)
(***************************************************************************)
EXTENDS FieldConnector

Attempts == 2   \* connection_attempt, at its least

ModbusInit ==
    /\ FieldInit("modbus", Workers)
    /\ own = [d \in Devices |-> [tries |-> 0, at |-> "idle"]]

\* Slave.connect: one attempt per call; after the last one the slave waits, and
\* that one is answered False even when it connected.
Connecting(d) == d \notin session /\ ~stopped /\ own[d].tries < Attempts
SlaveOpen(d) == d \in session \/ (Connecting(d) /\ link[d])
SlaveTries(d) == own[d].tries + (IF Connecting(d) THEN 1 ELSE 0)
SlaveAnswers(d) == SlaveOpen(d) /\ (d \in session \/ SlaveTries(d) < Attempts)
SlaveConnects(d, at) ==
    /\ session' = IF SlaveOpen(d) THEN session \cup {d} ELSE session
    /\ own' = [own EXCEPT ![d] = [tries |-> IF SlaveAnswers(d) THEN 0 ELSE SlaveTries(d), at |-> at]]

\* Slave.__timer has put a slave that is due into the queue, and __process_requests has
\* made a task of it: __poll_device up to the answer of connect(), upon which the
\* device is added or deleted.  What was queued is still polled after close().
ModbusConnects(d) ==
    /\ own[d].at = "idle" /\ ~At("main", "ended")
    /\ SlaveConnects(d, IF SlaveAnswers(d) THEN "read" ELSE "idle")
    /\ known' = IF SlaveAnswers(d) THEN known \cup {d} ELSE known \ {d}
    /\ UNCHANGED <<life, work, data, env, rpc>>

\* The wait is over, the count stays.
ModbusWaitedOnly(d) == own[d].tries = Attempts /\ UNCHANGED vars

\* wait_after_failed_attempts_ms are over.
ModbusWaited(d) ==
    /\ own[d].tries = Attempts /\ own' = [own EXCEPT ![d].tries = 0]
    /\ UNCHANGED <<life, work, data, session, known, env, rpc>>

\* Slave.read and Slave.write: the request is answered.
SlaveDoes(d) == link[d] /\ d \in session

\* __read_slave_data and the rest of __poll_device.  A device that does not answer
\* raises, and is deleted; or the read times out, and nothing is read.
ModbusReads(d) ==
    /\ own[d].at = "read" /\ ~At("main", "ended")
    /\ own' = [own EXCEPT ![d].at = "idle"]
    /\ \/ SlaveDoes(d) /\ Produce(d, "convert") /\ UNCHANGED <<session, known>>
       \/ /\ ~SlaveDoes(d)
          /\ \/ known' = known \ {d} /\ session' \in {session, session \ {d}}
             \/ UNCHANGED <<known, session>>
          /\ UNCHANGED data
    /\ UNCHANGED <<life, work, env, rpc>>

\* __convert_data: what is queued is converted device by device.  An exception of
\* the converter ends the batch, and what came after is thrown away.
BatchDevices(s) == {s[k].dev : k \in 1..Len(s)}
FirstOf(s, d) == CHOOSE k \in 1..Len(s) : s[k].dev = d /\ \A j \in 1..k - 1 : s[j].dev # d
Raising(s) == {x.dev : x \in Bad(s)}

\* Only the first device of a batch is converted.
ReachedFirst(s) == {d \in BatchDevices(s) : \A r \in BatchDevices(s) \ {d} : FirstOf(s, d) < FirstOf(s, r)}

\* The devices before the first that raises.
Reached(s) == {d \in BatchDevices(s) : \A r \in Raising(s) : FirstOf(s, d) < FirstOf(s, r)}

ModbusConverts ==
    /\ At("convert", "idle") /\ ~stopped /\ queue.convert # <<>>
    /\ \E n \in 1..Len(queue.convert) :
         LET batch == SubSeq(queue.convert, 1, n)
             done == Chosen(batch, {k \in DOMAIN batch : batch[k].dev \in Reached(batch)})
         IN  /\ queue' = [queue EXCEPT !.convert = SubSeq(@, n + 1, Len(@)),
                                       !.save = @ \o done]
             /\ Lose(Range(batch) \ Range(done), "batch")
    /\ UNCHANGED <<life, work, made, sent, conn, env, rpc>>

\* __save_data.
ModbusSaves == SavesHead("save", "idle")

\* close(): the slaves are disconnected, the devices stay with the gateway.
ModbusClose ==
    /\ ~stopped /\ stopped' = TRUE /\ session' = {}
    /\ UNCHANGED <<kind, work, data, known, own, env, rpc>>

\* __process_rpc_request, a task: it connects too, with the slave's count of attempts,
\* and answers with what was read or written; what raises is an error, which is
\* replied by the handler and by the gateway.
ModbusProcessed(d) ==
    {Returns(1, "error", "error"),
     Returns(1, "value", IF SlaveAnswers(d) /\ link[d] THEN "value" ELSE "empty")}
ModbusTask(d) == SlaveConnects(d, own[d].at) /\ UNCHANGED known

\* A request without a task: the method is not configured, or its parameters are
\* incomplete.
ModbusRefused == {Returns(0, "error", "refused"), Returns(1, "none", "refused")}

\* __process_device_rpc_request waits for the task; a stopped connector does not.
ModbusRpc(d) ==
    \/ RpcReturns(ModbusRefused \cup {Returns(1, "error", "timeout")})
    \/ stopped /\ RpcReturns({Returns(1, "none", "stopped")})
    \/ ~stopped /\ RpcEnds(ModbusProcessed(d)) /\ ModbusTask(d)

\* on_attributes_update, by a task as well.
ModbusUpdate(d) ==
    \/ UpdateReturns(Written(FALSE))
    \/ ~stopped /\ UpdateEnds({IF SlaveAnswers(d) /\ link[d] THEN "written" ELSE "failed"}) /\ ModbusTask(d)

IsModbus == kind = "modbus"
ModbusMain == IsModbus /\ Ends("main", {"idle"})
ModbusConvert == IsModbus /\ (ModbusConverts \/ Ends("convert", {"idle"}))
ModbusSave == IsModbus /\ (ModbusSaves \/ Ends("save", {"idle"}))
ModbusDevice(d) == IsModbus /\ (ModbusConnects(d) \/ ModbusReads(d))
ModbusTimer(d) == IsModbus /\ ModbusWaited(d)
ModbusGateway == IsModbus /\ ModbusClose
ModbusHandler == IsModbus /\ (ModbusRpc(rpc.st) \/ ModbusUpdate(rpc.st))
=============================================================================
