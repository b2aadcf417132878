--------------------------- MODULE SnmpConnector ----------------------------
(***************************************************************************)
(* connectors/snmp: one loop polls the devices that are due, one after the *)
(* other (hand.main: those to go in this pass).  Between two passes it     *)
(* sleeps without giving the event loop up, so that the request of an RPC  *)
(* is only run while a device is being polled.  own: nothing.              *)
(***************************************************************************)
EXTENDS FieldConnector

SnmpInit == FieldInit("snmp", {"main"}) /\ own = [none |-> 0]

\* The next pass, without a look at the flag.
SnmpBeginsAnyway ==
    /\ At("main", "idle") /\ To("main", "loop") /\ Hold("main", Order)
    /\ UNCHANGED <<life, data, conn, env, rpc>>

\* _run: the next pass.
SnmpBegins ==
    /\ At("main", "idle") /\ ~stopped /\ To("main", "loop") /\ Hold("main", Order)
    /\ UNCHANGED <<life, data, conn, env, rpc>>

\* __process_data of the next device, or it is not due.  A timeout throws away what
\* the device had answered; close() does not end the pass.
SnmpPolls ==
    /\ At("main", "loop") /\ hand.main # <<>> /\ Hold("main", Tail(hand.main))
    /\ \/ link[Head(hand.main)] /\ ReadAndSent(Head(hand.main))
       \/ UNCHANGED <<data, known>>
    /\ UNCHANGED <<life, pc, session, own, env, rpc>>

SnmpPassed ==
    /\ At("main", "loop") /\ hand.main = <<>> /\ To("main", "idle")
    /\ UNCHANGED <<life, hand, data, conn, env, rpc>>

\* close() only sets the flag.
SnmpClose ==
    /\ ~stopped /\ stopped' = TRUE
    /\ UNCHANGED <<kind, work, data, conn, env, rpc>>

\* __process_rpc_request waits for a coroutine of the event loop; when the wait is
\* over, or anything is raised, server_side_rpc_handler replies with an error.
SnmpProcessed(d) ==
    {Returns(1, "none", "timeout"), Returns(1, "none", "error")}
        \cup (IF link[d] /\ At("main", "loop") THEN {Returns(1, "none", "value")} ELSE {})

\* server_side_rpc_handler: a method that is not configured is not replied to.
SnmpRpc(d) == SnmpProcessed(d) \cup {Returns(0, "none", "silent")}

\* on_attributes_update: a coroutine of the event loop, waited for.
SnmpUpdateUntimed(d) == IF link[d] /\ At("main", "loop") THEN {"written"} ELSE {}  \* for ever
SnmpUpdate(d) == Written(link[d] /\ At("main", "loop"))

IsSnmp == kind = "snmp"
SnmpMain == IsSnmp /\ (SnmpBegins \/ SnmpPolls \/ SnmpPassed \/ Ends("main", {"idle"}))
SnmpGateway == IsSnmp /\ SnmpClose
SnmpHandler == IsSnmp /\ (RpcReturns(SnmpRpc(rpc.st)) \/ UpdateReturns(SnmpUpdate(rpc.st)))
=============================================================================
