--------------------------- MODULE OcppConnector ----------------------------
(***************************************************************************)
(* connectors/ocpp: a websocket server on an event loop (main) that charge *)
(* points connect to; one thread converts what they send, another sends    *)
(* it.  A charge point has no name before its BootNotification.            *)
(*                                                                         *)
(* own: booted, the connections that have a name; stale, charge points     *)
(* left in _connected_charge_points by a connection that broke; nameless,  *)
(* the samples that came from one without a name; ends, close() found a    *)
(* server to close.                                                        *)
(***************************************************************************)
EXTENDS FieldConnector

Nobody == "nobody"

OcppInit ==
    /\ FieldInit("ocpp", Workers)
    /\ own = [booted |-> {}, stale |-> {}, nameless |-> {}, ends |-> FALSE]

\* run and start_server.
OcppStarts ==
    /\ At("main", "idle") /\ To("main", "loop")
    /\ UNCHANGED <<life, hand, data, conn, env, rpc>>

\* on_connect, on_boot_notification.
OcppConnects(d) ==
    /\ At("main", "loop") /\ ~stopped /\ link[d] /\ d \notin session
    /\ session' = session \cup {d} /\ own' = [own EXCEPT !.booted = @ \ {d}]
    /\ UNCHANGED <<life, work, data, known, env, rpc>>
OcppBoots(d) ==
    /\ At("main", "loop") /\ ~stopped /\ link[d] /\ d \in session \ own.booted
    /\ own' = [own EXCEPT !.booted = @ \cup {d}]
    /\ UNCHANGED <<life, work, data, session, known, env, rpc>>

\* on_meter_values, on_data_transfer: the name is the one there is now.
OcppReads(d) ==
    /\ At("main", "loop") /\ ~stopped /\ link[d] /\ d \in session /\ Reads(1)
    /\ \E bad \in BOOLEAN :
         /\ Put("convert", Reading(d, 1, bad))
         /\ own' = [own EXCEPT !.nameless = IF d \in own.booted THEN @ ELSE @ \cup {Reading(d, 1, bad)}]
    /\ UNCHANGED <<life, work, sent, lost, session, known, env, rpc>>

\* The connection ends: a ConnectionClosed takes the charge point off the list, any
\* other exception does not.
OcppLeaves(d) ==
    /\ ~link[d] /\ d \in session /\ session' = session \ {d}
    /\ \/ UNCHANGED own
       \/ own' = [own EXCEPT !.stale = IF d \in own.booted THEN @ \cup {d} ELSE @]
    /\ UNCHANGED <<life, work, data, known, env, rpc>>

\* _process_data and _send_data.
OcppProcesses == ConvertsHead

\* A sample is sent under the name its charge point booted with.
Named(x) == [s |-> x, as |-> IF x \in own.nameless THEN Nobody ELSE x.dev]
OcppSends ==
    /\ ~stopped /\ At("save", "idle") /\ queue.save # <<>>
    /\ queue' = [queue EXCEPT !.save = Tail(@)] /\ Deliver(<<Named(Head(queue.save))>>)
    /\ UNCHANGED <<life, work, made, lost, session, own, env, rpc>>

\* close(): without a server yet it raises, before the loop is told to stop.  The
\* charge points stay in the list.
OcppClose ==
    /\ ~stopped /\ stopped' = TRUE /\ session' = {}
    /\ own' = [own EXCEPT !.ends = At("main", "loop"), !.stale = @ \cup (session \cap own.booted)]
    /\ UNCHANGED <<kind, work, data, known, env, rpc>>

\* The call to a charge point is a task of the event loop, which the handler waits for
\* without a timeout: once the loop is stopped it never returns.
OcppFound(d) == d \in own.stale \cup (session \cap own.booted)
OcppCall(d) == link[d] /\ d \in session \cap own.booted /\ d \notin own.stale
OcppCalls(d) ==
    /\ rpc.st = d /\ rpc.how \in {"none", "update"} /\ OcppFound(d)
    /\ rpc' = [rpc EXCEPT !.how = IF @ = "none" THEN "rpc call" ELSE "update call"]
    /\ UNCHANGED <<life, work, data, conn, env>>
OcppAnswered(d) ==
    /\ rpc.st = d /\ At("main", "loop")
    /\ \/ rpc.how = "rpc call"
          /\ rpc' \in IF OcppCall(d) THEN {Returns(1, "none", "value"), Returns(2, "none", "twice")}
                      ELSE {Returns(0, "raises", "error")}
       \/ rpc.how = "update call"
          /\ rpc' = [st |-> "updated", replies |-> 0, how |-> IF OcppCall(d) THEN "written" ELSE "failed"]
    /\ UNCHANGED <<life, work, data, conn, env>>

\* server_side_rpc_handler: every method is first processed as a reserved one, which
\* raises unless its parameters name a value; then those configured are processed.
OcppRpc(d) == {IF OcppFound(d) THEN Returns(0, "raises", "incomplete") ELSE Returns(0, "none", "silent")}

\* on_attributes_update without a charge point or a configuration.
OcppUpdate(d) == {"unknown"}

IsOcpp == kind = "ocpp"
OcppMain == IsOcpp /\ (OcppStarts \/ (own.ends /\ Ends("main", {"loop"})))
OcppConvert == IsOcpp /\ (OcppProcesses \/ Ends("convert", {"idle"}))
OcppSave == IsOcpp /\ (OcppSends \/ Ends("save", {"idle"}))
OcppDevice(d) == IsOcpp /\ (OcppConnects(d) \/ OcppLeaves(d))
OcppField(d) == IsOcpp /\ (OcppBoots(d) \/ OcppReads(d))
OcppGateway == IsOcpp /\ OcppClose
OcppHandler == IsOcpp /\ (OcppCalls(rpc.st) \/ OcppAnswered(rpc.st) \/ RpcReturns(OcppRpc(rpc.st)) \/ UpdateReturns(OcppUpdate(rpc.st)))
=============================================================================
