---------------------------- MODULE BleConnector ----------------------------
(***************************************************************************)
(* connectors/ble: after a first scan the event loop runs a task per       *)
(* device, which connects to it and then reads its characteristics in      *)
(* turn, or subscribes to their notifications.  A thread (save) converts   *)
(* what came in.                                                           *)
(*                                                                         *)
(* own: notify, the characteristics are of method notify; noted, the       *)
(* devices whose notifying_chars are filled; live, those with a            *)
(* subscription on their connection; ends, close() came while the loop ran.*)
(***************************************************************************)
EXTENDS FieldConnector

BleInit ==
    /\ FieldInit("ble", {"main", "save"})
    /\ own \in [notify : BOOLEAN, noted : {{}}, live : {{}}, ends : {FALSE}]

\* run up to run_forever: the first scan, whatever it brought.  A close() that stopped
\* the event loop meanwhile only ends the wait for the scan.
BleScanned ==
    /\ At("main", "idle") /\ To("main", "loop")
    /\ UNCHANGED <<life, hand, data, conn, env, rpc>>

\* connect_to_device, from run_client or after an exception of timer.
BleConnects(d) ==
    /\ At("main", "loop") /\ ~stopped /\ d \notin session /\ link[d]
    /\ session' = session \cup {d} /\ own' = [own EXCEPT !.live = @ \ {d}]
    /\ UNCHANGED <<life, work, data, known, env, rpc>>

\* timer and __process_self: a device that is due is read; or its characteristics are
\* noted and subscribed to, once.  What is raised ends the connection.
BlePolls(d) ==
    /\ At("main", "loop") /\ ~stopped /\ d \in session
    /\ \/ ~own.notify /\ link[d] /\ Produce(d, "save") /\ UNCHANGED <<session, own>>
       \/ ~own.notify /\ ~link[d] /\ session' = session \ {d} /\ UNCHANGED <<data, own>>
       \/ /\ own.notify /\ d \notin own.noted
          /\ own' = [own EXCEPT !.noted = @ \cup {d}, !.live = IF link[d] THEN @ \cup {d} ELSE @]
          /\ session' = IF link[d] THEN session ELSE session \ {d}
          /\ UNCHANGED data
    /\ UNCHANGED <<life, work, known, env, rpc>>

\* notify_callback.
BleNotified(d) ==
    /\ At("main", "loop") /\ ~stopped /\ d \in own.live \cap session /\ link[d]
    /\ made < MaxSamples /\ Produce(d, "save")
    /\ UNCHANGED <<life, work, conn, env, rpc>>

\* __process_data.
BleProcesses == SavesHead("save", "idle")

\* close(): tasks are cancelled, devices disconnected, the event loop is stopped.
BleClose ==
    /\ ~stopped /\ stopped' = TRUE /\ session' = {}
    /\ own' = [own EXCEPT !.ends = At("main", "loop")]
    /\ UNCHANGED <<kind, work, data, known, env, rpc>>

\* server_side_rpc_handler looks the device up in an attribute that does not exist,
\* and replies with the AttributeError.
BleRpc(d) == {Returns(1, "none", "error")}

\* on_attributes_update fails in the same lookup.
BleUpdate(d) == {"failed"}

IsBle == kind = "ble"
BleMain == IsBle /\ (BleScanned \/ (own.ends /\ Ends("main", {"loop"})))
BleSave == IsBle /\ (BleProcesses \/ Ends("save", {"idle"}))
BleDevice(d) == IsBle /\ (BleConnects(d) \/ BlePolls(d))
BleField(d) == IsBle /\ BleNotified(d)
BleGateway == IsBle /\ BleClose
BleHandler == IsBle /\ (RpcReturns(BleRpc(rpc.st)) \/ UpdateReturns(BleUpdate(rpc.st)))
=============================================================================
