------------------------- MODULE RemoteConfigurator -------------------------
(***************************************************************************)
(* The remote configurator (tb_utility/tb_gateway_remote_configurator.py): *)
(* one thread takes updates from RECEIVED_UPDATE_QUEUE and applies them,   *)
(* with in_process set.  While it is set the uplink sends nothing and the  *)
(* main loop does not look at the connectors' files.                       *)
(*                                                                         *)
(* A connection configuration is a member of Settings, of which Reachable  *)
(* ones can be connected with.  The other sections of the general          *)
(* configuration are applied or put back one by one; what matters of them  *)
(* is whether they raise.  Backups are left out.                           *)
(***************************************************************************)
EXTENDS ConnectorLifecycle

CONSTANTS
    Settings,   \* connection settings
    Reachable,  \* those a broker answers to
    First,      \* the settings at start
    MaxRequests, \* updates received
    MaxChanges  \* updates received and files edited, together

ASSUME RemoteConfiguratorAssumption ==
    /\ First \in Reachable /\ Reachable \subseteq Settings
    /\ {MaxRequests, MaxChanges} \subseteq Nat

VARIABLES
    queue,      \* RECEIVED_UPDATE_QUEUE
    received,   \* updates put into it
    inProcess,  \* in_process
    request,    \* the update being applied
    client,     \* the settings of the client in use
    general,    \* the settings of general_configuration
    saved,      \* the settings in tb_gateway.json
    useNew,     \* use_new_config in _apply_connection_config
    storage,    \* the event storage: running, or stopped
    fellBack,   \* history: the old settings connected, the new were saved
    raised      \* history: an error nobody expects left a handler

rcVars == <<queue, received, inProcess, request, client, general, saved, useNew, storage, fellBack, raised>>
vars == <<lifeVars, up, rcVars>>

NoRequest == [kind |-> "none"]
Requests ==
    [kind : {"connector"}, id : Ids \ GrpcConnectors, content : {"stale", "same", "new"}] \cup [kind : {"active"}, ids : SUBSET Ids]
    \cup [kind : {"general"}, to : Settings] \cup [kind : {"storage", "grpc", "logs"}]

Init ==
    /\ LifecycleInit
    /\ queue = <<>> /\ received = 0 /\ inProcess = FALSE /\ request = NoRequest
    /\ client = First /\ general = First /\ saved = First /\ useNew = TRUE
    /\ storage = "running" /\ fellBack = FALSE /\ raised = FALSE

Step(s) == actor[Configurator].step = s
GoTo(s) == Go(Configurator, s, <<>>)
lifeRest == <<instances, byId, byName, configured, files, edits, loaded, devices, overlap, unserved, late>>
rcRest == <<queue, received, inProcess, request>>
generalVars == <<client, general, saved, useNew, fellBack>>

-----------------------------------------------------------------------------
\* _attribute_update_callback puts an update into the queue.
RequestReceived ==
    /\ received < MaxRequests /\ received + edits < MaxChanges /\ received' = received + 1
    /\ \E r \in Requests : queue' = Append(queue, r)
    /\ UNCHANGED <<lifeVars, up, inProcess, request, generalVars, storage, raised>>

Handler(kind) ==
    CASE kind = "connector" -> "modified"
      [] kind = "active" -> "active"
      [] kind = "general" -> "connection"
      [] kind = "storage" -> "stop storage"
      [] kind = "grpc" -> "grpc"
      [] OTHER -> "logs"

TakeRequest ==
    /\ Step("idle") /\ queue # <<>>
    /\ inProcess' = TRUE /\ request' = Head(queue) /\ queue' = Tail(queue)
    /\ GoTo(Handler(Head(queue).kind))
    /\ UNCHANGED <<lifeRest, up, received, generalVars, storage, raised>>

\* Mutant: the flag is not reset.
FinishBusy ==
    /\ Step("finish") /\ request' = NoRequest /\ GoTo("idle")
    /\ UNCHANGED <<lifeRest, up, queue, received, inProcess, generalVars, storage, raised>>

Finish ==
    /\ Step("finish") /\ inProcess' = FALSE /\ request' = NoRequest /\ GoTo("idle")
    /\ UNCHANGED <<lifeRest, up, queue, received, generalVars, storage, raised>>

\* Anything but KeyError and AttributeError is caught outside, where the flag
\* is not reset: it stays set until the next update is through.
HandlerRaises ==
    /\ raised' = TRUE /\ request' = NoRequest /\ GoTo("idle")
    /\ UNCHANGED <<lifeRest, up, queue, received, inProcess>>

-----------------------------------------------------------------------------
(* _handle_connector_configuration_update                                  *)

\* _is_modified and __is_running: an update older than the file is ignored if
\* the connector runs; one with the contents of the file restarts nothing.
ConnectorModified ==
    /\ Step("modified")
    /\ GoTo(IF request.content = "stale" /\ (byId[request.id] # None \/ byName[request.id] # None) THEN "finish"
            ELSE IF request.content = "same" /\ request.id \in configured THEN "devices"
            ELSE "write")
    /\ UNCHANGED <<lifeRest, up, rcVars>>

\* The file is written, and a new connector put into the main configuration.
ConnectorWritten ==
    /\ Step("write")
    /\ files' = [files EXCEPT ![request.id] = @ + 1]
    /\ configured' = configured \cup {request.id}
    /\ GoTo(IF request.id \in configured THEN "close" ELSE "load")
    /\ UNCHANGED <<instances, byId, byName, edits, loaded, devices, overlap, unserved, late, up, rcVars>>

Target == IF byId[request.id] # None THEN byId[request.id] ELSE byName[request.id]

\* The instance found by id, or else by name, is closed; after five seconds,
\* or an error of close(), it is given up.
ConnectorClosed ==
    /\ Step("close")
    /\ \/ Target # None /\ CloseCall(Target) /\ UNCHANGED <<actor, overlap>>
       \/ Target # None /\ CloseOver(Target) /\ GoTo("pop") /\ UNCHANGED <<instances, devices, overlap>>
       \/ Target # None /\ GoTo("pop") /\ overlap' = TRUE /\ UNCHANGED <<instances, devices>>
       \/ Target = None /\ GoTo("load") /\ UNCHANGED <<instances, devices, overlap>>
    /\ UNCHANGED <<byId, byName, configured, files, edits, loaded, unserved, late, up, rcVars>>

ConnectorPopped ==
    /\ Step("pop")
    /\ IF byId[request.id] # None
       THEN byId' = [byId EXCEPT ![request.id] = None] /\ UNCHANGED byName
       ELSE byName' = [byName EXCEPT ![request.id] = None] /\ UNCHANGED byId
    /\ GoTo("load")
    /\ UNCHANGED <<instances, configured, files, edits, loaded, devices, overlap, unserved, late, up, rcVars>>

\* update_device() gives the devices to the instance that is registered.
ConnectorDevices ==
    /\ Step("devices")
    /\ devices' = IF request.kind = "connector" /\ byId[request.id] # None
                  THEN Repointed(request.id, byId[request.id]) ELSE devices
    /\ GoTo("finish")
    /\ UNCHANGED <<instances, byId, byName, configured, files, edits, loaded, overlap, unserved, late, up, rcVars>>

ConnectorUpdate ==
    \/ ConnectorModified \/ ConnectorWritten \/ ConnectorClosed \/ ConnectorPopped \/ ConnectorDevices
    \/ LoadAndStart(Configurator, "devices") /\ UNCHANGED <<up, rcVars>>

-----------------------------------------------------------------------------
(* _handle_active_connectors_update: the others are closed, not awaited    *)

ActiveUpdate ==
    /\ Step("active")
    /\ LET gone == {c \in Ids \ request.ids : byName[c] # None}
           closed == {byName[c] : c \in gone}
       IN  /\ instances' = [i \in DOMAIN instances |-> IF i \in closed THEN Closed(i)[i] ELSE instances[i]]
           /\ devices' = [c \in Ids |-> IF c \in gone THEN None ELSE devices[c]]
           /\ byId' = [c \in Ids |-> IF c \in gone THEN None ELSE byId[c]]
           /\ byName' = [c \in Ids |-> IF c \in gone THEN None ELSE byName[c]]
           /\ configured' = IF gone # {} THEN configured \cap request.ids ELSE configured
    /\ GoTo("finish")
    /\ UNCHANGED <<files, edits, loaded, overlap, unserved, late, up, rcVars>>

-----------------------------------------------------------------------------
(* _handle_grpc_configuration_update: all are closed, not awaited; a new   *)
(* service that cannot start is replaced by the old, in the same way       *)

GrpcUpdate ==
    /\ Step("grpc")
    /\ LET closed == {byName[c] : c \in Ids} \ {None}
       IN  instances' = [i \in DOMAIN instances |-> IF i \in closed THEN Closed(i)[i] ELSE instances[i]]
    /\ GoTo("load")
    /\ UNCHANGED <<byId, byName, configured, files, edits, loaded, devices, overlap, unserved, late, up, rcVars>>

\* _handle_logs_configuration_update catches everything it raises.
LogsUpdate == Step("logs") /\ GoTo("finish") /\ UNCHANGED <<lifeRest, up, rcVars>>

-----------------------------------------------------------------------------
(* _handle_storage_configuration_update                                    *)

StorageStopped ==
    /\ Step("stop storage") /\ storage' = "stopped" /\ GoTo("new storage")
    /\ UNCHANGED <<lifeRest, up, rcRest, generalVars, raised>>

\* Mutant: the old storage is not created again.
StorageGivenUp ==
    /\ Step("new storage")
    /\ storage' \in {"running", "stopped"} /\ GoTo("finish")
    /\ UNCHANGED <<lifeRest, up, rcRest, generalVars, raised>>

\* The new storage is created, or the old one again; the second may raise too.
StorageReplaced ==
    /\ Step("new storage")
    /\ \/ storage' = "running" /\ GoTo("finish") /\ UNCHANGED <<lifeRest, up, rcRest, raised>>
       \/ UNCHANGED storage /\ HandlerRaises
    /\ UNCHANGED generalVars

-----------------------------------------------------------------------------
(* _handle_general_configuration_update and _apply_connection_config       *)

\* __is_security_match, the host, the port, provisioning and the QoS
SameConnection(new, old) == new = old

ConnectionCompared ==
    /\ Step("connection")
    /\ IF SameConnection(request.to, general)
       THEN GoTo("apply") /\ UNCHANGED <<up, useNew>>
       ELSE GoTo("connect") /\ up' = FALSE /\ useNew' = TRUE
    /\ UNCHANGED <<lifeRest, rcRest, client, general, saved, storage, fellBack, raised>>

\* A client with the new settings, then with the old, and so on, until one connects.
ConnectionTried ==
    /\ Step("connect")
    /\ LET settings == IF useNew THEN request.to ELSE client IN
        \/ /\ settings \in Reachable
           /\ client' = settings /\ up' = TRUE /\ fellBack' = (fellBack \/ ~useNew)
           /\ GoTo("apply") /\ UNCHANGED useNew
        \/ useNew' = ~useNew /\ UNCHANGED <<client, up, fellBack, actor>>
    /\ UNCHANGED <<lifeRest, rcRest, general, saved, storage, raised>>

\* Mutant: the new settings are kept after the old ones were restored.
ConnectionKept ==
    /\ Step("connect") /\ up' = TRUE /\ client' = general /\ GoTo("apply")
    /\ UNCHANGED <<lifeRest, rcRest, general, saved, useNew, storage, fellBack, raised>>

\* An error: _revert_connection(), which waits until the settings of
\* general_configuration connect, and these replace the new ones.
ConnectionReverted ==
    /\ Step("connect") /\ general \in Reachable /\ up' = TRUE /\ client' = general
    /\ request' = [request EXCEPT !.to = general] /\ GoTo("apply")
    /\ UNCHANGED <<lifeRest, queue, received, inProcess, general, saved, useNew, storage, fellBack, raised>>

\* Statistics, device filtering, remote shell and report strategy are applied
\* or put back.  Putting back may raise KeyError (a missing section) or
\* anything else.  ("missing": _cleanup() of statistics without commands.)
OtherSections == {"applied", "missing", "key error", "raises"}

\* general_configuration and then the file are written at the end: an error
\* ends the handler before, with the flag reset only for a KeyError.
GeneralApplied ==
    /\ Step("apply")
    /\ \E outcome \in OtherSections :
        /\ general' = IF outcome \in {"applied", "missing"} THEN request.to ELSE general
        /\ saved' = IF outcome = "applied" THEN request.to ELSE saved
        /\ IF outcome = "raises" THEN HandlerRaises
           ELSE /\ raised' = (raised \/ outcome # "applied") /\ GoTo("finish")
                /\ UNCHANGED <<lifeRest, up, rcRest>>
    /\ UNCHANGED <<client, useNew, storage, fellBack>>

GeneralUpdate == ConnectionCompared \/ ConnectionTried \/ ConnectionReverted \/ GeneralApplied

-----------------------------------------------------------------------------
ConfiguratorStep ==
    TakeRequest \/ Finish \/ ConnectorUpdate \/ ActiveUpdate \/ GrpcUpdate \/ LogsUpdate
    \/ StorageStopped \/ StorageReplaced \/ GeneralUpdate

WatcherRuns == WatcherStep(inProcess) /\ UNCHANGED rcVars

Environment ==
    \/ RequestReceived
    \/ (InstanceStops \/ InstanceAddsDevice) /\ UNCHANGED rcVars
    \/ received + edits < MaxChanges /\ FileEdited /\ UNCHANGED rcVars
    \/ ~Step("connect") /\ LinkChanges /\ UNCHANGED rcVars

Next == ConfiguratorStep \/ WatcherRuns \/ Environment

\* Both threads run, closed connectors end, and some settings connect.
Fairness ==
    /\ WF_vars(ConfiguratorStep) /\ WF_vars(WatcherRuns)
    /\ WF_vars(InstanceStops /\ UNCHANGED rcVars)
    /\ SF_vars(Step("connect") /\ ConnectionTried /\ Step("apply")')

Spec == Init /\ [][Next]_vars
FairSpec == Spec /\ Fairness

-----------------------------------------------------------------------------
\* Every variable is of its type; registries only hold instances there are.
ConfiguratorTypeOK ==
    /\ \A i \in DOMAIN instances : instances[i] \in [id : Ids, ver : Nat, st : {"open", "unopened", "closing", "stopped"}]
    /\ byId \in [Ids -> 0..Len(instances)] /\ byName \in [Ids -> 0..Len(instances)]
    /\ devices \in [Ids -> 0..Len(instances)] /\ configured \subseteq Ids
    /\ loaded \in [Ids -> Nat]
    /\ request \in Requests \cup {NoRequest} /\ inProcess \in BOOLEAN
    /\ {client, general, saved} \subseteq Settings /\ storage \in {"running", "stopped"}

Quiet == \A a \in Actors : actor[a].step = "idle"

\* Every variable is of its type, and an instance that has not been closed is the
\* one registered under its id, so that it can be closed and there is no second one
\* (__init_and_start_regular_connector, line 1053).  When nobody is changing
\* connectors, those of the main configuration run with the configuration that was
\* loaded, except the ones a start left out: behind a gRPC connector, still closing,
\* or raising (lines 1009-1045), and those closed when the main loop's round broke off
\* because the configurator had changed the dictionary iterated over (lines 590-604).
\* The device of such a connector belongs to its running instance, so that RPCs and
\* attribute updates reach it, also when the platform could not be told of the restart,
\* unless an instance that was given up while closing announced it
\* (__update_connector_devices, lines 990-995).  All this unless both threads started
\* connectors at once or a close() raised.
ConfiguredIsServed ==
    /\ ConfiguratorTypeOK
    /\ ~overlap => \A i \in DOMAIN instances : instances[i].st = "open" => byId[instances[i].id] = i
    /\ Quiet /\ ~overlap =>
        \A c \in configured \ (unserved \cup GrpcConnectors) :
            /\ byId[c] # None
            /\ instances[byId[c]].st = "open"
            /\ instances[byId[c]].ver = loaded[c]
            /\ c \notin late => devices[c] \in {None, byId[c]}

\* The settings in the file are those of the connection in use: a restart
\* connects.  Exceptions: the old settings were fallen back on, which counts as
\* success (line 837), and handlers that raised.
SavedSettingsConnect ==
    Step("idle") /\ ~fellBack /\ ~raised => saved = client

\* While the uplink may send, the storage runs (lines 388-411 and 287), unless
\* the old storage could not be created again either: the next update resets
\* in_process, with a stopped storage in place.
StorageRuns == ~inProcess /\ ~raised => storage = "running"

\* The flag that silences the uplink is reset, every update that was received is
\* taken from the queue, and a file that changed is loaded, unless a handler raised
\* and left the flag set (_process_config_request, line 287).
FlagIsReset ==
    /\ inProcess ~> (~inProcess \/ raised)
    /\ (queue # <<>>) ~> (queue = <<>>)
    /\ FilesChanged ~> (~FilesChanged \/ raised)
=============================================================================
