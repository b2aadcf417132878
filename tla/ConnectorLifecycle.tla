------------------------- MODULE ConnectorLifecycle -------------------------
(***************************************************************************)
(* Loading, starting and closing connectors (gateway/                      *)
(* tb_gateway_service.py).  Two threads do it, without a lock: the main    *)
(* loop, when a configuration file has changed on disk, and the remote     *)
(* configurator (module RemoteConfigurator).                               *)
(*                                                                         *)
(* A connector is known by its id; its name does not change.  An instance  *)
(* runs until close() is called and its own threads have ended, which      *)
(* takes any time; is_stopped() then answers True.  A file is represented  *)
(* by the version of its contents, its time of change by the same number.  *)
(***************************************************************************)
EXTENDS Naturals, Sequences, FiniteSets

CONSTANTS
    Connectors,     \* the connectors of the main configuration, in its order
    GrpcConnectors, \* those that run in a process of their own
    MaxEdits        \* times somebody edits a configuration file

Ids == {Connectors[k] : k \in 1..Len(Connectors)}

ASSUME ConnectorLifecycleAssumption ==
    /\ Connectors \in Seq(Ids) /\ GrpcConnectors \subseteq Ids /\ MaxEdits \in Nat
    /\ \A j, k \in 1..Len(Connectors) : Connectors[j] = Connectors[k] => j = k

Watcher == "watcher"
Configurator == "configurator"
Actors == {Watcher, Configurator}
None == 0

VARIABLES
    instances,  \* all instances: id, version of the configuration, state
    byId, byName,  \* available_connectors_by_id and _by_name
    configured, \* the connectors listed in the main configuration
    files, edits,  \* the configuration file of each connector; the edits so far
    loaded,     \* connectors_configs: the version loaded, None if not loaded
    devices,    \* __connected_devices: the instance a connector's device belongs to
    up,         \* tb_client.is_connected()
    actor,      \* each thread: its step, what it has still to do, the keys it iterates over
    overlap,    \* history: both threads were at it, or a close() raised
    unserved,   \* history: connectors left out, left as they were, or left closed
    late        \* history: connectors whose device was announced by another instance

lifeVars == <<instances, byId, byName, configured, files, edits, loaded, devices, actor, overlap, unserved, late>>

IsStopped(i) == instances[i].st = "stopped"
IdleActor == [step |-> "idle", todo |-> <<>>, keys |-> 0]
Go(a, step, todo) == actor' = [actor EXCEPT ![a] = [step |-> step, todo |-> todo, keys |-> 0]]

\* A set of connectors one after the other: in any order, in that of the configuration.
Orders(S) ==
    {s \in [1..Cardinality(S) -> S] : \A c \in S : \E k \in DOMAIN s : s[k] = c}
InOrder(S) ==
    {s \in Orders(S) : \A m, n \in 1..Len(Connectors) : \A j, k \in DOMAIN s :
        s[j] = Connectors[m] /\ s[k] = Connectors[n] /\ j < k => m < n}

\* The connectors a start reaches: those before the first gRPC connector.
Reached == {k \in 1..Len(Connectors) : \A j \in 1..k : Connectors[j] \notin GrpcConnectors}

\* The gateway has started.
LifecycleInit ==
    /\ instances = [k \in Reached |-> [id |-> Connectors[k], ver |-> 1, st |-> "open"]]
    /\ byId = [c \in Ids |-> IF \E k \in Reached : Connectors[k] = c
                             THEN CHOOSE k \in Reached : Connectors[k] = c ELSE None]
    /\ byName = byId
    /\ configured = Ids
    /\ files = [c \in Ids |-> 1] /\ edits = 0 /\ loaded = [c \in Ids |-> 1]
    /\ devices = [c \in Ids |-> None] /\ up = TRUE
    /\ actor = [a \in Actors |-> IdleActor]
    /\ overlap = FALSE /\ unserved = {c \in Ids : byId[c] = None} /\ late = {}

-----------------------------------------------------------------------------
(* close(), and del_device() for what get_connector_devices() finds        *)

Closed(i) ==
    IF instances[i].st \in {"open", "unopened"} THEN [instances EXCEPT ![i].st = "closing"] ELSE instances
WithoutDevicesOf(c) == [devices EXCEPT ![c] = None]

\* The loop around close() in __close_connectors and in the handler of a
\* connector's configuration: it is called again until the instance has
\* stopped, or for five seconds.  Devices are deleted only while connected.
CloseCall(i) ==
    /\ ~IsStopped(i)
    /\ instances' = Closed(i)
    /\ devices' = IF up THEN WithoutDevicesOf(instances[i].id) ELSE devices

CloseOver(i) == instances[i].st \in {"closing", "stopped"}

\* The threads of an instance end, some time after close().
InstanceStops ==
    /\ \E i \in 1..Len(instances) :
        /\ instances[i].st = "closing"
        /\ instances' = [instances EXCEPT ![i].st = "stopped"]
    /\ UNCHANGED <<byId, byName, configured, files, edits, loaded, devices, up, actor, overlap, unserved, late>>

\* A connector tells the gateway about its device, as long as its threads run.
InstanceAddsDevice ==
    /\ up
    /\ \E i \in 1..Len(instances) :
        /\ instances[i].st \in {"open", "closing"} /\ devices[instances[i].id] = None
        /\ devices' = [devices EXCEPT ![instances[i].id] = i]
        /\ late' = IF byId[instances[i].id] = i THEN late ELSE late \cup {instances[i].id}
    /\ UNCHANGED <<instances, byId, byName, configured, files, edits, loaded, up, actor, overlap, unserved>>

LinkChanges == up' = ~up /\ UNCHANGED lifeVars

\* Somebody edits the file of a connector.
FileEdited ==
    /\ edits < MaxEdits /\ edits' = edits + 1
    /\ \E c \in Ids : files' = [files EXCEPT ![c] = @ + 1]
    /\ UNCHANGED <<instances, byId, byName, configured, loaded, devices, up, actor, overlap, unserved, late>>

-----------------------------------------------------------------------------
(* _load_connectors() and __connect_with_connectors()                      *)

\* The files of the connectors of the main configuration are read; the others
\* are no longer loaded.
LoadConnectors(a) ==
    /\ actor[a].step = "load"
    /\ loaded' = [c \in Ids |-> IF c \in configured THEN files[c] ELSE None]
    /\ \E order \in InOrder(configured) : Go(a, "start", order)
    /\ UNCHANGED <<instances, byId, byName, configured, files, edits, devices, overlap, unserved, late>>

\* Mutant: the instance that is there is not looked at.
MayStartAnyway(c) == TRUE

\* __init_and_start_regular_connector creates an instance only then.
MayStart(c) == byId[c] # None => IsStopped(byId[c])

\* A gRPC connector is handed to its process, and ends the loop; one that has
\* not stopped is left as it is.  (The constructor of the others comes next.)
StartNext(a, after) ==
    /\ actor[a].step = "start"
    /\ \/ actor[a].todo = <<>> /\ Go(a, after, <<>>) /\ UNCHANGED unserved
       \/ /\ actor[a].todo # <<>>
          /\ LET c == Head(actor[a].todo)
                 behind == {Tail(actor[a].todo)[k] : k \in 1..Len(Tail(actor[a].todo))}
             IN  IF c \in GrpcConnectors
                 THEN Go(a, after, <<>>) /\ unserved' = unserved \cup behind
                 ELSE IF MayStart(c)
                 THEN Go(a, "construct", actor[a].todo) /\ UNCHANGED unserved
                 ELSE /\ Go(a, "start", Tail(actor[a].todo))
                      /\ unserved' = IF instances[byId[c]].st = "open" /\ instances[byId[c]].ver = loaded[c]
                                     THEN unserved ELSE unserved \cup {c}
    /\ UNCHANGED <<instances, byId, byName, configured, files, edits, loaded, devices, overlap, late>>

\* __update_connector_devices and __cleanup_connectors
Repointed(c, i) == [devices EXCEPT ![c] = IF @ = None THEN None ELSE i]

WithoutStopped(ids, ins) == [c \in Ids |-> IF ids[c] # None /\ ins[ids[c]].st = "stopped" THEN None ELSE ids[c]]

\* The instance is created, registered, given the devices, and opened.  One whose
\* open() raises stays registered, is not closed (connector is None where the
\* exception is caught), and keeps its place from any other.
StartConstructed(a) ==
    /\ actor[a].step = "construct"
    /\ \E st \in {"open", "unopened"} :
        LET c == Head(actor[a].todo)
            i == Len(instances) + 1
            new == Append(instances, [id |-> c, ver |-> IF loaded[c] = None THEN files[c] ELSE loaded[c], st |-> st])
        IN  /\ instances' = new /\ byName' = [byName EXCEPT ![c] = i]
            /\ devices' = Repointed(c, i)
            /\ byId' = WithoutStopped([byId EXCEPT ![c] = i], new)
            /\ unserved' = IF st = "open" THEN unserved \ {c} ELSE unserved \cup {c}
    /\ overlap' = (overlap \/ \A b \in Actors : actor[b].step # "idle")
    /\ Go(a, "start", Tail(actor[a].todo))
    /\ UNCHANGED <<configured, files, edits, loaded, late>>

\* The constructor raised, or the configuration is not valid.
StartRaises(a) ==
    /\ actor[a].step = "construct"
    /\ unserved' = unserved \cup {Head(actor[a].todo)}
    /\ Go(a, "start", Tail(actor[a].todo))
    /\ UNCHANGED <<instances, byId, byName, configured, files, edits, loaded, devices, overlap, late>>

LoadAndStart(a, after) == LoadConnectors(a) \/ StartNext(a, after) \/ StartConstructed(a) \/ StartRaises(a)

-----------------------------------------------------------------------------
(* check_connector_configuration_updates(), by the main loop               *)

FilesChanged == \E c \in Ids : loaded[c] # None /\ loaded[c] # files[c]
Keys == {c \in Ids : byId[c] # None}

\* The main loop looks whether the configurator is at work (busy), once.
WatcherChecks(busy) ==
    /\ actor[Watcher].step = "idle" /\ ~busy /\ FilesChanged
    /\ \E order \in Orders(Keys) :
        actor' = [actor EXCEPT ![Watcher] = [step |-> "close", todo |-> order, keys |-> Cardinality(Keys)]]
    /\ UNCHANGED <<instances, byId, byName, configured, files, edits, loaded, devices, up, overlap, unserved, late>>

\* __close_connectors(): one after the other.
WatcherCloses ==
    /\ actor[Watcher].step = "close" /\ actor[Watcher].todo # <<>>
    /\ byId[Head(actor[Watcher].todo)] # None /\ CloseCall(byId[Head(actor[Watcher].todo)])
    /\ UNCHANGED <<byId, byName, configured, files, edits, loaded, up, actor, overlap, unserved, late>>

\* One has stopped, has been given up, raised, or is no longer registered.  The
\* dictionary iterated over must not have changed its size: the main loop logs the
\* error and looks at the files again, and what has been closed stays so until then.
\* (One registered meanwhile may be visited as well: that is overlap.)
WatcherGoesOn ==
    /\ actor[Watcher].step = "close" /\ actor[Watcher].todo # <<>>
    /\ IF Cardinality(Keys) = actor[Watcher].keys
       THEN actor' = [actor EXCEPT ![Watcher].todo = Tail(@)] /\ UNCHANGED unserved
       ELSE /\ Go(Watcher, "idle", <<>>)
            /\ unserved' = unserved \cup {c \in Keys : instances[byId[c]].st # "open"}
    /\ UNCHANGED <<instances, byId, byName, configured, files, edits, loaded, devices, up, overlap, late>>

WatcherLoads ==
    /\ actor[Watcher].step = "close" /\ actor[Watcher].todo = <<>>
    /\ Go(Watcher, "load", <<>>)
    /\ UNCHANGED <<instances, byId, byName, configured, files, edits, loaded, devices, up, overlap, unserved, late>>

WatcherStep(busy) ==
    \/ WatcherChecks(busy) \/ WatcherCloses \/ WatcherGoesOn \/ WatcherLoads
    \/ LoadAndStart(Watcher, "idle") /\ UNCHANGED up
=============================================================================
