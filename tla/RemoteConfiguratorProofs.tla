----------------------- MODULE RemoteConfiguratorProofs -----------------------
(***************************************************************************)
(* For any connectors, settings and numbers of updates: what is configured *)
(* runs once, under its registration, with the configuration loaded; the   *)
(* settings saved are those in use; the storage runs while the uplink may  *)
(* send.                                                                   *)
(***************************************************************************)
EXTENDS RemoteConfigurator, WellFoundedInduction, FiniteSetTheorems, FunctionTheorems,
        SequenceTheorems, TLAPS

ConfiguratorSteps ==
    {"idle", "modified", "write", "close", "pop", "load", "start", "construct", "devices", "active",
     "grpc", "logs", "stop storage", "new storage", "connection", "connect", "apply", "finish"}
InstanceStates == {"open", "unopened", "closing", "stopped"}
Instance == [id : Ids, ver : Nat, st : InstanceStates]

LifeTypeOK ==
    /\ instances \in Seq(Instance)
    /\ byId \in [Ids -> 0..Len(instances)] /\ byName \in [Ids -> 0..Len(instances)]
    /\ devices \in [Ids -> 0..Len(instances)]
    /\ configured \subseteq Ids /\ unserved \subseteq Ids /\ late \subseteq Ids
    /\ files \in [Ids -> Nat \ {0}] /\ loaded \in [Ids -> Nat]

ActorTypeOK ==
    actor \in [Actors -> [step : ConfiguratorSteps, todo : Seq(Ids), keys : Nat]]

\* What is asked for is what the step works on.
RequestTypeOK ==
    /\ queue \in Seq(Requests) /\ request \in Requests \cup {NoRequest}
    /\ Step("modified") \/ Step("write") \/ Step("close") \/ Step("pop") => request.kind = "connector"
    /\ Step("active") => request.kind = "active"
    /\ Step("connection") \/ Step("connect") \/ Step("apply") => request.kind = "general"

SettingsTypeOK ==
    /\ {client, general, saved} \subseteq Settings
    /\ storage \in {"running", "stopped"} /\ inProcess \in BOOLEAN

\* The file holds the settings of the client, until new ones have been tried.
SettingsFollow ==
    ~fellBack /\ ~raised =>
        /\ general = saved
        /\ client = IF Step("apply") THEN request.to ELSE saved

\* The flag falls only when a handler is through; a storage is replaced under it.
BusyWhileReplacing ==
    /\ ~inProcess => Step("idle")
    /\ ~raised /\ ~Step("new storage") => storage = "running"

\* The registries hold instances of their connector; an open one is in both.
Registered ==
    /\ \A c \in Ids : byId[c] # None => instances[byId[c]].id = c
    /\ \A c \in Ids : byName[c] # None => instances[byName[c]].id = c
    /\ ~overlap => \A i \in 1..Len(instances) : instances[i].st = "open" =>
                        byId[instances[i].id] = i /\ byName[instances[i].id] = i

\* What a thread has found to be free to start is so when it starts it, and what
\* the configurator takes out of the registry does not run.
StillFree ==
    \A a \in Actors : actor[a].step = "construct" =>
        /\ actor[a].todo # <<>>
        /\ ~overlap => MayStart(Head(actor[a].todo))
ClosedIsPopped == Step("pop") /\ ~overlap /\ Target # None => instances[Target].st # "open"

DevicesFollow == \A c \in Ids \ late : byId[c] # None => devices[c] \in {None, byId[c]}

\* The configurator is about to load all, or a thread about to come to this one.
WillLoad == Step("close") \/ Step("pop") \/ Step("load")
ToStart(a, c) ==
    /\ actor[a].step \in {"start", "construct"}
    /\ \E k \in 1..Len(actor[a].todo) : actor[a].todo[k] = c
LeftClosed(c) == actor[Watcher].step = "close" /\ byId[c] # None /\ instances[byId[c]].st # "open"
Pending(c) ==
    \/ WillLoad \/ actor[Watcher].step = "load" \/ LeftClosed(c)
    \/ \E a \in Actors : ToStart(a, c)

Serves(c) == byId[c] # None /\ instances[byId[c]].st = "open" /\ instances[byId[c]].ver = loaded[c]

Loaded == \A c \in configured : loaded[c] # None \/ WillLoad
ServedOrPending ==
    ~overlap => \A c \in configured \ (unserved \cup GrpcConnectors) : Serves(c) \/ Pending(c)

LifeInv == Registered /\ StillFree /\ ClosedIsPopped /\ DevicesFollow /\ Loaded /\ ServedOrPending
TypeInv == LifeTypeOK /\ ActorTypeOK /\ RequestTypeOK /\ SettingsTypeOK
IInv == TypeInv /\ SettingsFollow /\ BusyWhileReplacing /\ LifeInv

USE ConnectorLifecycleAssumption, RemoteConfiguratorAssumption
USE DEF Actors, Watcher, Configurator, None

(* What a thread has to do is a sequence, and each set has one.             *)
LEMMA GoEffect ==
  ASSUME ActorTypeOK, NEW a \in Actors, NEW s \in ConfiguratorSteps, NEW t \in Seq(Ids), Go(a, s, t)
  PROVE  /\ ActorTypeOK'
         /\ actor'[a].step = s /\ actor'[a].todo = t
         /\ \A b \in Actors \ {a} : actor'[b] = actor[b]
  BY DEF ActorTypeOK, Go

LEMMA IdsAreFinite == IsFiniteSet(Ids)
  <1>1. Len(Connectors) \in Nat /\ Connectors \in [1..Len(Connectors) -> Ids]
    OBVIOUS
  <1>2. \A c \in Ids : \E k \in 1..Len(Connectors) : Connectors[k] = c
    BY DEF Ids
  <1>3. Connectors \in Surjection(1..Len(Connectors), Ids)
    BY <1>1, <1>2, Fun_IsSurj
  <1>4. IsFiniteSet(1..Len(Connectors))
    BY <1>1, FS_Interval
  <1>5. QED
    BY <1>3, <1>4, FS_Surjection

LEMMA OrdersAreSequences ==
  ASSUME NEW S \in SUBSET Ids, NEW s \in Orders(S)
  PROVE  s \in Seq(Ids) /\ \A c \in S : \E k \in 1..Len(s) : s[k] = c
  <1>1. Cardinality(S) \in Nat
    BY IdsAreFinite, FS_Subset, FS_CardinalityType
  <1>2. s \in [1..Cardinality(S) -> S] /\ \A c \in S : \E k \in DOMAIN s : s[k] = c
    BY DEF Orders
  <1>3. s \in Seq(Ids) /\ DOMAIN s = 1..Len(s)
    BY <1>1, <1>2
  <1>4. QED
    BY <1>2, <1>3

LEMMA KeysAreCounted == Keys \subseteq Ids /\ Cardinality(Keys) \in Nat
  <1>1. Keys \subseteq Ids
    BY DEF Keys
  <1>2. QED
    BY <1>1, IdsAreFinite, FS_Subset, FS_CardinalityType

LEMMA TodoTail ==
  ASSUME NEW t \in Seq(Ids), t # <<>>
  PROVE  /\ Head(t) \in Ids /\ Tail(t) \in Seq(Ids)
         /\ {Tail(t)[k] : k \in 1..Len(Tail(t))} \subseteq Ids
         /\ \A k \in 1..Len(t) : t[k] = Head(t) \/ \E j \in 1..Len(Tail(t)) : Tail(t)[j] = t[k]
  <1>1. /\ Head(t) \in Ids /\ Tail(t) \in Seq(Ids) /\ Len(Tail(t)) = Len(t) - 1
        /\ \A i \in 1..Len(Tail(t)) : Tail(t)[i] = t[i + 1]
    BY HeadTailProperties
  <1>2. ASSUME NEW k \in 1..Len(t), k # 1 PROVE \E j \in 1..Len(Tail(t)) : Tail(t)[j] = t[k]
    <2>1. k - 1 \in 1..Len(Tail(t)) /\ Tail(t)[k - 1] = t[k]
      BY <1>1, <1>2
    <2>2. QED
      BY <2>1
  <1>3. t[1] = Head(t)
    OBVIOUS
  <1>4. {Tail(t)[k] : k \in 1..Len(Tail(t))} \subseteq Ids
    BY <1>1
  <1>5. QED
    BY <1>1, <1>2, <1>3, <1>4

(* Loading and starting keep the types.                                     *)
LEMMA NewInstanceType ==
  ASSUME LifeTypeOK, NEW c \in Ids, NEW st \in InstanceStates, NEW v \in Nat,
         instances' = Append(instances, [id |-> c, ver |-> v, st |-> st])
  PROVE  /\ instances' \in Seq(Instance) /\ Len(instances') = Len(instances) + 1
         /\ \A i \in 1..Len(instances) : instances'[i] = instances[i]
         /\ instances'[Len(instances) + 1] = [id |-> c, ver |-> v, st |-> st]
  BY DEF LifeTypeOK, Instance

LEMMA LoadType ==
  ASSUME LifeTypeOK, ActorTypeOK, NEW a \in Actors, LoadConnectors(a)
  PROVE  LifeTypeOK' /\ ActorTypeOK' /\ actor'[a].step = "start" /\ \A b \in Actors \ {a} : actor'[b] = actor[b]
  <1>1. PICK order \in InOrder(configured) : Go(a, "start", order)
    BY DEF LoadConnectors
  <1>2. order \in Seq(Ids)
    <2>1. order \in Orders(configured) /\ configured \in SUBSET Ids
      BY DEF InOrder, LifeTypeOK
    <2>2. QED
      BY <2>1, OrdersAreSequences
  <1>3. LifeTypeOK'
    BY DEF LoadConnectors, LifeTypeOK
  <1>4. QED
    BY <1>1, <1>2, <1>3, GoEffect DEF ConfiguratorSteps

LEMMA StartNextType ==
  ASSUME LifeTypeOK, ActorTypeOK, NEW a \in Actors, NEW after \in ConfiguratorSteps, StartNext(a, after)
  PROVE  /\ LifeTypeOK' /\ ActorTypeOK' /\ actor'[a].step \in {"start", "construct", after}
         /\ \A b \in Actors \ {a} : actor'[b] = actor[b]
  <1>1. actor[a].todo \in Seq(Ids)
    BY DEF ActorTypeOK
  <1>2. <<>> \in Seq(Ids)
    OBVIOUS
  <1> "start" \in ConfiguratorSteps /\ "construct" \in ConfiguratorSteps
    BY DEF ConfiguratorSteps
  <1>3. unserved' \subseteq Ids
    <2>1. CASE actor[a].todo = <<>>
      BY <2>1 DEF StartNext, LifeTypeOK
    <2>2. CASE actor[a].todo # <<>>
      <3>1. {Tail(actor[a].todo)[k] : k \in 1..Len(Tail(actor[a].todo))} \subseteq Ids /\ Head(actor[a].todo) \in Ids
        BY <1>1, <2>2, TodoTail
      <3>2. QED
        BY <2>2, <3>1 DEF StartNext, LifeTypeOK
    <2>3. QED
      BY <2>1, <2>2
  <1>4. LifeTypeOK'
    BY <1>3 DEF StartNext, LifeTypeOK
  <1>5. \/ Go(a, after, <<>>)
        \/ Go(a, "construct", actor[a].todo)
        \/ actor[a].todo # <<>> /\ Go(a, "start", Tail(actor[a].todo))
    BY DEF StartNext
  <1>6. actor[a].todo # <<>> => Tail(actor[a].todo) \in Seq(Ids)
    BY <1>1, TodoTail
  <1>7. \E s \in {"start", "construct", after} : \E t \in Seq(Ids) : Go(a, s, t)
    BY <1>1, <1>2, <1>5, <1>6, Zenon
  <1>8. PICK s \in {"start", "construct", after} : \E t \in Seq(Ids) : Go(a, s, t)
    BY <1>7, Zenon
  <1>9. PICK t \in Seq(Ids) : Go(a, s, t)
    BY <1>8, Zenon
  <1>10. s \in ConfiguratorSteps
    OBVIOUS
  <1>11. ActorTypeOK' /\ actor'[a].step = s /\ \A b \in Actors \ {a} : actor'[b] = actor[b]
    BY <1>9, <1>10, GoEffect, Zenon
  <1>12. QED
    BY <1>4, <1>11, Zenon

LEMMA StartRaisesType ==
  ASSUME LifeTypeOK, ActorTypeOK, StillFree, NEW a \in Actors, StartRaises(a)
  PROVE  /\ LifeTypeOK' /\ ActorTypeOK' /\ actor'[a].step = "start"
         /\ \A b \in Actors \ {a} : actor'[b] = actor[b]
  <1>1. actor[a].todo \in Seq(Ids) /\ actor[a].todo # <<>>
    BY DEF ActorTypeOK, StillFree, StartRaises
  <1>2. LifeTypeOK'
    <2>1. Head(actor[a].todo) \in Ids
      BY <1>1, TodoTail
    <2>2. unserved' \subseteq Ids
      BY <2>1 DEF StartRaises, LifeTypeOK
    <2>3. UNCHANGED <<instances, byId, byName, configured, files, loaded, devices, late>>
      BY DEF StartRaises
    <2>4. QED
      BY <2>2, <2>3 DEF LifeTypeOK
  <1>3. Go(a, "start", Tail(actor[a].todo))
    BY DEF StartRaises
  <1>4. Tail(actor[a].todo) \in Seq(Ids) /\ "start" \in ConfiguratorSteps
    BY <1>1, TodoTail DEF ConfiguratorSteps
  <1>5. QED
    BY <1>2, <1>3, <1>4, GoEffect

LEMMA StartConstructedType ==
  ASSUME LifeTypeOK, ActorTypeOK, StillFree, NEW a \in Actors, StartConstructed(a)
  PROVE  /\ LifeTypeOK' /\ ActorTypeOK' /\ actor'[a].step = "start"
         /\ \A b \in Actors \ {a} : actor'[b] = actor[b]
  <1>1. actor[a].todo \in Seq(Ids) /\ actor[a].todo # <<>>
    BY DEF ActorTypeOK, StillFree, StartConstructed
  <1> DEFINE c == Head(actor[a].todo)
             n == Len(instances) + 1
             v == IF loaded[c] = None THEN files[c] ELSE loaded[c]
  <1>2. c \in Ids /\ v \in Nat
    BY <1>1, TodoTail DEF LifeTypeOK
  <1>3. PICK st \in {"open", "unopened"} :
            /\ instances' = Append(instances, [id |-> c, ver |-> v, st |-> st])
            /\ byName' = [byName EXCEPT ![c] = n]
            /\ devices' = Repointed(c, n)
            /\ byId' = WithoutStopped([byId EXCEPT ![c] = n], instances')
            /\ unserved' = IF st = "open" THEN unserved \ {c} ELSE unserved \cup {c}
    BY DEF StartConstructed
  <1>4. st \in InstanceStates
    BY DEF InstanceStates
  <1> HIDE DEF c, v
  <1>5. instances' \in Seq(Instance) /\ Len(instances') = n
    BY <1>2, <1>3, <1>4, NewInstanceType
  <1>6. Len(instances) \in Nat
    BY DEF LifeTypeOK
  <1>7. byName' \in [Ids -> 0..Len(instances')]
    BY <1>2, <1>3, <1>5, <1>6 DEF LifeTypeOK
  <1>8. byId' \in [Ids -> 0..Len(instances')]
    BY <1>2, <1>3, <1>5, <1>6 DEF LifeTypeOK, WithoutStopped
  <1>9. devices' \in [Ids -> 0..Len(instances')]
    BY <1>2, <1>3, <1>5, <1>6 DEF LifeTypeOK, Repointed
  <1>10. unserved' \subseteq Ids /\ UNCHANGED <<configured, files, loaded, late>>
    BY <1>2, <1>3 DEF LifeTypeOK, StartConstructed
  <1>11. LifeTypeOK'
    BY <1>5, <1>7, <1>8, <1>9, <1>10 DEF LifeTypeOK
  <1>12. Go(a, "start", Tail(actor[a].todo))
    BY DEF StartConstructed
  <1>13. Tail(actor[a].todo) \in Seq(Ids) /\ "start" \in ConfiguratorSteps
    BY <1>1, TodoTail DEF ConfiguratorSteps
  <1>14. QED
    BY <1>11, <1>12, <1>13, GoEffect

(* Closing an instance leaves it where it is, and it does not run any more. *)
SameButState(old, new) ==
    /\ new \in Seq(Instance) /\ Len(new) = Len(old)
    /\ \A i \in 1..Len(old) :
        /\ new[i].id = old[i].id /\ new[i].ver = old[i].ver
        /\ new[i].st = "open" => old[i].st = "open"
        /\ old[i].st = "stopped" => new[i].st = "stopped"

LEMMA InstanceType ==
  ASSUME LifeTypeOK, NEW i \in 1..Len(instances)
  PROVE  /\ instances[i] \in Instance /\ instances[i].id \in Ids /\ instances[i].ver \in Nat
         /\ instances[i].st \in InstanceStates
  <1>1. instances[i] \in Instance
    BY DEF LifeTypeOK
  <1>2. QED
    BY <1>1 DEF Instance

WithState(i, st) == [instances EXCEPT ![i].st = st]

LEMMA StateChange ==
  ASSUME LifeTypeOK, NEW i \in 1..Len(instances), NEW st \in InstanceStates \ {"open"}, instances[i].st # "stopped",
         NEW new, new = WithState(i, st)
  PROVE  /\ SameButState(instances, new) /\ new[i].st = st
         /\ \A j \in 1..Len(instances) \ {i} : new[j] = instances[j]
  <1> DEFINE r == [instances[i] EXCEPT !.st = st]
  <1>1. r \in Instance /\ r.id = instances[i].id /\ r.ver = instances[i].ver /\ r.st = st
    BY InstanceType DEF Instance
  <1>2. instances \in Seq(Instance)
    BY DEF LifeTypeOK
  <1>3. new = [instances EXCEPT ![i] = r]
    BY DEF LifeTypeOK, WithState
  <1> HIDE DEF r
  <1>4. /\ new \in Seq(Instance) /\ Len(new) = Len(instances)
        /\ \A j \in 1..Len(instances) : new[j] = IF j = i THEN r ELSE instances[j]
    BY <1>1, <1>2, <1>3, ExceptSeq
  <1>5. /\ SameButState(instances, new) /\ new[i].st = st
        /\ \A j \in 1..Len(instances) \ {i} : new[j] = instances[j]
    BY <1>1, <1>4 DEF SameButState
  <1>6. QED
    BY <1>5

LEMMA ClosedEffect ==
  ASSUME LifeTypeOK, NEW i \in 1..Len(instances)
  PROVE  /\ SameButState(instances, Closed(i)) /\ Closed(i)[i].st # "open"
         /\ \A j \in 1..Len(instances) \ {i} : Closed(i)[j] = instances[j]
  <1>1. CASE instances[i].st \in {"open", "unopened"}
    <2>1. Closed(i) = WithState(i, "closing")
      BY <1>1 DEF Closed, WithState
    <2>2. "closing" \in InstanceStates \ {"open"} /\ instances[i].st # "stopped"
      BY <1>1 DEF InstanceStates
    <2>3. /\ SameButState(instances, Closed(i)) /\ Closed(i)[i].st = "closing"
          /\ \A j \in 1..Len(instances) \ {i} : Closed(i)[j] = instances[j]
      BY <2>1, <2>2, StateChange
    <2>4. QED
      BY <2>3
  <1>2. CASE instances[i].st \notin {"open", "unopened"}
    <2>1. Closed(i) = instances
      BY <1>2 DEF Closed
    <2>2. QED
      BY <1>2, <2>1, InstanceType DEF SameButState, LifeTypeOK
  <1>3. QED
    BY <1>1, <1>2

LEMMA SameButStateType ==
  ASSUME LifeTypeOK, SameButState(instances, instances'), UNCHANGED <<byId, byName, configured, files, loaded, unserved, late>>,
         devices' \in [Ids -> 0..Len(instances)]
  PROVE  LifeTypeOK'
  BY DEF LifeTypeOK, SameButState

LEMMA CloseCallEffect ==
  ASSUME LifeTypeOK, NEW i \in 1..Len(instances), CloseCall(i)
  PROVE  /\ SameButState(instances, instances') /\ instances'[i].st # "open"
         /\ \A j \in 1..Len(instances) \ {i} : instances'[j] = instances[j]
         /\ devices' \in [Ids -> 0..Len(instances)]
         /\ \A c \in Ids : devices'[c] \in {None, devices[c]}
  <1>1. instances' = Closed(i)
    BY DEF CloseCall
  <1>2. devices' \in [Ids -> 0..Len(instances)] /\ \A c \in Ids : devices'[c] \in {None, devices[c]}
    BY InstanceType DEF CloseCall, LifeTypeOK, WithoutDevicesOf
  <1>3. QED
    BY <1>1, <1>2, ClosedEffect

LEMMA InstanceStopsEffect ==
  ASSUME LifeTypeOK, InstanceStops
  PROVE  SameButState(instances, instances') /\ LifeTypeOK'
         /\ \A i \in 1..Len(instances) : instances[i].st = "open" => instances'[i] = instances[i]
  <1>1. PICK i \in 1..Len(instances) :
            instances[i].st = "closing" /\ instances' = [instances EXCEPT ![i].st = "stopped"]
    BY DEF InstanceStops
  <1>2. SameButState(instances, instances')
        /\ \A j \in 1..Len(instances) : instances[j].st = "open" => instances'[j] = instances[j]
    <2>1. "stopped" \in InstanceStates \ {"open"} /\ instances[i].st # "stopped"
      BY <1>1 DEF InstanceStates
    <2>2. instances' = WithState(i, "stopped")
      BY <1>1 DEF WithState
    <2>3. SameButState(instances, instances') /\ \A j \in 1..Len(instances) \ {i} : instances'[j] = instances[j]
      BY <2>1, <2>2, StateChange
    <2>4. QED
      BY <1>1, <2>3
  <1>3. devices' \in [Ids -> 0..Len(instances)]
    BY DEF InstanceStops, LifeTypeOK
  <1>4. QED
    BY <1>2, <1>3, SameButStateType DEF InstanceStops

LEMMA InstanceAddsDeviceType ==
  ASSUME LifeTypeOK, InstanceAddsDevice
  PROVE  LifeTypeOK'
  <1>1. PICK i \in 1..Len(instances) :
            /\ devices' = [devices EXCEPT ![instances[i].id] = i]
            /\ late' = IF byId[instances[i].id] = i THEN late ELSE late \cup {instances[i].id}
    BY DEF InstanceAddsDevice
  <1>2. instances[i].id \in Ids
    BY InstanceType
  <1>3. devices' \in [Ids -> 0..Len(instances)] /\ late' \subseteq Ids
    BY <1>1, <1>2 DEF LifeTypeOK
  <1>4. QED
    BY <1>3 DEF LifeTypeOK, InstanceAddsDevice

LEMMA FileEditedType ==
  ASSUME LifeTypeOK, FileEdited
  PROVE  LifeTypeOK'
  <1>1. PICK c \in Ids : files' = [files EXCEPT ![c] = @ + 1]
    BY DEF FileEdited
  <1>2. files' \in [Ids -> Nat \ {0}]
    BY <1>1 DEF LifeTypeOK
  <1>3. QED
    BY <1>2 DEF LifeTypeOK, FileEdited

LEMMA WatcherOwnType ==
  ASSUME LifeTypeOK, ActorTypeOK,
         WatcherChecks(inProcess) \/ WatcherCloses \/ WatcherGoesOn \/ WatcherLoads
  PROVE  LifeTypeOK' /\ ActorTypeOK' /\ actor'[Configurator] = actor[Configurator]
  <1>1. CASE WatcherChecks(inProcess)
    <2>1. PICK order \in Orders(Keys) :
              actor' = [actor EXCEPT ![Watcher] = [step |-> "close", todo |-> order, keys |-> Cardinality(Keys)]]
      BY <1>1 DEF WatcherChecks
    <2>2. order \in Seq(Ids) /\ Cardinality(Keys) \in Nat
      BY KeysAreCounted, OrdersAreSequences
    <2>3. ActorTypeOK' /\ actor'[Configurator] = actor[Configurator]
      BY <2>1, <2>2 DEF ActorTypeOK, ConfiguratorSteps
    <2>4. LifeTypeOK'
      BY <1>1 DEF WatcherChecks, LifeTypeOK
    <2>5. QED
      BY <2>3, <2>4
  <1>2. CASE WatcherCloses
    <2>1. actor[Watcher].todo \in Seq(Ids) /\ actor[Watcher].todo # <<>>
      BY <1>2 DEF ActorTypeOK, WatcherCloses
    <2>2. byId[Head(actor[Watcher].todo)] \in 1..Len(instances)
      <3>1. Head(actor[Watcher].todo) \in Ids
        BY <2>1, TodoTail
      <3>2. QED
        BY <1>2, <3>1 DEF LifeTypeOK, WatcherCloses
    <2>3. CloseCall(byId[Head(actor[Watcher].todo)]) /\ UNCHANGED <<byId, byName, configured, files, loaded, unserved, late, actor>>
      BY <1>2 DEF WatcherCloses
    <2>4. LifeTypeOK'
      BY <2>2, <2>3, CloseCallEffect, SameButStateType
    <2>5. QED
      BY <2>3, <2>4 DEF ActorTypeOK
  <1>3. CASE WatcherGoesOn
    <2>1. actor[Watcher].todo \in Seq(Ids) /\ actor[Watcher].todo # <<>>
      BY <1>3 DEF ActorTypeOK, WatcherGoesOn
    <2>2. Tail(actor[Watcher].todo) \in Seq(Ids) /\ <<>> \in Seq(Ids)
      BY <2>1, TodoTail
    <2>3. ActorTypeOK' /\ actor'[Configurator] = actor[Configurator]
      <3>1. CASE Go(Watcher, "idle", <<>>)
        BY <2>2, <3>1, GoEffect DEF ConfiguratorSteps
      <3>2. CASE actor' = [actor EXCEPT ![Watcher].todo = Tail(@)]
        BY <2>2, <3>2 DEF ActorTypeOK
      <3>3. QED
        BY <1>3, <3>1, <3>2 DEF WatcherGoesOn
    <2>4. unserved' \subseteq Ids /\ UNCHANGED <<instances, byId, byName, devices, configured, files, loaded, late>>
      BY <1>3, KeysAreCounted DEF WatcherGoesOn, LifeTypeOK
    <2>5. LifeTypeOK'
      BY <2>4 DEF LifeTypeOK
    <2>6. QED
      BY <2>3, <2>5
  <1>4. CASE WatcherLoads
    <2>1. ActorTypeOK' /\ actor'[Configurator] = actor[Configurator]
      BY <1>4 DEF WatcherLoads, ActorTypeOK, Go, ConfiguratorSteps
    <2>2. LifeTypeOK'
      BY <1>4 DEF WatcherLoads, LifeTypeOK
    <2>3. QED
      BY <2>1, <2>2
  <1>5. QED
    BY <1>1, <1>2, <1>3, <1>4

LEMMA LoadAndStartType ==
  ASSUME LifeTypeOK, ActorTypeOK, StillFree, NEW a \in Actors, NEW after \in ConfiguratorSteps, LoadAndStart(a, after)
  PROVE  /\ LifeTypeOK' /\ ActorTypeOK' /\ actor'[a].step \in {"start", "construct", after}
         /\ \A b \in Actors \ {a} : actor'[b] = actor[b]
  BY LoadType, StartNextType, StartRaisesType, StartConstructedType DEF LoadAndStart

(* The request a handler works on has the fields it reads.                  *)
LEMMA RequestFields ==
  ASSUME NEW r \in Requests
  PROVE  /\ r.kind \in {"connector", "active", "general", "storage", "grpc", "logs"}
         /\ r.kind = "connector" => r.id \in Ids
         /\ r.kind = "active" => r.ids \in SUBSET Ids
         /\ r.kind = "general" => r \in [kind : {"general"}, to : Settings]
  BY DEF Requests

LEMMA GoToEffect ==
  ASSUME ActorTypeOK, NEW s \in ConfiguratorSteps, GoTo(s)
  PROVE  /\ ActorTypeOK' /\ Step(s)' /\ actor'[Configurator].step = s /\ actor'[Configurator].todo = <<>>
         /\ actor'[Watcher] = actor[Watcher]
  <1>1. <<>> \in Seq(Ids) /\ Go(Configurator, s, <<>>)
    BY DEF GoTo
  <1>2. /\ ActorTypeOK' /\ actor'[Configurator].step = s /\ actor'[Configurator].todo = <<>>
        /\ \A b \in Actors \ {Configurator} : actor'[b] = actor[b]
    BY <1>1, GoEffect
  <1>3. QED
    BY <1>2 DEF Step

\* What a handler may do next is for the update it was called with.
Suits(r, s) ==
    /\ s \in {"modified", "write", "close", "pop"} => r.kind = "connector"
    /\ s = "active" => r.kind = "active"
    /\ s \in {"connection", "connect", "apply"} => r.kind = "general"

LEMMA SuitsIsTyped ==
  /\ RequestTypeOK <=> /\ queue \in Seq(Requests) /\ request \in Requests \cup {NoRequest}
                       /\ Suits(request, actor[Configurator].step)
  /\ RequestTypeOK' <=> /\ queue' \in Seq(Requests) /\ request' \in Requests \cup {NoRequest}
                        /\ Suits(request', actor'[Configurator].step)
  BY DEF RequestTypeOK, Suits, Step

LEMMA TakeRequestType ==
  ASSUME TypeInv, TakeRequest
  PROVE  TypeInv'
  <1>1. queue \in Seq(Requests) /\ queue # <<>>
    BY DEF TypeInv, RequestTypeOK, TakeRequest
  <1>2. Head(queue) \in Requests /\ Tail(queue) \in Seq(Requests)
    BY <1>1, HeadTailProperties
  <1>3. Handler(Head(queue).kind) \in ConfiguratorSteps /\ Suits(Head(queue), Handler(Head(queue).kind))
    BY <1>2, RequestFields DEF Handler, ConfiguratorSteps, Suits
  <1>4. ActorTypeOK' /\ actor'[Configurator].step = Handler(Head(queue).kind)
    BY <1>3, GoToEffect DEF TypeInv, TakeRequest
  <1>5. RequestTypeOK'
    BY <1>2, <1>3, <1>4, SuitsIsTyped DEF TakeRequest
  <1>6. LifeTypeOK'
    BY DEF TypeInv, LifeTypeOK, TakeRequest, lifeRest
  <1>7. SettingsTypeOK'
    BY DEF TypeInv, SettingsTypeOK, TakeRequest, generalVars
  <1>8. QED
    BY <1>4, <1>5, <1>6, <1>7 DEF TypeInv

\* A step that goes on with the same update, or is through with it.
LEMMA HandlerGoesOnType ==
  ASSUME TypeInv, NEW s \in ConfiguratorSteps, GoTo(s), queue' = queue, LifeTypeOK', SettingsTypeOK',
         \/ request' = request /\ Suits(request, s)
         \/ request' = NoRequest /\ s \in {"idle", "finish"}
  PROVE  TypeInv'
  <1>1. ActorTypeOK' /\ actor'[Configurator].step = s
    BY GoToEffect DEF TypeInv
  <1>2. Suits(request', s)
    BY DEF Suits
  <1>3. RequestTypeOK'
    BY <1>1, <1>2, SuitsIsTyped DEF TypeInv
  <1>4. QED
    BY <1>1, <1>3 DEF TypeInv

\* An action of the connectors that touches nothing of the configurator's own.
LEMMA SettingsKept ==
  ASSUME TypeInv, UNCHANGED rcVars
  PROVE  SettingsTypeOK' /\ queue' = queue /\ request' = request
  BY DEF TypeInv, SettingsTypeOK, rcVars

LEMMA LifeKept ==
  ASSUME LifeTypeOK, UNCHANGED lifeRest
  PROVE  LifeTypeOK'
  BY DEF LifeTypeOK, lifeRest

LEMMA AtStep ==
  ASSUME TypeInv
  PROVE  /\ Suits(request, actor[Configurator].step)
         /\ request \in Requests \cup {NoRequest}
  BY SuitsIsTyped DEF TypeInv

LEMMA SimpleHandlersType ==
  ASSUME TypeInv,
         Finish \/ ConnectorModified \/ LogsUpdate \/ StorageStopped \/ StorageReplaced \/ GeneralUpdate
  PROVE  TypeInv'
  <1> USE DEF TypeInv
  <1>1. CASE Finish
    <2>1. LifeTypeOK' /\ SettingsTypeOK' /\ queue' = queue
      BY <1>1, LifeKept DEF Finish, SettingsTypeOK, generalVars
    <2>2. QED
      BY <1>1, <2>1, HandlerGoesOnType DEF Finish, ConfiguratorSteps
  <1>2. CASE ConnectorModified
    <2>1. LifeTypeOK' /\ SettingsTypeOK' /\ queue' = queue /\ request' = request
      BY <1>2, LifeKept, SettingsKept DEF ConnectorModified
    <2>2. Suits(request, "modified")
      BY <1>2, AtStep DEF ConnectorModified, Step
    <2>3. GoTo("finish") \/ GoTo("devices") \/ GoTo("write")
      BY <1>2 DEF ConnectorModified
    <2>4. Suits(request, "finish") /\ Suits(request, "devices") /\ Suits(request, "write")
      BY <2>2 DEF Suits
    <2>5. {"finish", "devices", "write"} \subseteq ConfiguratorSteps
      BY DEF ConfiguratorSteps
    <2>6. QED
      BY <2>1, <2>3, <2>4, <2>5, HandlerGoesOnType
  <1>3. CASE LogsUpdate
    <2>1. LifeTypeOK' /\ SettingsTypeOK' /\ queue' = queue /\ request' = request
      BY <1>3, LifeKept, SettingsKept DEF LogsUpdate
    <2>2. QED
      BY <1>3, <2>1, HandlerGoesOnType DEF LogsUpdate, ConfiguratorSteps, Suits
  <1>4. CASE StorageStopped
    <2>1. LifeTypeOK' /\ SettingsTypeOK' /\ queue' = queue /\ request' = request
      BY <1>4, LifeKept DEF StorageStopped, SettingsTypeOK, generalVars, rcRest
    <2>2. QED
      BY <1>4, <2>1, HandlerGoesOnType DEF StorageStopped, ConfiguratorSteps, Suits
  <1>5. CASE StorageReplaced
    <2>1. SettingsTypeOK'
      BY <1>5 DEF StorageReplaced, HandlerRaises, SettingsTypeOK, generalVars, rcRest
    <2>2. CASE GoTo("finish") /\ UNCHANGED <<lifeRest, up, rcRest, raised>>
      BY <2>1, <2>2, LifeKept, HandlerGoesOnType DEF ConfiguratorSteps, Suits, rcRest
    <2>3. CASE HandlerRaises
      BY <2>1, <2>3, LifeKept, HandlerGoesOnType DEF ConfiguratorSteps, HandlerRaises
    <2>4. QED
      BY <1>5, <2>2, <2>3 DEF StorageReplaced
  <1>6. CASE GeneralUpdate
    <2>1. /\ actor[Configurator].step \in {"connection", "connect", "apply"}
          /\ request.kind = "general"
      BY <1>6, AtStep DEF GeneralUpdate, ConnectionCompared, ConnectionTried, ConnectionReverted, GeneralApplied, Step, Suits
    <2>2. request \in [kind : {"general"}, to : Settings]
      BY <2>1, AtStep, RequestFields DEF NoRequest
    <2>3. general \in Settings /\ client \in Settings /\ saved \in Settings /\ inProcess \in BOOLEAN /\ storage \in {"running", "stopped"}
      BY DEF SettingsTypeOK
    <2>4. Suits(request, "apply") /\ Suits(request, "connect") /\ Suits(request, "finish")
          /\ {"apply", "connect", "finish", "idle"} \subseteq ConfiguratorSteps
      BY <2>1 DEF Suits, ConfiguratorSteps
    <2>5. CASE ConnectionCompared
      <3>1. LifeTypeOK' /\ SettingsTypeOK' /\ queue' = queue /\ request' = request
        BY <2>5, LifeKept DEF ConnectionCompared, SettingsTypeOK, rcRest
      <3>2. GoTo("apply") \/ GoTo("connect")
        BY <2>5 DEF ConnectionCompared
      <3>3. QED
        BY <2>4, <3>1, <3>2, HandlerGoesOnType
    <2>6. CASE ConnectionTried
      <3>1. LifeTypeOK' /\ SettingsTypeOK' /\ queue' = queue /\ request' = request
        BY <2>2, <2>3, <2>6, LifeKept DEF ConnectionTried, SettingsTypeOK, rcRest
      <3>2. CASE GoTo("apply")
        BY <2>4, <3>1, <3>2, HandlerGoesOnType
      <3>3. CASE actor' = actor
        BY <3>1, <3>3 DEF ActorTypeOK, RequestTypeOK, Step
      <3>4. QED
        BY <2>6, <3>2, <3>3 DEF ConnectionTried
    <2>7. CASE ConnectionReverted
      <3>1. LifeTypeOK' /\ SettingsTypeOK' /\ queue' = queue
        BY <2>3, <2>7, LifeKept DEF ConnectionReverted, SettingsTypeOK
      <3>2. request' \in [kind : {"general"}, to : Settings]
        BY <2>2, <2>3, <2>7 DEF ConnectionReverted
      <3>3. request' \in Requests /\ Suits(request', "apply")
        BY <3>2 DEF Requests, Suits
      <3>4. ActorTypeOK' /\ actor'[Configurator].step = "apply"
        BY <2>4, <2>7, GoToEffect DEF ConnectionReverted
      <3>5. RequestTypeOK'
        BY <3>1, <3>3, <3>4, SuitsIsTyped
      <3>6. QED
        BY <3>1, <3>4, <3>5
    <2>8. CASE GeneralApplied
      <3>1. LifeTypeOK' /\ SettingsTypeOK' /\ queue' = queue
        BY <2>2, <2>3, <2>8, LifeKept DEF GeneralApplied, SettingsTypeOK, rcRest, HandlerRaises
      <3>2. \/ GoTo("idle") /\ request' = NoRequest
            \/ GoTo("finish") /\ request' = request
        BY <2>8 DEF GeneralApplied, rcRest, HandlerRaises
      <3>3. QED
        BY <2>4, <3>1, <3>2, HandlerGoesOnType
    <2>9. QED
      BY <1>6, <2>5, <2>6, <2>7, <2>8 DEF GeneralUpdate
  <1>7. QED
    BY <1>1, <1>2, <1>3, <1>4, <1>5, <1>6

(* Closing several at once, without waiting.                                *)
CloseAll(S) == [i \in DOMAIN instances |-> IF i \in S THEN Closed(i)[i] ELSE instances[i]]

LEMMA CloseAllEffect ==
  ASSUME LifeTypeOK, NEW S
  PROVE  /\ SameButState(instances, CloseAll(S))
         /\ \A i \in 1..Len(instances) : CloseAll(S)[i].st = "open" => i \notin S
         /\ \A i \in 1..Len(instances) \ S : CloseAll(S)[i] = instances[i]
  <1> DEFINE new == CloseAll(S)
  <1>1. Len(instances) \in Nat /\ DOMAIN instances = 1..Len(instances) /\ instances \in Seq(Instance)
    BY DEF LifeTypeOK
  <1>2. new = [i \in 1..Len(instances) |-> IF i \in S THEN Closed(i)[i] ELSE instances[i]]
    BY <1>1 DEF CloseAll
  <1> HIDE DEF new
  <1>3. ASSUME NEW i \in 1..Len(instances)
        PROVE  /\ new[i] \in Instance /\ new[i].id = instances[i].id /\ new[i].ver = instances[i].ver
               /\ new[i].st = "open" => instances[i].st = "open" /\ i \notin S
               /\ instances[i].st = "stopped" => new[i].st = "stopped"
               /\ i \notin S => new[i] = instances[i]
    <2>1. Closed(i) \in Seq(Instance) /\ Len(Closed(i)) = Len(instances)
      BY ClosedEffect DEF SameButState
    <2>2. Closed(i)[i] \in Instance
      BY <1>1, <2>1
    <2>3. /\ Closed(i)[i].id = instances[i].id /\ Closed(i)[i].ver = instances[i].ver /\ Closed(i)[i].st # "open"
          /\ instances[i].st = "stopped" => Closed(i)[i].st = "stopped"
      BY ClosedEffect DEF SameButState
    <2>4. QED
      BY <1>2, <2>2, <2>3, InstanceType
  <1>4. new \in Seq(Instance) /\ Len(new) = Len(instances)
    BY <1>1, <1>2, <1>3
  <1>5. /\ SameButState(instances, new)
        /\ \A i \in 1..Len(instances) : new[i].st = "open" => i \notin S
        /\ \A i \in 1..Len(instances) \ S : new[i] = instances[i]
    BY <1>3, <1>4 DEF SameButState
  <1>6. QED
    BY <1>5 DEF new

LEMMA TargetType ==
  ASSUME TypeInv, Step("close") \/ Step("pop")
  PROVE  request.kind = "connector" /\ request.id \in Ids /\ request \in Requests /\ Target \in 0..Len(instances)
  <1>1. request.kind = "connector" /\ request \in Requests
    BY AtStep DEF Step, Suits, NoRequest
  <1>2. request.id \in Ids
    BY <1>1, RequestFields
  <1>3. QED
    BY <1>1, <1>2 DEF Target, TypeInv, LifeTypeOK

LEMMA ConnectorHandlersType ==
  ASSUME TypeInv, ConnectorWritten \/ ConnectorClosed \/ ConnectorPopped \/ ConnectorDevices
  PROVE  TypeInv'
  <1> USE DEF TypeInv
  <1>1. CASE ConnectorWritten
    <2>1. request.kind = "connector" /\ request \in Requests
      BY <1>1, AtStep DEF ConnectorWritten, Step, Suits, NoRequest
    <2>2. request.id \in Ids
      BY <2>1, RequestFields
    <2>3. LifeTypeOK'
      <3>1. /\ files' = [files EXCEPT ![request.id] = @ + 1] /\ configured' = configured \cup {request.id}
            /\ UNCHANGED <<instances, byId, byName, loaded, devices, unserved, late>>
        BY <1>1 DEF ConnectorWritten
      <3>2. files' \in [Ids -> Nat \ {0}]
        BY <2>2, <3>1 DEF LifeTypeOK
      <3>3. configured' \subseteq Ids
        BY <2>2, <3>1 DEF LifeTypeOK
      <3>4. QED
        BY <3>1, <3>2, <3>3 DEF LifeTypeOK
    <2>4. GoTo("close") \/ GoTo("load")
      BY <1>1 DEF ConnectorWritten
    <2>5. Suits(request, "close") /\ Suits(request, "load") /\ {"close", "load"} \subseteq ConfiguratorSteps
      BY <2>1 DEF Suits, ConfiguratorSteps
    <2>6. SettingsTypeOK' /\ queue' = queue /\ request' = request
      BY <1>1, SettingsKept DEF ConnectorWritten
    <2>7. QED
      BY <2>3, <2>4, <2>5, <2>6, HandlerGoesOnType
  <1>2. CASE ConnectorClosed
    <2>1. /\ request.kind = "connector" /\ Target \in 0..Len(instances)
          /\ UNCHANGED <<byId, byName, configured, files, loaded, unserved, late, rcVars>>
      BY <1>2, TargetType DEF ConnectorClosed
    <2>2. SettingsTypeOK' /\ queue' = queue /\ request' = request
      BY <2>1, SettingsKept
    <2>3. LifeTypeOK'
      <3>1. CASE Target # None /\ CloseCall(Target)
        BY <2>1, <3>1, CloseCallEffect, SameButStateType
      <3>2. CASE UNCHANGED <<instances, devices>>
        BY <2>1, <3>2 DEF LifeTypeOK
      <3>3. QED
        BY <1>2, <3>1, <3>2 DEF ConnectorClosed
    <2>4. CASE GoTo("pop") \/ GoTo("load")
      <3>1. Suits(request, "pop") /\ Suits(request, "load") /\ {"pop", "load"} \subseteq ConfiguratorSteps
        BY <2>1 DEF Suits, ConfiguratorSteps
      <3>2. QED
        BY <2>2, <2>3, <2>4, <3>1, HandlerGoesOnType
    <2>5. CASE actor' = actor
      BY <2>2, <2>3, <2>5 DEF ActorTypeOK, RequestTypeOK, Step
    <2>6. QED
      BY <1>2, <2>4, <2>5 DEF ConnectorClosed
  <1>3. CASE ConnectorPopped
    <2>1. request.id \in Ids
      BY <1>3, TargetType DEF ConnectorPopped
    <2>2. LifeTypeOK'
      <3>1. byId' \in [Ids -> 0..Len(instances)] /\ byName' \in [Ids -> 0..Len(instances)]
        <4>1. 0 \in 0..Len(instances) /\ byId \in [Ids -> 0..Len(instances)] /\ byName \in [Ids -> 0..Len(instances)]
          BY DEF LifeTypeOK
        <4>2. CASE byId[request.id] # None
          BY <1>3, <2>1, <4>1, <4>2 DEF ConnectorPopped
        <4>3. CASE byId[request.id] = None
          BY <1>3, <2>1, <4>1, <4>3 DEF ConnectorPopped
        <4>4. QED
          BY <4>2, <4>3
      <3>2. UNCHANGED <<instances, devices, configured, files, loaded, unserved, late>>
        BY <1>3 DEF ConnectorPopped
      <3>3. QED
        BY <3>1, <3>2 DEF LifeTypeOK
    <2>3. SettingsTypeOK' /\ queue' = queue /\ request' = request
      BY <1>3, SettingsKept DEF ConnectorPopped
    <2>4. GoTo("load") /\ Suits(request, "load") /\ "load" \in ConfiguratorSteps
      BY <1>3 DEF ConnectorPopped, Suits, ConfiguratorSteps
    <2>5. QED
      BY <2>2, <2>3, <2>4, HandlerGoesOnType
  <1>4. CASE ConnectorDevices
    <2>1. SettingsTypeOK' /\ queue' = queue /\ request' = request
      BY <1>4, SettingsKept DEF ConnectorDevices
    <2>2. devices' \in [Ids -> 0..Len(instances)]
      <3>1. CASE request.kind = "connector" /\ byId[request.id] # None
        <4>1. request.id \in Ids
          BY <3>1, AtStep, RequestFields DEF NoRequest
        <4>2. byId[request.id] \in 0..Len(instances)
          BY <4>1 DEF LifeTypeOK
        <4>3. devices' = Repointed(request.id, byId[request.id])
          BY <1>4, <3>1 DEF ConnectorDevices
        <4>4. QED
          BY <4>1, <4>2, <4>3 DEF Repointed, LifeTypeOK
      <3>2. CASE ~(request.kind = "connector" /\ byId[request.id] # None)
        BY <1>4, <3>2 DEF ConnectorDevices, LifeTypeOK
      <3>3. QED
        BY <3>1, <3>2
    <2>3. LifeTypeOK'
      BY <1>4, <2>2 DEF LifeTypeOK, ConnectorDevices
    <2>4. GoTo("finish") /\ Suits(request, "finish") /\ "finish" \in ConfiguratorSteps
      BY <1>4 DEF ConnectorDevices, Suits, ConfiguratorSteps
    <2>5. QED
      BY <2>1, <2>3, <2>4, HandlerGoesOnType
  <1>5. QED
    BY <1>1, <1>2, <1>3, <1>4

LEMMA AllClosedType ==
  ASSUME TypeInv, ActiveUpdate \/ GrpcUpdate
  PROVE  TypeInv'
  <1> USE DEF TypeInv
  <1>1. CASE ActiveUpdate
    <2>1. PICK closed : instances' = CloseAll(closed)
      BY <1>1 DEF ActiveUpdate, CloseAll
    <2>2. instances' \in Seq(Instance) /\ Len(instances') = Len(instances)
      BY <2>1, CloseAllEffect DEF SameButState
    <2>3. /\ byId' \in [Ids -> 0..Len(instances)] /\ byName' \in [Ids -> 0..Len(instances)]
          /\ devices' \in [Ids -> 0..Len(instances)] /\ configured' \subseteq Ids
      BY <1>1 DEF ActiveUpdate, LifeTypeOK
    <2>4. LifeTypeOK'
      BY <1>1, <2>2, <2>3 DEF LifeTypeOK, ActiveUpdate
    <2>5. SettingsTypeOK' /\ queue' = queue /\ request' = request
      BY <1>1, SettingsKept DEF ActiveUpdate
    <2>6. GoTo("finish") /\ Suits(request, "finish") /\ "finish" \in ConfiguratorSteps
      BY <1>1 DEF ActiveUpdate, Suits, ConfiguratorSteps
    <2>7. QED
      BY <2>4, <2>5, <2>6, HandlerGoesOnType
  <1>2. CASE GrpcUpdate
    <2>1. PICK closed : instances' = CloseAll(closed)
      BY <1>2 DEF GrpcUpdate, CloseAll
    <2>2. SameButState(instances, instances')
      BY <2>1, CloseAllEffect
    <2>3. LifeTypeOK'
      BY <1>2, <2>2, SameButStateType DEF LifeTypeOK, GrpcUpdate
    <2>4. SettingsTypeOK' /\ queue' = queue /\ request' = request
      BY <1>2, SettingsKept DEF GrpcUpdate
    <2>5. GoTo("load") /\ Suits(request, "load") /\ "load" \in ConfiguratorSteps
      BY <1>2 DEF GrpcUpdate, Suits, ConfiguratorSteps
    <2>6. QED
      BY <2>3, <2>4, <2>5, HandlerGoesOnType
  <1>3. QED
    BY <1>1, <1>2

LEMMA OtherStepsType ==
  ASSUME TypeInv, StillFree,
         \/ LoadAndStart(Configurator, "devices") /\ UNCHANGED <<up, rcVars>>
         \/ WatcherRuns \/ Environment \/ UNCHANGED vars
  PROVE  TypeInv'
  <1> USE DEF TypeInv
  <1>1. CASE LoadAndStart(Configurator, "devices") /\ UNCHANGED <<up, rcVars>>
    <2>1. LifeTypeOK' /\ ActorTypeOK' /\ actor'[Configurator].step \in {"start", "construct", "devices"}
      BY <1>1, LoadAndStartType DEF ConfiguratorSteps
    <2>2. RequestTypeOK' /\ SettingsTypeOK'
      BY <1>1, <2>1, SettingsKept DEF RequestTypeOK, Step
    <2>3. QED
      BY <2>1, <2>2
  <1>2. CASE WatcherRuns
    <2>1. LifeTypeOK' /\ ActorTypeOK' /\ actor'[Configurator] = actor[Configurator]
      <3>1. CASE LoadAndStart(Watcher, "idle")
        BY <3>1, LoadAndStartType DEF ConfiguratorSteps
      <3>2. QED
        BY <1>2, <3>1, WatcherOwnType DEF WatcherRuns, WatcherStep
    <2>2. RequestTypeOK' /\ SettingsTypeOK'
      BY <1>2, <2>1, SettingsKept DEF RequestTypeOK, Step, WatcherRuns
    <2>3. QED
      BY <2>1, <2>2
  <1>3. CASE Environment
    <2>1. LifeTypeOK'
      <3>1. CASE RequestReceived
        BY <3>1 DEF RequestReceived, lifeVars, LifeTypeOK
      <3>2. CASE LinkChanges
        BY <3>2 DEF LinkChanges, lifeVars, LifeTypeOK
      <3>3. QED
        BY <1>3, <3>1, <3>2, InstanceStopsEffect, InstanceAddsDeviceType, FileEditedType DEF Environment
    <2>2. actor' = actor /\ ActorTypeOK'
      BY <1>3 DEF Environment, ActorTypeOK, RequestReceived, LinkChanges, FileEdited, InstanceStops, InstanceAddsDevice, lifeVars
    <2>3. CASE RequestReceived
      <3>1. queue' \in Seq(Requests)
        <4>1. PICK r \in Requests : queue' = Append(queue, r)
          BY <2>3 DEF RequestReceived
        <4>2. QED
          BY <4>1 DEF RequestTypeOK
      <3>2. RequestTypeOK' /\ SettingsTypeOK'
        BY <2>2, <2>3, <3>1 DEF RequestTypeOK, SettingsTypeOK, Step, RequestReceived, generalVars
      <3>3. QED
        BY <2>1, <2>2, <3>2
    <2>4. CASE UNCHANGED rcVars
      BY <2>1, <2>2, <2>4, SettingsKept DEF RequestTypeOK, Step
    <2>5. QED
      BY <1>3, <2>3, <2>4 DEF Environment
  <1>4. CASE UNCHANGED vars
    <2>1. UNCHANGED <<lifeVars, rcVars>>
      BY <1>4 DEF vars
    <2>2. LifeTypeOK' /\ ActorTypeOK'
      BY <2>1 DEF lifeVars, LifeTypeOK, ActorTypeOK
    <2>3. RequestTypeOK' /\ SettingsTypeOK'
      BY <2>1, SettingsKept DEF RequestTypeOK, Step, lifeVars
    <2>4. QED
      BY <2>2, <2>3
  <1>5. QED
    BY <1>1, <1>2, <1>3, <1>4

LEMMA TypeNext ==
  ASSUME TypeInv, StillFree, [Next]_vars
  PROVE  TypeInv'
  BY TakeRequestType, SimpleHandlersType, ConnectorHandlersType, AllClosedType, OtherStepsType
     DEF Next, ConfiguratorStep, ConnectorUpdate

(* The settings saved, and the storage.                                     *)
LEMMA SettingsUntouched ==
  ASSUME SettingsFollow, BusyWhileReplacing, UNCHANGED <<client, general, saved, storage, fellBack, raised>>,
         \/ UNCHANGED <<request, inProcess>> /\ actor'[Configurator] = actor[Configurator]
         \/ /\ ~Step("apply") /\ ~Step("apply")' /\ ~Step("new storage") /\ ~Step("new storage")'
            /\ inProcess' \/ Step("idle")' \/ (inProcess' = inProcess /\ ~Step("idle"))
  PROVE  SettingsFollow' /\ BusyWhileReplacing'
  <1>1. SettingsFollow'
    BY DEF SettingsFollow, Step
  <1>2. BusyWhileReplacing'
    BY DEF BusyWhileReplacing, Step
  <1>3. QED
    BY <1>1, <1>2

ConnectorSteps ==
    {"modified", "write", "close", "pop", "load", "start", "construct", "devices", "active", "grpc", "logs"}

LEMMA ConnectorStepsTaken ==
  ASSUME ActorTypeOK, LifeTypeOK, StillFree, ConnectorUpdate \/ ActiveUpdate \/ GrpcUpdate \/ LogsUpdate
  PROVE  /\ UNCHANGED rcVars
         /\ actor[Configurator].step \in ConnectorSteps /\ actor'[Configurator].step \in ConnectorSteps \cup {"finish"}
  <1>1. CASE LoadAndStart(Configurator, "devices") /\ UNCHANGED <<up, rcVars>>
    <2>1. actor[Configurator].step \in {"load", "start", "construct"}
      BY <1>1 DEF LoadAndStart, LoadConnectors, StartNext, StartConstructed, StartRaises
    <2>2. actor'[Configurator].step \in {"start", "construct", "devices"}
      BY <1>1, LoadAndStartType DEF ConfiguratorSteps
    <2>3. QED
      BY <1>1, <2>1, <2>2 DEF ConnectorSteps
  <1>2. CASE \/ ConnectorModified \/ ConnectorWritten \/ ConnectorClosed \/ ConnectorPopped \/ ConnectorDevices
             \/ ActiveUpdate \/ GrpcUpdate \/ LogsUpdate
    <2>1. UNCHANGED rcVars /\ actor[Configurator].step \in ConnectorSteps
      BY <1>2 DEF ConnectorModified, ConnectorWritten, ConnectorClosed, ConnectorPopped, ConnectorDevices,
                  ActiveUpdate, GrpcUpdate, LogsUpdate, Step, ConnectorSteps
    <2>2. \/ actor' = actor
          \/ \E s \in {"finish", "devices", "write", "close", "load", "pop"} : GoTo(s)
      BY <1>2 DEF ConnectorModified, ConnectorWritten, ConnectorClosed, ConnectorPopped, ConnectorDevices,
                  ActiveUpdate, GrpcUpdate, LogsUpdate
    <2>3. ASSUME NEW s \in {"finish", "devices", "write", "close", "load", "pop"}, GoTo(s)
          PROVE  actor'[Configurator].step = s
      <3>1. s \in ConfiguratorSteps
        BY DEF ConfiguratorSteps
      <3>2. QED
        BY <2>3, <3>1, GoToEffect
    <2>4. QED
      BY <2>1, <2>2, <2>3 DEF ConnectorSteps
  <1>3. QED
    BY <1>1, <1>2 DEF ConnectorUpdate

LEMMA WatcherLeavesConfigurator ==
  ASSUME ActorTypeOK, LifeTypeOK, StillFree, WatcherRuns \/ Environment \/ UNCHANGED vars
  PROVE  actor'[Configurator] = actor[Configurator]
  <1>1. CASE WatcherRuns
    <2>1. CASE LoadAndStart(Watcher, "idle")
      BY <2>1, LoadAndStartType DEF ConfiguratorSteps
    <2>2. QED
      BY <1>1, <2>1, WatcherOwnType DEF WatcherRuns, WatcherStep
  <1>2. CASE Environment
    BY <1>2 DEF Environment, RequestReceived, LinkChanges, FileEdited, InstanceStops, InstanceAddsDevice, lifeVars
  <1>3. CASE UNCHANGED vars
    BY <1>3 DEF vars, lifeVars
  <1>4. QED
    BY <1>1, <1>2, <1>3

LEMMA SettingsNext ==
  ASSUME TypeInv, SettingsFollow, BusyWhileReplacing, StillFree, [Next]_vars
  PROVE  SettingsFollow' /\ BusyWhileReplacing'
  <1> USE DEF TypeInv
  <1>1. CASE TakeRequest
    <2>1. queue \in Seq(Requests) /\ queue # <<>>
      BY <1>1 DEF RequestTypeOK, TakeRequest
    <2>2. Head(queue) \in Requests
      BY <2>1, HeadTailProperties
    <2>3. Handler(Head(queue).kind) \in ConfiguratorSteps \ {"idle", "apply", "new storage"}
      BY <2>2, RequestFields DEF Handler, ConfiguratorSteps
    <2>4. actor'[Configurator].step \in ConfiguratorSteps \ {"idle", "apply", "new storage"}
      BY <1>1, <2>3, GoToEffect DEF TakeRequest
    <2>5. /\ UNCHANGED <<client, general, saved, storage, fellBack, raised>> /\ inProcess' = TRUE
          /\ actor[Configurator].step = "idle"
      BY <1>1 DEF TakeRequest, generalVars, Step
    <2>6. QED
      BY <2>4, <2>5, SettingsUntouched DEF Step
  <1>2. CASE Finish
    <2>1. actor'[Configurator].step = "idle" /\ actor[Configurator].step = "finish"
      BY <1>2, GoToEffect DEF Finish, ConfiguratorSteps, Step
    <2>2. UNCHANGED <<client, general, saved, storage, fellBack, raised>>
      BY <1>2 DEF Finish, generalVars
    <2>3. QED
      BY <2>1, <2>2, SettingsUntouched DEF Step
  <1>3. CASE ConnectorUpdate \/ ActiveUpdate \/ GrpcUpdate \/ LogsUpdate
    <2>1. UNCHANGED <<client, general, saved, storage, fellBack, raised, inProcess>>
      BY <1>3, ConnectorStepsTaken DEF rcVars
    <2>2. /\ ~Step("apply") /\ ~Step("apply")' /\ ~Step("new storage") /\ ~Step("new storage")' /\ ~Step("idle")
      BY <1>3, ConnectorStepsTaken DEF ConnectorSteps, Step
    <2>3. QED
      BY <2>1, <2>2, SettingsUntouched
  <1>4. CASE WatcherRuns \/ Environment \/ UNCHANGED vars
    <2>1. UNCHANGED <<client, general, saved, storage, fellBack, raised, inProcess, request>>
      BY <1>4 DEF WatcherRuns, Environment, RequestReceived, vars, rcVars, generalVars
    <2>2. QED
      BY <1>4, <2>1, WatcherLeavesConfigurator, SettingsUntouched
  <1>5. CASE StorageStopped
    <2>1. actor'[Configurator].step = "new storage" /\ actor[Configurator].step = "stop storage"
      BY <1>5, GoToEffect DEF StorageStopped, ConfiguratorSteps, Step
    <2>2. SettingsFollow'
      BY <1>5, <2>1 DEF StorageStopped, SettingsFollow, Step, generalVars
    <2>3. BusyWhileReplacing'
      BY <1>5, <2>1 DEF StorageStopped, BusyWhileReplacing, Step, rcRest
    <2>4. QED
      BY <2>2, <2>3
  <1>6. CASE StorageReplaced
    <2>1. CASE storage' = "running" /\ GoTo("finish") /\ UNCHANGED <<lifeRest, up, rcRest, raised>>
      <3>1. actor'[Configurator].step = "finish" /\ actor[Configurator].step = "new storage"
        BY <1>6, <2>1, GoToEffect DEF StorageReplaced, ConfiguratorSteps, Step
      <3>2. SettingsFollow'
        BY <1>6, <2>1, <3>1 DEF StorageReplaced, SettingsFollow, Step, generalVars
      <3>3. BusyWhileReplacing'
        BY <1>6, <2>1, <3>1 DEF StorageReplaced, BusyWhileReplacing, Step, rcRest
      <3>4. QED
        BY <3>2, <3>3
    <2>2. CASE HandlerRaises
      <3>1. actor'[Configurator].step = "idle" /\ actor[Configurator].step = "new storage"
        BY <1>6, <2>2, GoToEffect DEF StorageReplaced, HandlerRaises, ConfiguratorSteps, Step
      <3>2. raised' /\ inProcess' = inProcess
        BY <2>2 DEF HandlerRaises
      <3>3. QED
        BY <3>1, <3>2 DEF SettingsFollow, BusyWhileReplacing, Step
    <2>3. QED
      BY <1>6, <2>1, <2>2 DEF StorageReplaced
  <1>7. CASE ConnectionCompared
    <2>1. /\ actor'[Configurator].step \in {"apply", "connect"} /\ actor[Configurator].step = "connection"
          /\ actor'[Configurator].step = "apply" => request.to = general
      BY <1>7, GoToEffect DEF ConnectionCompared, ConfiguratorSteps, Step, SameConnection
    <2>2. UNCHANGED <<client, general, saved, storage, fellBack, raised, inProcess, request>>
      BY <1>7 DEF ConnectionCompared, rcRest
    <2>3. SettingsFollow'
      BY <2>1, <2>2 DEF SettingsFollow, Step
    <2>4. BusyWhileReplacing'
      BY <2>1, <2>2 DEF BusyWhileReplacing, Step
    <2>5. QED
      BY <2>3, <2>4
  <1>8. CASE ConnectionTried
    <2>1. UNCHANGED <<general, saved, storage, raised, inProcess, request>> /\ actor[Configurator].step = "connect"
      BY <1>8 DEF ConnectionTried, rcRest, Step
    <2>2. CASE UNCHANGED <<client, up, fellBack, actor>>
      BY <2>1, <2>2, SettingsUntouched
    <2>3. CASE GoTo("apply") /\ fellBack' = (fellBack \/ ~useNew) /\ client' = IF useNew THEN request.to ELSE client
      <3>1. actor'[Configurator].step = "apply"
        BY <2>3, GoToEffect DEF ConfiguratorSteps
      <3>2. SettingsFollow'
        <4>1. SUFFICES ASSUME ~fellBack', ~raised' PROVE general' = saved' /\ client' = request'.to
          BY <3>1 DEF SettingsFollow, Step
        <4>2. ~fellBack /\ useNew /\ ~raised
          BY <2>1, <2>3, <4>1
        <4>3. QED
          BY <2>1, <2>3, <4>2 DEF SettingsFollow
      <3>3. BusyWhileReplacing'
        BY <2>1, <3>1 DEF BusyWhileReplacing, Step
      <3>4. QED
        BY <3>2, <3>3
    <2>4. QED
      BY <1>8, <2>2, <2>3 DEF ConnectionTried
  <1>9. CASE ConnectionReverted
    <2>1. actor'[Configurator].step = "apply" /\ actor[Configurator].step = "connect"
      BY <1>9, GoToEffect DEF ConnectionReverted, ConfiguratorSteps, Step
    <2>2. /\ UNCHANGED <<general, saved, storage, fellBack, raised, inProcess>>
          /\ client' = general /\ request' = [request EXCEPT !.to = general]
      BY <1>9 DEF ConnectionReverted
    <2>3. request \in [kind : {"general"}, to : Settings]
      BY <2>1, AtStep, RequestFields DEF Suits, NoRequest
    <2>4. request'.to = general
      BY <2>2, <2>3
    <2>5. SettingsFollow'
      BY <2>1, <2>2, <2>4 DEF SettingsFollow, Step
    <2>6. BusyWhileReplacing'
      BY <2>1, <2>2 DEF BusyWhileReplacing, Step
    <2>7. QED
      BY <2>5, <2>6
  <1>10. CASE GeneralApplied
    <2>1. PICK outcome \in OtherSections :
            /\ general' = IF outcome \in {"applied", "missing"} THEN request.to ELSE general
            /\ saved' = IF outcome = "applied" THEN request.to ELSE saved
            /\ IF outcome = "raises" THEN HandlerRaises
               ELSE /\ raised' = (raised \/ outcome # "applied") /\ GoTo("finish")
                    /\ UNCHANGED <<lifeRest, up, rcRest>>
      BY <1>10 DEF GeneralApplied
    <2>2. UNCHANGED <<client, storage, fellBack>> /\ actor[Configurator].step = "apply"
      BY <1>10 DEF GeneralApplied, Step
    <2>3. inProcess' = inProcess /\ actor'[Configurator].step \in {"idle", "finish"}
      <3>1. CASE HandlerRaises
        BY <3>1, GoToEffect DEF HandlerRaises, ConfiguratorSteps
      <3>2. CASE GoTo("finish") /\ UNCHANGED rcRest
        BY <3>2, GoToEffect DEF rcRest, ConfiguratorSteps
      <3>3. QED
        BY <2>1, <3>1, <3>2
    <2>4. ~raised' => outcome = "applied" /\ ~raised
      <3>1. CASE outcome = "raises"
        BY <2>1, <3>1 DEF HandlerRaises
      <3>2. CASE outcome # "raises"
        BY <2>1, <3>2
      <3>3. QED
        BY <3>1, <3>2
    <2>5. SettingsFollow'
      BY <2>1, <2>2, <2>3, <2>4 DEF SettingsFollow, Step
    <2>6. BusyWhileReplacing'
      BY <2>2, <2>3, <2>4 DEF BusyWhileReplacing, Step
    <2>7. QED
      BY <2>5, <2>6
  <1>11. QED
    BY <1>1, <1>2, <1>3, <1>4, <1>5, <1>6, <1>7, <1>8, <1>9, <1>10 DEF Next, ConfiguratorStep, GeneralUpdate

(* Who is registered, what is free to start, and whose the devices are.     *)
Unstarted(a) == actor'[a].step = "construct" => actor'[a] = actor[a]
Fewer(old, new) == \A c \in Ids : new[c] \in {old[c], None}

LEMMA SameIsSame == ASSUME LifeTypeOK, instances' = instances PROVE SameButState(instances, instances')
  <1>1. instances \in Seq(Instance)
    BY DEF LifeTypeOK
  <1>2. QED
    BY <1>1 DEF SameButState

LEMMA StillFreeKept ==
  ASSUME LifeTypeOK, ActorTypeOK, StillFree, SameButState(instances, instances'), Fewer(byId, byId'),
         ~overlap' => ~overlap, \A a \in Actors : Unstarted(a)
  PROVE  StillFree'
  <1> SUFFICES ASSUME NEW a \in Actors, actor'[a].step = "construct"
               PROVE  actor'[a].todo # <<>> /\ (~overlap' => MayStart(Head(actor[a].todo))')
    BY DEF StillFree, Unstarted
  <1>1. actor'[a] = actor[a] /\ actor[a].todo \in Seq(Ids) /\ actor[a].todo # <<>>
    BY DEF Unstarted, StillFree, ActorTypeOK
  <1> DEFINE c == Head(actor[a].todo)
  <1>2. c \in Ids
    BY <1>1, TodoTail
  <1>3. byId[c] \in 0..Len(instances) /\ byId'[c] \in {byId[c], None}
    BY <1>2 DEF LifeTypeOK, Fewer
  <1>4. ~overlap => (byId[c] # None => instances[byId[c]].st = "stopped")
    BY <1>1 DEF StillFree, MayStart, IsStopped
  <1>5. ASSUME ~overlap', byId'[c] # None
        PROVE  instances'[byId'[c]].st = "stopped"
    <2>1. byId'[c] = byId[c] /\ byId[c] \in 1..Len(instances) /\ instances[byId[c]].st = "stopped"
      BY <1>3, <1>4, <1>5
    <2>2. QED
      BY <2>1 DEF SameButState
  <1>6. QED
    BY <1>1, <1>5 DEF MayStart, IsStopped

LEMMA RegisteredKept ==
  ASSUME LifeTypeOK, Registered, SameButState(instances, instances'), UNCHANGED <<byId, byName>>,
         ~overlap' => ~overlap
  PROVE  Registered'
  <1>1. ASSUME NEW c \in Ids
        PROVE  byId[c] \in 0..Len(instances) /\ byName[c] \in 0..Len(instances)
    BY DEF LifeTypeOK
  <1>2. \A c \in Ids : byId'[c] # None => instances'[byId'[c]].id = c
    BY <1>1 DEF Registered, SameButState
  <1>3. \A c \in Ids : byName'[c] # None => instances'[byName'[c]].id = c
    BY <1>1 DEF Registered, SameButState
  <1>4. ASSUME ~overlap', NEW i \in 1..Len(instances'), instances'[i].st = "open"
        PROVE  byId'[instances'[i].id] = i /\ byName'[instances'[i].id] = i
    BY <1>4 DEF Registered, SameButState
  <1>5. QED
    BY <1>2, <1>3, <1>4 DEF Registered

LEMMA PoppedKept ==
  ASSUME TypeInv, ClosedIsPopped, SameButState(instances, instances'), UNCHANGED <<byId, byName>>,
         ~overlap' => ~overlap,
         Step("pop")' => actor'[Configurator] = actor[Configurator] /\ request' = request
  PROVE  ClosedIsPopped'
  <1> SUFFICES ASSUME Step("pop")', ~overlap', Target' # None PROVE instances'[Target'].st # "open"
    BY DEF ClosedIsPopped
  <1>1. Step("pop") /\ request' = request
    BY DEF Step
  <1>2. Target' = Target /\ Target \in 0..Len(instances)
    BY <1>1, TargetType DEF Target
  <1>3. instances[Target].st # "open"
    BY <1>1, <1>2 DEF ClosedIsPopped
  <1>4. QED
    BY <1>2, <1>3 DEF SameButState

LEMMA DevicesKept ==
  ASSUME LifeTypeOK, DevicesFollow, Fewer(byId, byId'), Fewer(devices, devices'), late' = late
  PROVE  DevicesFollow'
  BY DEF DevicesFollow, Fewer, LifeTypeOK

\* What serves or is about to be started does or is so after a step that closes
\* nothing and takes nobody's work away.
ServingKept ==
    \A i \in 1..Len(instances) : instances[i].st = "open" => instances'[i] = instances[i]
WorkKept(a) ==
    \/ actor'[a] = actor[a]
    \/ actor[a].step \notin {"close", "pop", "load", "start", "construct"}

LEMMA ServedKept ==
  ASSUME LifeTypeOK, ServedOrPending, SameButState(instances, instances'), ServingKept,
         UNCHANGED <<byId, configured, loaded, unserved>>, ~overlap' => ~overlap,
         WorkKept(Configurator), WorkKept(Watcher)
  PROVE  ServedOrPending'
  <1> SUFFICES ASSUME ~overlap', NEW c \in configured \ (unserved \cup GrpcConnectors)
               PROVE  Serves(c)' \/ Pending(c)'
    BY DEF ServedOrPending
  <1>1. c \in Ids /\ byId[c] \in 0..Len(instances) /\ (Serves(c) \/ Pending(c))
    BY DEF LifeTypeOK, ServedOrPending
  <1>2. CASE Serves(c)
    BY <1>1, <1>2 DEF Serves, ServingKept
  <1>3. CASE Pending(c)
    <2>1. LeftClosed(c) => LeftClosed(c)'
      BY <1>1 DEF LeftClosed, WorkKept, SameButState
    <2>2. WillLoad => WillLoad'
      BY DEF WillLoad, Step, WorkKept
    <2>3. \A a \in Actors : ToStart(a, c) => ToStart(a, c)'
      BY DEF ToStart, WorkKept
    <2>4. actor[Watcher].step = "load" => actor'[Watcher].step = "load"
      BY DEF WorkKept
    <2>5. QED
      BY <1>3, <2>1, <2>2, <2>3, <2>4 DEF Pending
  <1>4. QED
    BY <1>1, <1>2, <1>3

\* Steps that touch nothing of the connectors, and instances that end.
LEMMA ElsewhereKeepsLife ==
  ASSUME TypeInv, LifeInv, SameButState(instances, instances'), ServingKept,
         UNCHANGED <<byId, byName, configured, loaded, devices, overlap, unserved, late>>,
         actor'[Watcher] = actor[Watcher],
         \/ actor'[Configurator] = actor[Configurator] /\ request' = request
         \/ {actor[Configurator].step, actor'[Configurator].step} \cap {"close", "pop", "load", "start", "construct"} = {}
  PROVE  LifeInv'
  <1> USE DEF LifeInv, TypeInv
  <1>1. Registered'
    BY RegisteredKept
  <1>2. Fewer(byId, byId') /\ Fewer(devices, devices')
    BY DEF Fewer
  <1>3. StillFree'
    BY <1>2, StillFreeKept DEF Unstarted
  <1>4. ClosedIsPopped'
    <2>1. Step("pop")' => actor'[Configurator] = actor[Configurator] /\ request' = request
      BY DEF Step
    <2>2. QED
      BY <2>1, PoppedKept
  <1>5. DevicesFollow'
    BY <1>2, DevicesKept
  <1>6. Loaded'
    BY DEF Loaded, WillLoad, Step
  <1>7. ServedOrPending'
    BY ServedKept DEF WorkKept
  <1>8. QED
    BY <1>1, <1>3, <1>4, <1>5, <1>6, <1>7

LEMMA SimpleStepsKeepLife ==
  ASSUME TypeInv, LifeInv,
         \/ TakeRequest \/ Finish \/ ConnectorModified \/ LogsUpdate \/ StorageStopped \/ StorageReplaced
         \/ GeneralUpdate
  PROVE  LifeInv'
  <1>1. /\ UNCHANGED lifeRest
        /\ actor[Configurator].step \notin {"close", "pop", "load", "start", "construct"}
    BY DEF TakeRequest, Finish, ConnectorModified, LogsUpdate, StorageStopped, StorageReplaced, GeneralUpdate,
           ConnectionCompared, ConnectionTried, ConnectionReverted, GeneralApplied, HandlerRaises, Step
  <1>2. ASSUME NEW s \in ConfiguratorSteps \ {"close", "pop", "load", "start", "construct"}, GoTo(s)
        PROVE  actor'[Watcher] = actor[Watcher] /\ actor'[Configurator].step = s
    BY <1>2, GoToEffect DEF TypeInv
  <1>4. \/ UNCHANGED <<actor, request>>
        \/ \E s \in ConfiguratorSteps \ {"close", "pop", "load", "start", "construct"} : GoTo(s)
    <2>1. {"idle", "devices", "write", "finish", "apply", "connect", "new storage"} \subseteq
            ConfiguratorSteps \ {"close", "pop", "load", "start", "construct"}
      BY DEF ConfiguratorSteps
    <2>2. CASE TakeRequest
      <3>1. queue \in Seq(Requests) /\ queue # <<>>
        BY <2>2 DEF TypeInv, RequestTypeOK, TakeRequest
      <3>2. Head(queue) \in Requests
        BY <3>1, HeadTailProperties
      <3>3. Handler(Head(queue).kind) \in ConfiguratorSteps \ {"close", "pop", "load", "start", "construct"}
        BY <3>2, RequestFields DEF Handler, ConfiguratorSteps
      <3>4. QED
        BY <2>2, <3>3 DEF TakeRequest
    <2>3. CASE Finish \/ ConnectorModified \/ LogsUpdate \/ StorageStopped
      BY <2>1, <2>3 DEF Finish, ConnectorModified, LogsUpdate, StorageStopped
    <2>4. CASE StorageReplaced
      BY <2>1, <2>4 DEF StorageReplaced, HandlerRaises
    <2>5. CASE ConnectionCompared \/ ConnectionReverted
      BY <2>1, <2>5 DEF ConnectionCompared, ConnectionReverted
    <2>6. CASE ConnectionTried
      BY <2>1, <2>6 DEF ConnectionTried, rcRest
    <2>7. CASE GeneralApplied
      BY <2>1, <2>7 DEF GeneralApplied, HandlerRaises
    <2>8. QED
      BY <2>2, <2>3, <2>4, <2>5, <2>6, <2>7 DEF GeneralUpdate
  <1>5. SameButState(instances, instances')
    BY <1>1, SameIsSame DEF TypeInv, lifeRest
  <1>6. UNCHANGED <<instances, byId, byName, configured, loaded, devices, overlap, unserved, late>>
    BY <1>1 DEF lifeRest
  <1>7. ServingKept
    BY <1>6 DEF ServingKept
  <1>8. CASE UNCHANGED <<actor, request>>
    BY <1>5, <1>6, <1>7, <1>8, ElsewhereKeepsLife
  <1>9. CASE \E s \in ConfiguratorSteps \ {"close", "pop", "load", "start", "construct"} : GoTo(s)
    <2>1. actor'[Watcher] = actor[Watcher] /\ actor'[Configurator].step \notin {"close", "pop", "load", "start", "construct"}
      BY <1>2, <1>9
    <2>2. QED
      BY <1>1, <1>5, <1>6, <1>7, <2>1, ElsewhereKeepsLife
  <1>10. QED
    BY <1>4, <1>8, <1>9

LEMMA EnvironmentKeepsLife ==
  ASSUME TypeInv, LifeInv, Environment \/ UNCHANGED vars
  PROVE  LifeInv'
  <1>1. CASE RequestReceived \/ ((LinkChanges \/ FileEdited) /\ UNCHANGED rcVars) \/ UNCHANGED vars
    <2>1. UNCHANGED <<instances, byId, byName, configured, loaded, devices, overlap, unserved, late, actor, request>>
      BY <1>1 DEF RequestReceived, LinkChanges, FileEdited, vars, lifeVars, rcVars
    <2>2. SameButState(instances, instances') /\ ServingKept
      BY <2>1, SameIsSame DEF TypeInv, ServingKept
    <2>3. QED
      BY <2>1, <2>2, ElsewhereKeepsLife
  <1>2. CASE InstanceStops /\ UNCHANGED rcVars
    <2>1. UNCHANGED <<byId, byName, configured, loaded, devices, overlap, unserved, late, actor, request>>
      BY <1>2 DEF InstanceStops, rcVars
    <2>2. SameButState(instances, instances') /\ ServingKept
      BY <1>2, InstanceStopsEffect DEF TypeInv, ServingKept
    <2>3. QED
      BY <2>1, <2>2, ElsewhereKeepsLife
  <1>3. CASE InstanceAddsDevice /\ UNCHANGED rcVars
    <2>1. UNCHANGED <<instances, byId, byName, configured, loaded, overlap, unserved, actor, request>>
      BY <1>3 DEF InstanceAddsDevice, rcVars
    <2>2. SameButState(instances, instances') /\ ServingKept
      BY <2>1, SameIsSame DEF TypeInv, ServingKept
    <2>3. Registered' /\ ClosedIsPopped' /\ ServedOrPending' /\ Loaded'
      BY <2>1, <2>2, RegisteredKept, PoppedKept, ServedKept DEF LifeInv, TypeInv, WorkKept, Loaded, WillLoad, Step
    <2>4. StillFree'
      BY <2>1, <2>2, StillFreeKept DEF LifeInv, TypeInv, Fewer, Unstarted
    <2>5. DevicesFollow'
      <3>1. PICK i \in 1..Len(instances) :
                /\ devices' = [devices EXCEPT ![instances[i].id] = i]
                /\ late' = IF byId[instances[i].id] = i THEN late ELSE late \cup {instances[i].id}
        BY <1>3 DEF InstanceAddsDevice
      <3>2. SUFFICES ASSUME NEW c \in Ids \ late', byId[c] # None PROVE devices'[c] \in {None, byId[c]}
        BY <2>1 DEF DevicesFollow
      <3>3. c \notin late
        BY <3>1, <3>2
      <3>4. CASE c = instances[i].id
        BY <3>1, <3>2, <3>4 DEF TypeInv, LifeTypeOK
      <3>5. CASE c # instances[i].id
        BY <3>1, <3>2, <3>3, <3>5 DEF TypeInv, LifeTypeOK, LifeInv, DevicesFollow
      <3>6. QED
        BY <3>4, <3>5
    <2>6. QED
      BY <2>3, <2>4, <2>5 DEF LifeInv
  <1>4. QED
    BY <1>1, <1>2, <1>3 DEF Environment

\* Whoever is about to load everything has nothing to keep.
LEMMA LoadingServes ==
  ASSUME WillLoad'
  PROVE  Loaded' /\ ServedOrPending'
  BY DEF Loaded, ServedOrPending, Pending

LEMMA ConnectorHandlersKeepLife ==
  ASSUME TypeInv, LifeInv, ConnectorWritten \/ ConnectorClosed \/ GrpcUpdate
  PROVE  LifeInv'
  <1> USE DEF TypeInv, LifeInv
  <1>1. CASE ConnectorWritten
    <2>1. UNCHANGED <<instances, byId, byName, devices, overlap, unserved, late, request>>
      BY <1>1 DEF ConnectorWritten, rcVars
    <2>2. GoTo("close") \/ GoTo("load")
      BY <1>1 DEF ConnectorWritten
    <2>3. actor'[Configurator].step \in {"close", "load"} /\ actor'[Watcher] = actor[Watcher]
      BY <2>2, GoToEffect DEF ConfiguratorSteps
    <2>4. WillLoad' /\ ~Step("pop")'
      BY <2>3 DEF WillLoad, Step
    <2>5. SameButState(instances, instances')
      BY <2>1, SameIsSame
    <2>6. Registered' /\ ClosedIsPopped' /\ DevicesFollow'
      BY <2>1, <2>4, <2>5, RegisteredKept, PoppedKept, DevicesKept DEF Fewer
    <2>7. StillFree'
      BY <2>1, <2>3, <2>5, StillFreeKept DEF Fewer, Unstarted
    <2>8. QED
      BY <2>4, <2>6, <2>7, LoadingServes
  <1>2. CASE ConnectorClosed
    <2>1. /\ UNCHANGED <<byId, byName, configured, loaded, unserved, late, request>> /\ (~overlap' => ~overlap)
          /\ Step("close") /\ Target \in 0..Len(instances)
      BY <1>2, TargetType DEF ConnectorClosed, rcVars
    <2>2. Fewer(byId, byId')
      BY <2>1 DEF Fewer
    <2>3. CASE Target # None /\ CloseCall(Target) /\ UNCHANGED <<actor, overlap>>
      <3>1. SameButState(instances, instances') /\ Fewer(devices, devices')
        BY <2>1, <2>3, CloseCallEffect DEF Fewer
      <3>2. WillLoad' /\ ~Step("pop")' /\ \A a \in Actors : Unstarted(a)
        BY <2>1, <2>3 DEF WillLoad, Step, Unstarted
      <3>3. QED
        BY <2>1, <2>2, <3>1, <3>2, RegisteredKept, PoppedKept, DevicesKept, StillFreeKept, LoadingServes
    <2>4. CASE /\ UNCHANGED <<instances, devices>>
               /\ \/ Target # None /\ CloseOver(Target) /\ GoTo("pop") /\ UNCHANGED overlap
                  \/ GoTo("pop") /\ overlap'
                  \/ GoTo("load") /\ UNCHANGED overlap
      <3>1. SameButState(instances, instances') /\ Fewer(devices, devices')
        BY <2>4, SameIsSame DEF Fewer
      <3>2. actor'[Configurator].step \in {"pop", "load"} /\ actor'[Watcher] = actor[Watcher]
        BY <2>4, GoToEffect DEF ConfiguratorSteps
      <3>3. WillLoad' /\ \A a \in Actors : Unstarted(a)
        BY <3>2 DEF WillLoad, Step, Unstarted
      <3>4. ClosedIsPopped'
        <4>1. Target' = Target
          BY <2>1 DEF Target
        <4>2. CASE Target # None /\ CloseOver(Target)
          BY <2>4, <4>1, <4>2 DEF ClosedIsPopped, CloseOver
        <4>3. CASE overlap'
          BY <4>3 DEF ClosedIsPopped
        <4>4. CASE GoTo("load")
          <5>1. ~Step("pop")'
            BY <4>4, GoToEffect DEF ConfiguratorSteps, Step
          <5>2. QED
            BY <5>1 DEF ClosedIsPopped
        <4>5. QED
          BY <2>4, <4>2, <4>3, <4>4
      <3>5. QED
        BY <2>1, <2>2, <3>1, <3>3, <3>4, RegisteredKept, DevicesKept, StillFreeKept, LoadingServes
    <2>5. QED
      BY <1>2, <2>3, <2>4 DEF ConnectorClosed
  <1>3. CASE GrpcUpdate
    <2>1. UNCHANGED <<byId, byName, devices, overlap, unserved, late, request>> /\ GoTo("load")
      BY <1>3 DEF GrpcUpdate, rcVars
    <2>2. actor'[Configurator].step = "load" /\ actor'[Watcher] = actor[Watcher]
      BY <2>1, GoToEffect DEF ConfiguratorSteps
    <2>3. WillLoad' /\ ~Step("pop")'
      BY <2>2 DEF WillLoad, Step
    <2>4. PICK closed : instances' = CloseAll(closed)
      BY <1>3 DEF GrpcUpdate, CloseAll
    <2>5. SameButState(instances, instances')
      BY <2>4, CloseAllEffect
    <2>6. Registered' /\ ClosedIsPopped' /\ DevicesFollow'
      BY <2>1, <2>3, <2>5, RegisteredKept, PoppedKept, DevicesKept DEF Fewer
    <2>7. StillFree'
      BY <2>1, <2>2, <2>5, StillFreeKept DEF Fewer, Unstarted
    <2>8. QED
      BY <2>3, <2>6, <2>7, LoadingServes
  <1>4. QED
    BY <1>1, <1>2, <1>3

LEMMA PoppedKeepsLife ==
  ASSUME TypeInv, LifeInv, ConnectorPopped
  PROVE  LifeInv'
  <1> USE DEF TypeInv, LifeInv
  <1>1. /\ UNCHANGED <<instances, devices, configured, loaded, overlap, unserved, late>>
        /\ Step("pop") /\ request.id \in Ids /\ Target \in 0..Len(instances)
    BY TargetType DEF ConnectorPopped
  <1>2. actor'[Configurator].step = "load" /\ actor'[Watcher] = actor[Watcher]
    BY GoToEffect DEF ConnectorPopped, ConfiguratorSteps
  <1>3. WillLoad' /\ ~Step("pop")' /\ \A a \in Actors : Unstarted(a)
    BY <1>2 DEF WillLoad, Step, Unstarted
  <1>4. /\ \A c \in Ids : byId'[c] = IF c = request.id THEN None ELSE byId[c]
        /\ \A c \in Ids : byName'[c] \in {byName[c], None} /\ (c # request.id => byName'[c] = byName[c])
        /\ byId[request.id] # None => byName' = byName
    <2>1. CASE byId[request.id] # None
      BY <1>1, <2>1 DEF ConnectorPopped, LifeTypeOK
    <2>2. CASE byId[request.id] = None
      BY <1>1, <2>2 DEF ConnectorPopped, LifeTypeOK
    <2>3. QED
      BY <2>1, <2>2
  <1>5. Fewer(byId, byId') /\ Fewer(devices, devices') /\ SameButState(instances, instances')
    BY <1>1, <1>4, SameIsSame DEF Fewer
  <1>6. Registered'
    <2>1. \A c \in Ids : byId'[c] # None => instances'[byId'[c]].id = c
      BY <1>1, <1>4 DEF Registered
    <2>2. \A c \in Ids : byName'[c] # None => instances'[byName'[c]].id = c
      BY <1>1, <1>4 DEF Registered
    <2>3. ASSUME ~overlap, NEW i \in 1..Len(instances), instances[i].st = "open"
          PROVE  byId'[instances[i].id] = i /\ byName'[instances[i].id] = i
      <3>1. /\ byId[instances[i].id] = i /\ byName[instances[i].id] = i /\ instances[i].id \in Ids
            /\ i # 0
        BY <2>3, InstanceType DEF Registered
      <3>2. instances[i].id # request.id
        <4>1. SUFFICES ASSUME instances[i].id = request.id PROVE FALSE
          OBVIOUS
        <4>2. Target = i
          BY <3>1, <4>1 DEF Target
        <4>3. QED
          BY <1>1, <2>3, <3>1, <4>2 DEF ClosedIsPopped
      <3>3. QED
        BY <1>4, <3>1, <3>2
    <2>4. QED
      BY <1>1, <2>1, <2>2, <2>3 DEF Registered
  <1>7. StillFree' /\ DevicesFollow'
    BY <1>1, <1>3, <1>5, StillFreeKept, DevicesKept
  <1>8. ClosedIsPopped'
    BY <1>3 DEF ClosedIsPopped
  <1>9. QED
    BY <1>3, <1>6, <1>7, <1>8, LoadingServes

LEMMA DevicesKeepLife ==
  ASSUME TypeInv, LifeInv, ConnectorDevices
  PROVE  LifeInv'
  <1> USE DEF TypeInv, LifeInv
  <1>1. /\ UNCHANGED <<instances, byId, byName, configured, loaded, overlap, unserved, late>>
        /\ actor[Configurator].step = "devices" /\ GoTo("finish")
    BY DEF ConnectorDevices, Step
  <1>2. actor'[Configurator].step = "finish" /\ actor'[Watcher] = actor[Watcher]
    BY <1>1, GoToEffect DEF ConfiguratorSteps
  <1>3. SameButState(instances, instances') /\ ServingKept /\ Fewer(byId, byId')
    BY <1>1, SameIsSame DEF ServingKept, Fewer
  <1>4. Registered' /\ ServedOrPending' /\ Loaded' /\ ClosedIsPopped'
    BY <1>1, <1>2, <1>3, RegisteredKept, ServedKept DEF WorkKept, Loaded, WillLoad, Step, ClosedIsPopped
  <1>5. StillFree'
    BY <1>1, <1>2, <1>3, StillFreeKept DEF Unstarted
  <1>6. DevicesFollow'
    <2>1. CASE request.kind = "connector" /\ byId[request.id] # None
      <3>1. request.id \in Ids
        BY <2>1, AtStep, RequestFields DEF NoRequest
      <3>2. devices' = Repointed(request.id, byId[request.id])
        BY <2>1 DEF ConnectorDevices
      <3>3. \A c \in Ids : devices'[c] = IF c = request.id /\ devices[c] # None THEN byId[c] ELSE devices[c]
        BY <3>1, <3>2 DEF Repointed, LifeTypeOK
      <3>4. QED
        BY <1>1, <3>3 DEF DevicesFollow
    <2>2. CASE ~(request.kind = "connector" /\ byId[request.id] # None)
      BY <1>1, <2>2 DEF ConnectorDevices, DevicesFollow
    <2>3. QED
      BY <2>1, <2>2
  <1>7. QED
    BY <1>4, <1>5, <1>6

LEMMA ActiveKeepsLife ==
  ASSUME TypeInv, LifeInv, ActiveUpdate
  PROVE  LifeInv'
  <1> USE DEF TypeInv, LifeInv
  <1> DEFINE gone == {c \in Ids \ request.ids : byName[c] # None}
             closed == {byName[c] : c \in gone}
  <1>1. /\ UNCHANGED <<loaded, overlap, unserved, late>>
        /\ actor[Configurator].step = "active" /\ GoTo("finish")
        /\ instances' = CloseAll(closed)
        /\ devices' = [c \in Ids |-> IF c \in gone THEN None ELSE devices[c]]
        /\ byId' = [c \in Ids |-> IF c \in gone THEN None ELSE byId[c]]
        /\ byName' = [c \in Ids |-> IF c \in gone THEN None ELSE byName[c]]
        /\ configured' = IF gone # {} THEN configured \cap request.ids ELSE configured
    BY DEF ActiveUpdate, Step, CloseAll
  <1>2. actor'[Configurator].step = "finish" /\ actor'[Watcher] = actor[Watcher]
    BY <1>1, GoToEffect DEF ConfiguratorSteps
  <1>3. /\ SameButState(instances, instances')
        /\ \A i \in 1..Len(instances) : instances'[i].st = "open" => i \notin closed
        /\ \A i \in 1..Len(instances) \ closed : instances'[i] = instances[i]
    BY <1>1, CloseAllEffect
  <1>4. gone \subseteq Ids /\ \A c \in gone : c \notin configured'
    BY <1>1
  <1>5. \A i \in 1..Len(instances) : instances[i].id \in gone \/ instances[i].st # "open" \/ overlap \/ i \notin closed
    <2>1. SUFFICES ASSUME NEW i \in 1..Len(instances), i \in closed PROVE instances[i].id \in gone
      OBVIOUS
    <2>2. PICK c \in gone : byName[c] = i
      BY <2>1
    <2>3. QED
      BY <2>2 DEF Registered
  <1>6. \A c \in gone : byName[c] \in closed
    OBVIOUS
  <1> HIDE DEF gone, closed
  <1>7. Fewer(byId, byId') /\ Fewer(devices, devices')
    BY <1>1 DEF Fewer
  <1>8. Registered'
    <2>1. \A c \in Ids : byId'[c] # None => instances'[byId'[c]].id = c
      <3>1. ASSUME NEW c \in Ids, byId'[c] # None
            PROVE  byId'[c] = byId[c] /\ byId[c] \in 1..Len(instances) /\ instances[byId[c]].id = c
        <4>1. byId'[c] = byId[c] /\ byId[c] \in 0..Len(instances)
          BY <1>1, <3>1 DEF LifeTypeOK
        <4>2. QED
          BY <3>1, <4>1 DEF Registered
      <3>2. QED
        BY <1>3, <3>1 DEF SameButState
    <2>2. \A c \in Ids : byName'[c] # None => instances'[byName'[c]].id = c
      <3>1. ASSUME NEW c \in Ids, byName'[c] # None
            PROVE  byName'[c] = byName[c] /\ byName[c] \in 1..Len(instances) /\ instances[byName[c]].id = c
        <4>1. byName'[c] = byName[c] /\ byName[c] \in 0..Len(instances)
          BY <1>1, <3>1 DEF LifeTypeOK
        <4>2. QED
          BY <3>1, <4>1 DEF Registered
      <3>2. QED
        BY <1>3, <3>1 DEF SameButState
    <2>3. ASSUME ~overlap, NEW i \in 1..Len(instances), instances'[i].st = "open"
          PROVE  byId'[instances[i].id] = i /\ byName'[instances[i].id] = i
      <3>1. byId[instances[i].id] = i /\ byName[instances[i].id] = i /\ instances[i].id \in Ids /\ i \notin closed
        BY <1>3, <2>3, InstanceType DEF Registered, SameButState
      <3>2. instances[i].id \notin gone
        BY <1>6, <3>1
      <3>3. QED
        BY <1>1, <3>1, <3>2
    <2>4. \A i \in 1..Len(instances) : instances'[i].id = instances[i].id
      BY <1>3 DEF SameButState
    <2>5. Len(instances') = Len(instances) /\ overlap' = overlap
      BY <1>1, <1>3 DEF SameButState
    <2>6. QED
      BY <2>1, <2>2, <2>3, <2>4, <2>5 DEF Registered
  <1>9. StillFree' /\ DevicesFollow'
    BY <1>1, <1>2, <1>3, <1>7, StillFreeKept, DevicesKept DEF Unstarted
  <1>10. ClosedIsPopped'
    BY <1>2 DEF ClosedIsPopped, Step
  <1>11. Loaded'
    BY <1>1 DEF Loaded, WillLoad, Step
  <1>12. ServedOrPending'
    <2>1. SUFFICES ASSUME ~overlap, NEW c \in configured' \ (unserved \cup GrpcConnectors)
                   PROVE  Serves(c)' \/ Pending(c)'
      BY <1>1 DEF ServedOrPending
    <2>2. c \in configured /\ c \in Ids /\ c \notin gone /\ byId'[c] = byId[c] /\ byId[c] \in 0..Len(instances)
      BY <1>1, <1>4, <2>1 DEF LifeTypeOK
    <2>3. CASE Serves(c)
      <3>1. instances[byId[c]].id = c /\ byId[c] \in 1..Len(instances) /\ instances[byId[c]].st = "open"
        BY <2>2, <2>3 DEF Serves, Registered
      <3>2. byId[c] \notin closed
        BY <1>5, <2>1, <2>2, <3>1
      <3>3. QED
        BY <1>1, <1>3, <2>2, <2>3, <3>1, <3>2 DEF Serves
    <2>4. CASE Pending(c)
      <3>1. ~WillLoad /\ ~ToStart(Configurator, c)
        BY <1>1 DEF WillLoad, Step, ToStart
      <3>2. LeftClosed(c) => LeftClosed(c)'
        BY <1>2, <1>3, <2>2 DEF LeftClosed, SameButState
      <3>3. ToStart(Watcher, c) => ToStart(Watcher, c)'
        BY <1>2 DEF ToStart
      <3>4. QED
        BY <1>2, <2>4, <3>1, <3>2, <3>3 DEF Pending
    <2>5. QED
      BY <2>1, <2>2, <2>3, <2>4 DEF ServedOrPending
  <1>13. QED
    BY <1>8, <1>9, <1>10, <1>11, <1>12

LEMMA WatcherKeepsLife ==
  ASSUME TypeInv, LifeInv, WatcherChecks(inProcess) \/ WatcherCloses \/ WatcherGoesOn \/ WatcherLoads,
         request' = request
  PROVE  LifeInv'
  <1> USE DEF TypeInv, LifeInv
  <1>1. /\ UNCHANGED <<byId, byName, configured, loaded, overlap, late>>
        /\ actor'[Configurator] = actor[Configurator] /\ actor'[Watcher].step # "construct"
    <2>1. UNCHANGED <<byId, byName, configured, loaded, overlap, late>>
      BY DEF WatcherChecks, WatcherCloses, WatcherGoesOn, WatcherLoads
    <2>2. actor'[Watcher].step # "construct"
      <3>1. CASE WatcherChecks(inProcess)
        BY <3>1 DEF WatcherChecks, ActorTypeOK
      <3>2. CASE WatcherCloses
        BY <3>2 DEF WatcherCloses
      <3>3. CASE WatcherGoesOn
        <4>1. actor[Watcher].step = "close" /\ actor[Watcher].todo \in Seq(Ids)
          BY <3>3 DEF WatcherGoesOn, ActorTypeOK
        <4>2. CASE actor' = [actor EXCEPT ![Watcher].todo = Tail(@)]
          BY <4>1, <4>2 DEF ActorTypeOK
        <4>3. CASE Go(Watcher, "idle", <<>>)
          BY <4>3 DEF Go, ActorTypeOK
        <4>4. QED
          BY <3>3, <4>2, <4>3 DEF WatcherGoesOn
      <3>4. CASE WatcherLoads
        BY <3>4 DEF WatcherLoads, Go, ActorTypeOK
      <3>5. QED
        BY <3>1, <3>2, <3>3, <3>4
    <2>3. QED
      BY <2>1, <2>2, WatcherOwnType
  <1>2. /\ Fewer(byId, byId') /\ \A a \in Actors : Unstarted(a)
        /\ Loaded' /\ (WillLoad => WillLoad') /\ \A c \in Ids : ToStart(Configurator, c) => ToStart(Configurator, c)'
    BY <1>1 DEF Fewer, Step, Unstarted, Loaded, WillLoad, ToStart
  <1>3. CASE WatcherCloses
    <2>1. actor[Watcher].todo \in Seq(Ids) /\ actor[Watcher].todo # <<>> /\ actor[Watcher].step = "close"
      BY <1>3 DEF ActorTypeOK, WatcherCloses
    <2>2. Head(actor[Watcher].todo) \in Ids
      BY <2>1, TodoTail
    <2>3. PICK i \in 1..Len(instances) : CloseCall(i)
      BY <1>3, <2>2 DEF LifeTypeOK, WatcherCloses
    <2>4. /\ SameButState(instances, instances') /\ instances'[i].st # "open"
          /\ \A j \in 1..Len(instances) \ {i} : instances'[j] = instances[j]
          /\ Fewer(devices, devices')
      BY <2>3, CloseCallEffect DEF Fewer
    <2>5. UNCHANGED <<actor, unserved>>
      BY <1>3 DEF WatcherCloses
    <2>6. Registered' /\ ClosedIsPopped' /\ DevicesFollow' /\ StillFree'
      BY <1>1, <1>2, <2>4, RegisteredKept, PoppedKept, DevicesKept, StillFreeKept
    <2>7. ServedOrPending'
      <3>1. SUFFICES ASSUME ~overlap, NEW c \in configured \ (unserved \cup GrpcConnectors)
                     PROVE  Serves(c)' \/ Pending(c)'
        BY <1>1, <2>5 DEF ServedOrPending
      <3>2. c \in Ids /\ byId[c] \in 0..Len(instances) /\ (Serves(c) \/ Pending(c))
        BY <3>1 DEF LifeTypeOK, ServedOrPending
      <3>3. CASE Serves(c)
        <4>1. CASE byId[c] = i
          BY <1>1, <2>1, <2>4, <2>5, <3>3, <4>1 DEF Serves, Pending, LeftClosed
        <4>2. CASE byId[c] # i
          BY <1>1, <2>4, <3>2, <3>3, <4>2 DEF Serves
        <4>3. QED
          BY <4>1, <4>2
      <3>4. CASE Pending(c)
        BY <1>1, <1>2, <2>1, <2>4, <2>5, <3>2, <3>4 DEF Pending, LeftClosed, ToStart, SameButState
      <3>5. QED
        BY <3>2, <3>3, <3>4
    <2>8. QED
      BY <1>2, <2>6, <2>7
  <1>4. CASE ~WatcherCloses
    <2>1. UNCHANGED <<instances, devices>>
      BY <1>4 DEF WatcherChecks, WatcherGoesOn, WatcherLoads
    <2>2. SameButState(instances, instances') /\ ServingKept /\ Fewer(devices, devices')
      BY <2>1, SameIsSame DEF ServingKept, Fewer
    <2>3. Registered' /\ ClosedIsPopped' /\ DevicesFollow' /\ StillFree'
      BY <1>1, <1>2, <2>2, RegisteredKept, PoppedKept, DevicesKept, StillFreeKept
    <2>4. ServedOrPending'
      <3>1. CASE WatcherChecks(inProcess)
        <4>1. actor[Watcher].step = "idle" /\ unserved' = unserved
          BY <3>1 DEF WatcherChecks
        <4>2. QED
          BY <1>1, <2>2, <4>1, ServedKept DEF WorkKept
      <3>2. CASE WatcherLoads
        <4>1. actor'[Watcher].step = "load"
          BY <3>2 DEF WatcherLoads, Go, ActorTypeOK
        <4>2. QED
          BY <4>1 DEF ServedOrPending, Pending
      <3>3. CASE WatcherGoesOn
        <4>1. SUFFICES ASSUME ~overlap, NEW c \in configured \ (unserved' \cup GrpcConnectors)
                       PROVE  Serves(c)' \/ Pending(c)'
          BY <1>1 DEF ServedOrPending
        <4>2. actor[Watcher].step = "close"
          BY <3>3 DEF WatcherGoesOn
        <4>3. /\ unserved \subseteq unserved'
              /\ \/ actor'[Watcher].step = "close"
                 \/ {d \in Keys : instances[byId[d]].st # "open"} \subseteq unserved'
          <5>1. CASE actor' = [actor EXCEPT ![Watcher].todo = Tail(@)] /\ UNCHANGED unserved
            BY <4>2, <5>1 DEF ActorTypeOK
          <5>2. CASE unserved' = unserved \cup {d \in Keys : instances[byId[d]].st # "open"}
            BY <5>2
          <5>3. QED
            BY <3>3, <5>1, <5>2 DEF WatcherGoesOn
        <4>4. c \in Ids /\ (Serves(c) \/ Pending(c))
          BY <4>1, <4>3 DEF LifeTypeOK, ServedOrPending
        <4>5. CASE Serves(c)
          BY <1>1, <2>1, <4>5 DEF Serves
        <4>6. CASE LeftClosed(c)
          <5>1. c \in {d \in Keys : instances[byId[d]].st # "open"}
            BY <4>4, <4>6 DEF LeftClosed, Keys
          <5>2. actor'[Watcher].step = "close"
            BY <4>1, <4>3, <5>1
          <5>3. QED
            BY <1>1, <2>1, <4>6, <5>2 DEF LeftClosed, Pending
        <4>7. CASE Pending(c) /\ ~LeftClosed(c)
          BY <1>2, <4>2, <4>4, <4>7 DEF Pending, ToStart
        <4>8. QED
          BY <4>4, <4>5, <4>6, <4>7
      <3>4. QED
        BY <1>4, <3>1, <3>2, <3>3
    <2>5. QED
      BY <1>2, <2>3, <2>4
  <1>5. QED
    BY <1>3, <1>4

LEMMA LoadKeepsLife ==
  ASSUME TypeInv, LifeInv, NEW a \in Actors, LoadConnectors(a), request' = request
  PROVE  LifeInv'
  <1> USE DEF TypeInv, LifeInv
  <1>1. /\ UNCHANGED <<instances, byId, byName, configured, devices, overlap, unserved, late>>
        /\ loaded' = [c \in Ids |-> IF c \in configured THEN files[c] ELSE None]
    BY DEF LoadConnectors
  <1>2. PICK order \in InOrder(configured) : Go(a, "start", order)
    BY DEF LoadConnectors
  <1>3. order \in Seq(Ids) /\ \A c \in configured : \E k \in 1..Len(order) : order[k] = c
    <2>1. order \in Orders(configured) /\ configured \in SUBSET Ids
      BY DEF InOrder, LifeTypeOK
    <2>2. QED
      BY <2>1, OrdersAreSequences
  <1>4. /\ actor'[a].step = "start" /\ actor'[a].todo = order
        /\ \A b \in Actors \ {a} : actor'[b] = actor[b]
    <2>1. "start" \in ConfiguratorSteps
      BY DEF ConfiguratorSteps
    <2>2. QED
      BY <1>2, <1>3, <2>1, GoEffect
  <1>5. SameButState(instances, instances') /\ Fewer(byId, byId') /\ Fewer(devices, devices')
    BY <1>1, SameIsSame DEF Fewer
  <1>6. /\ \A b \in Actors : Unstarted(b)
        /\ Step("pop")' => actor'[Configurator] = actor[Configurator] /\ request' = request
    BY <1>4 DEF Unstarted, Step
  <1>7. Registered' /\ ClosedIsPopped' /\ DevicesFollow' /\ StillFree'
    BY <1>1, <1>5, <1>6, RegisteredKept, PoppedKept, DevicesKept, StillFreeKept
  <1>8. Loaded'
    BY <1>1 DEF Loaded, LifeTypeOK
  <1>9. ServedOrPending'
    BY <1>1, <1>3, <1>4 DEF ServedOrPending, Pending, ToStart
  <1>10. QED
    BY <1>7, <1>8, <1>9

LEMMA GoTail ==
  ASSUME ActorTypeOK, NEW a \in Actors, actor[a].todo # <<>>, Go(a, "start", Tail(actor[a].todo))
  PROVE  /\ actor'[a].step = "start" /\ actor'[a].todo = Tail(actor[a].todo)
         /\ \A b \in Actors \ {a} : actor'[b] = actor[b]
  <1> DEFINE t == Tail(actor[a].todo)
  <1>1. actor' = [actor EXCEPT ![a] = [step |-> "start", todo |-> t, keys |-> 0]]
    BY DEF Go
  <1>2. actor \in [Actors -> [step : ConfiguratorSteps, todo : Seq(Ids), keys : Nat]]
    BY DEF ActorTypeOK
  <1> HIDE DEF t
  <1>3. actor'[a] = [step |-> "start", todo |-> t, keys |-> 0] /\ \A b \in Actors \ {a} : actor'[b] = actor[b]
    BY <1>1, <1>2
  <1>4. QED
    BY <1>3 DEF t

LEMMA StartNextKeepsLife ==
  ASSUME TypeInv, LifeInv, NEW a \in Actors, NEW after \in {"devices", "idle"}, StartNext(a, after), request' = request
  PROVE  LifeInv'
  <1> USE DEF TypeInv, LifeInv
  <1> DEFINE t == actor[a].todo
             behind == {Tail(t)[k] : k \in 1..Len(Tail(t))}
  <1>1. /\ UNCHANGED <<instances, byId, byName, configured, loaded, devices, overlap, late>>
        /\ actor[a].step = "start" /\ t \in Seq(Ids)
    BY DEF StartNext, ActorTypeOK
  <1>2. after \in ConfiguratorSteps /\ "construct" \in ConfiguratorSteps
    BY DEF ConfiguratorSteps
  <1>3. /\ actor'[a].step \in {"start", "construct", after}
        /\ \A b \in Actors \ {a} : actor'[b] = actor[b]
    BY <1>2, StartNextType
  \* What is next: nothing, a gRPC connector, one to construct, one to leave.
  <1>4. \/ t = <<>> /\ actor'[a].step = after /\ unserved' = unserved
        \/ /\ t # <<>> /\ Head(t) \in GrpcConnectors /\ actor'[a].step = after
           /\ unserved' = unserved \cup behind
        \/ /\ t # <<>> /\ MayStart(Head(t)) /\ actor'[a].step = "construct" /\ actor'[a].todo = t
           /\ unserved' = unserved
        \/ /\ t # <<>> /\ ~MayStart(Head(t)) /\ actor'[a].step = "start" /\ actor'[a].todo = Tail(t)
           /\ unserved' = IF instances[byId[Head(t)]].st = "open" /\ instances[byId[Head(t)]].ver = loaded[Head(t)]
                          THEN unserved ELSE unserved \cup {Head(t)}
    <2>1. Go(a, after, <<>>) => actor'[a].step = after
      <3>1. <<>> \in Seq(Ids)
        OBVIOUS
      <3>2. QED
        BY <1>2, <3>1, GoEffect
    <2>2. Go(a, "construct", t) => actor'[a].step = "construct" /\ actor'[a].todo = t
      BY <1>1, <1>2, GoEffect
    <2>3. t # <<>> /\ Go(a, "start", Tail(t)) => actor'[a].step = "start" /\ actor'[a].todo = Tail(t)
      BY GoTail
    <2>4. QED
      BY <2>1, <2>2, <2>3 DEF StartNext
  <1>5. SameButState(instances, instances') /\ Fewer(byId, byId') /\ Fewer(devices, devices')
    BY <1>1, SameIsSame DEF Fewer
  <1>6. Step("pop")' => actor'[Configurator] = actor[Configurator] /\ request' = request
    BY <1>3 DEF Step
  <1>7. Registered' /\ ClosedIsPopped' /\ DevicesFollow'
    BY <1>1, <1>5, <1>6, RegisteredKept, PoppedKept, DevicesKept
  <1>8. WillLoad' <=> WillLoad
    BY <1>1, <1>3 DEF WillLoad, Step
  <1>9. Loaded'
    BY <1>1, <1>8 DEF Loaded
  <1>10. StillFree'
    <2>1. SUFFICES ASSUME NEW b \in Actors, actor'[b].step = "construct"
                   PROVE  actor'[b].todo # <<>> /\ (~overlap => MayStart(Head(actor'[b].todo)))
      BY <1>1 DEF StillFree, MayStart, IsStopped
    <2>2. CASE b = a
      BY <1>4, <2>1, <2>2
    <2>3. CASE b # a
      BY <1>3, <2>1, <2>3 DEF StillFree
    <2>4. QED
      BY <2>2, <2>3
  <1>11. ServedOrPending'
    <2>1. SUFFICES ASSUME ~overlap, NEW c \in configured \ (unserved' \cup GrpcConnectors)
                   PROVE  Serves(c)' \/ Pending(c)'
      BY <1>1 DEF ServedOrPending
    <2>2. c \in Ids /\ c \notin unserved /\ (Serves(c) \/ Pending(c))
      BY <1>4, <2>1 DEF LifeTypeOK, ServedOrPending
    <2>3. CASE Serves(c)
      BY <1>1, <2>3 DEF Serves
    <2>4. CASE WillLoad \/ actor[Watcher].step = "load" \/ LeftClosed(c) \/ \E b \in Actors \ {a} : ToStart(b, c)
      <3>1. CASE WillLoad
        BY <1>8, <3>1 DEF Pending
      <3>2. CASE actor[Watcher].step = "load"
        BY <1>1, <1>3, <3>2 DEF Pending
      <3>3. CASE LeftClosed(c)
        BY <1>1, <1>3, <3>3 DEF Pending, LeftClosed
      <3>4. CASE \E b \in Actors \ {a} : ToStart(b, c)
        BY <1>3, <3>4 DEF Pending, ToStart
      <3>5. QED
        BY <2>4, <3>1, <3>2, <3>3, <3>4
    <2>5. CASE ToStart(a, c)
      <3>1. PICK k \in 1..Len(t) : t[k] = c
        BY <2>5 DEF ToStart
      <3>2. t # <<>>
        BY <1>1, <3>1
      <3>3. c = Head(t) \/ \E j \in 1..Len(Tail(t)) : Tail(t)[j] = c
        BY <1>1, <3>1, <3>2, TodoTail
      <3>4. CASE Head(t) \in GrpcConnectors /\ unserved' = unserved \cup behind
        BY <2>1, <3>3, <3>4
      <3>5. CASE actor'[a].step = "construct" /\ actor'[a].todo = t
        BY <3>1, <3>5 DEF Pending, ToStart
      <3>6. CASE /\ ~MayStart(Head(t)) /\ actor'[a].step = "start" /\ actor'[a].todo = Tail(t)
                 /\ unserved' = IF instances[byId[Head(t)]].st = "open" /\ instances[byId[Head(t)]].ver = loaded[Head(t)]
                                THEN unserved ELSE unserved \cup {Head(t)}
        <4>1. CASE c = Head(t)
          BY <1>1, <2>1, <3>6, <4>1 DEF Serves, MayStart
        <4>2. CASE \E j \in 1..Len(Tail(t)) : Tail(t)[j] = c
          BY <3>6, <4>2 DEF Pending, ToStart
        <4>3. QED
          BY <3>3, <4>1, <4>2
      <3>7. QED
        BY <1>4, <3>2, <3>4, <3>5, <3>6
    <2>6. QED
      BY <2>2, <2>3, <2>4, <2>5 DEF Pending
  <1>12. QED
    BY <1>7, <1>9, <1>10, <1>11

LEMMA StartRaisesKeepsLife ==
  ASSUME TypeInv, LifeInv, NEW a \in Actors, StartRaises(a), request' = request
  PROVE  LifeInv'
  <1> USE DEF TypeInv, LifeInv
  <1> DEFINE t == actor[a].todo
  <1>1. /\ UNCHANGED <<instances, byId, byName, configured, loaded, devices, overlap, late>>
        /\ actor[a].step = "construct" /\ t \in Seq(Ids) /\ t # <<>>
        /\ unserved' = unserved \cup {Head(t)} /\ Go(a, "start", Tail(t))
    BY DEF StartRaises, ActorTypeOK, StillFree
  <1>2. /\ actor'[a].step = "start" /\ actor'[a].todo = Tail(t)
        /\ \A b \in Actors \ {a} : actor'[b] = actor[b]
    BY <1>1, GoTail
  <1>3. SameButState(instances, instances') /\ Fewer(byId, byId') /\ Fewer(devices, devices')
    BY <1>1, SameIsSame DEF Fewer
  <1>4. Step("pop")' => actor'[Configurator] = actor[Configurator] /\ request' = request
    BY <1>2 DEF Step
  <1>5. \A b \in Actors : Unstarted(b)
    BY <1>2 DEF Unstarted
  <1>6. Registered' /\ ClosedIsPopped' /\ DevicesFollow' /\ StillFree'
    BY <1>1, <1>3, <1>4, <1>5, RegisteredKept, PoppedKept, DevicesKept, StillFreeKept
  <1>7. WillLoad' <=> WillLoad
    BY <1>1, <1>2 DEF WillLoad, Step
  <1>8. Loaded'
    BY <1>1, <1>7 DEF Loaded
  <1>9. ServedOrPending'
    <2>1. SUFFICES ASSUME ~overlap, NEW c \in configured \ (unserved' \cup GrpcConnectors)
                   PROVE  Serves(c)' \/ Pending(c)'
      BY <1>1 DEF ServedOrPending
    <2>2. c # Head(t) /\ (Serves(c) \/ Pending(c))
      BY <1>1, <2>1 DEF ServedOrPending
    <2>3. CASE Serves(c)
      BY <1>1, <2>3 DEF Serves
    <2>4. CASE WillLoad
      BY <1>7, <2>4 DEF Pending
    <2>5. CASE actor[Watcher].step = "load" \/ LeftClosed(c)
      BY <1>1, <1>2, <2>5 DEF Pending, LeftClosed
    <2>6. CASE \E b \in Actors \ {a} : ToStart(b, c)
      BY <1>2, <2>6 DEF Pending, ToStart
    <2>7. CASE ToStart(a, c)
      <3>1. PICK k \in 1..Len(t) : t[k] = c
        BY <2>7 DEF ToStart
      <3>2. t[k] = Head(t) \/ \E j \in 1..Len(Tail(t)) : Tail(t)[j] = t[k]
        BY <1>1, TodoTail
      <3>3. \E j \in 1..Len(Tail(t)) : Tail(t)[j] = c
        BY <2>2, <3>1, <3>2, Zenon
      <3>4. QED
        BY <1>2, <3>3 DEF Pending, ToStart
    <2>8. QED
      BY <2>2, <2>3, <2>4, <2>5, <2>6, <2>7 DEF Pending
  <1>10. QED
    BY <1>6, <1>8, <1>9

LEMMA StartConstructedKeepsLife ==
  ASSUME TypeInv, LifeInv, NEW a \in Actors, StartConstructed(a), request' = request
  PROVE  LifeInv'
  <1> USE DEF TypeInv, LifeInv
  <1> DEFINE t == actor[a].todo
             c == Head(t)
             n == Len(instances) + 1
             v == IF loaded[c] = None THEN files[c] ELSE loaded[c]
  <1>1. /\ UNCHANGED <<configured, files, loaded, late>>
        /\ actor[a].step = "construct" /\ t \in Seq(Ids) /\ t # <<>> /\ Go(a, "start", Tail(t))
        /\ (~overlap' => ~overlap /\ \E b \in Actors : actor[b].step = "idle")
    BY DEF StartConstructed, ActorTypeOK, StillFree
  <1>2. /\ actor'[a].step = "start" /\ actor'[a].todo = Tail(t)
        /\ \A b \in Actors \ {a} : actor'[b] = actor[b]
    BY <1>1, GoTail
  <1>3. \A k \in 1..Len(t) : t[k] = c \/ \E j \in 1..Len(Tail(t)) : Tail(t)[j] = t[k]
    BY <1>1, TodoTail
  <1>4. c \in Ids /\ v \in Nat
    BY <1>1, TodoTail DEF LifeTypeOK
  <1>5. PICK st \in {"open", "unopened"} :
            /\ instances' = Append(instances, [id |-> c, ver |-> v, st |-> st])
            /\ byName' = [byName EXCEPT ![c] = n]
            /\ devices' = Repointed(c, n)
            /\ byId' = WithoutStopped([byId EXCEPT ![c] = n], instances')
            /\ unserved' = IF st = "open" THEN unserved \ {c} ELSE unserved \cup {c}
    BY DEF StartConstructed
  <1>6. ~overlap => MayStart(c)
    BY <1>1 DEF StillFree
  <1>7. ~overlap' => ~overlap /\ \A b \in Actors \ {a} : actor[b].step = "idle"
    BY <1>1
  <1> HIDE DEF c, t, v
  <1>8. /\ Len(instances') = n /\ n \in Nat /\ n \notin 1..Len(instances)
        /\ \A i \in 1..Len(instances) : instances'[i] = instances[i]
        /\ instances'[n] = [id |-> c, ver |-> v, st |-> st]
    <2>1. st \in InstanceStates
      BY DEF InstanceStates
    <2>2. Len(instances) \in Nat
      BY DEF LifeTypeOK
    <2>3. QED
      BY <1>4, <1>5, <2>1, <2>2, NewInstanceType
  <1>9. /\ byId'[c] = n
        /\ \A d \in Ids \ {c} : byId'[d] = IF byId[d] # None /\ instances[byId[d]].st = "stopped" THEN None ELSE byId[d]
    <2>1. byId' = [d \in Ids |-> IF [byId EXCEPT ![c] = n][d] # None /\ instances'[[byId EXCEPT ![c] = n][d]].st = "stopped"
                                 THEN None ELSE [byId EXCEPT ![c] = n][d]]
      BY <1>5 DEF WithoutStopped
    <2>2. byId \in [Ids -> 0..Len(instances)]
      BY DEF LifeTypeOK
    <2>3. byId'[c] = n
      BY <1>4, <1>8, <2>1, <2>2
    <2>4. ASSUME NEW d \in Ids \ {c}
          PROVE  byId'[d] = IF byId[d] # None /\ instances[byId[d]].st = "stopped" THEN None ELSE byId[d]
      <3>1. byId'[d] = IF byId[d] # None /\ instances'[byId[d]].st = "stopped" THEN None ELSE byId[d]
        BY <2>1, <2>2
      <3>2. byId[d] # None => instances'[byId[d]] = instances[byId[d]]
        BY <1>8, <2>2
      <3>3. QED
        BY <3>1, <3>2
    <2>5. QED
      BY <2>3, <2>4
  <1>10. byName'[c] = n /\ \A d \in Ids \ {c} : byName'[d] = byName[d]
    BY <1>4, <1>5 DEF LifeTypeOK
  <1>11. devices'[c] \in {None, n} /\ \A d \in Ids \ {c} : devices'[d] = devices[d]
    BY <1>4, <1>5 DEF LifeTypeOK, Repointed
  <1> HIDE DEF n
  <1>12. Registered'
    <2>1. ASSUME NEW d \in Ids, byId'[d] # None
          PROVE  instances'[byId'[d]].id = d
      <3>1. CASE d = c
        BY <1>8, <1>9, <3>1
      <3>2. CASE d # c
        <4>1. byId'[d] = byId[d] /\ byId[d] \in 1..Len(instances) /\ instances[byId[d]].id = d
          BY <1>9, <2>1, <3>2 DEF LifeTypeOK, Registered
        <4>2. QED
          BY <1>8, <4>1
      <3>3. QED
        BY <3>1, <3>2
    <2>2. ASSUME NEW d \in Ids, byName'[d] # None
          PROVE  instances'[byName'[d]].id = d
      <3>1. CASE d = c
        BY <1>8, <1>10, <3>1
      <3>2. CASE d # c
        <4>1. byName'[d] = byName[d] /\ byName[d] \in 1..Len(instances) /\ instances[byName[d]].id = d
          BY <1>10, <2>2, <3>2 DEF LifeTypeOK, Registered
        <4>2. QED
          BY <1>8, <4>1
      <3>3. QED
        BY <3>1, <3>2
    <2>3. ASSUME ~overlap', NEW i \in 1..Len(instances'), instances'[i].st = "open"
          PROVE  byId'[instances'[i].id] = i /\ byName'[instances'[i].id] = i
      <3>1. CASE i = n
        BY <1>8, <1>9, <1>10, <3>1
      <3>2. CASE i # n
        <4>1. i \in 1..Len(instances) /\ instances'[i] = instances[i] /\ instances[i].st = "open"
          BY <1>8, <2>3, <3>2 DEF n
        <4>2. /\ byId[instances[i].id] = i /\ byName[instances[i].id] = i /\ instances[i].id \in Ids /\ i # 0
          BY <1>7, <2>3, <4>1, InstanceType DEF Registered
        <4>3. instances[i].id # c
          BY <1>6, <1>7, <2>3, <4>1, <4>2 DEF MayStart, IsStopped
        <4>4. QED
          BY <1>9, <1>10, <4>1, <4>2, <4>3
      <3>3. QED
        BY <3>1, <3>2
    <2>4. \A d \in Ids : byId'[d] # None => instances'[byId'[d]].id = d
      BY <2>1
    <2>5. \A d \in Ids : byName'[d] # None => instances'[byName'[d]].id = d
      BY <2>2
    <2>6. ~overlap' => \A i \in 1..Len(instances') : instances'[i].st = "open" =>
                          byId'[instances'[i].id] = i /\ byName'[instances'[i].id] = i
      BY <2>3
    <2>7. QED
      BY <2>4, <2>5, <2>6 DEF Registered
  <1>13. StillFree'
    <2>1. ASSUME NEW b \in Actors, actor'[b].step = "construct" PROVE overlap' /\ actor'[b].todo # <<>>
      <3>1. b # a /\ actor'[b] = actor[b]
        BY <1>2, <2>1
      <3>2. QED
        BY <1>7, <2>1, <3>1 DEF StillFree
    <2>2. QED
      BY <2>1 DEF StillFree
  <1>14. ClosedIsPopped'
    <2>1. SUFFICES ASSUME Step("pop")', ~overlap' PROVE FALSE
      BY DEF ClosedIsPopped
    <2>2. a # Configurator /\ actor[Configurator].step = "pop"
      BY <1>2, <2>1 DEF Step
    <2>3. QED
      BY <1>7, <2>1, <2>2
  <1>15. DevicesFollow'
    <2>1. SUFFICES ASSUME NEW d \in Ids \ late, byId'[d] # None PROVE devices'[d] \in {None, byId'[d]}
      BY <1>1 DEF DevicesFollow
    <2>2. CASE d = c
      BY <1>9, <1>11, <2>2
    <2>3. CASE d # c
      BY <1>9, <1>11, <2>1, <2>3 DEF DevicesFollow
    <2>4. QED
      BY <2>2, <2>3
  <1>16. WillLoad' <=> WillLoad
    BY <1>1, <1>2 DEF WillLoad, Step
  <1>17. Loaded'
    BY <1>1, <1>16 DEF Loaded
  <1>18. ServedOrPending'
    <2>1. SUFFICES ASSUME ~overlap', NEW d \in configured \ (unserved' \cup GrpcConnectors)
                   PROVE  Serves(d)' \/ Pending(d)'
      BY <1>1 DEF ServedOrPending
    <2>2. ~overlap /\ (\A b \in Actors \ {a} : actor[b].step = "idle") /\ ~WillLoad
          /\ actor[Watcher].step \notin {"load", "close"}
      BY <1>1, <1>7, <2>1 DEF WillLoad, Step
    <2>3. CASE d = c
      <3>1. st = "open" /\ loaded[c] # None
        BY <1>5, <2>1, <2>2, <2>3 DEF Loaded
      <3>2. v = loaded[c]
        BY <3>1 DEF v
      <3>3. n # 0
        BY <1>8 DEF n, LifeTypeOK
      <3>4. QED
        BY <1>1, <1>8, <1>9, <2>3, <3>1, <3>2, <3>3 DEF Serves
    <2>4. CASE d # c
      <3>1. d \in Ids /\ d \notin unserved /\ (Serves(d) \/ Pending(d))
        BY <1>5, <2>1, <2>2, <2>4 DEF ServedOrPending, LifeTypeOK
      <3>2. CASE Serves(d)
        <4>1. byId'[d] = byId[d] /\ byId[d] \in 1..Len(instances)
          BY <1>9, <2>4, <3>1, <3>2 DEF Serves, LifeTypeOK
        <4>2. QED
          BY <1>1, <1>8, <3>2, <4>1 DEF Serves
      <3>3. CASE Pending(d)
        <4>1. ToStart(a, d)
          BY <2>2, <3>3 DEF Pending, LeftClosed, ToStart
        <4>2. PICK k \in 1..Len(t) : t[k] = d
          BY <4>1 DEF ToStart, t
        <4>3. \E j \in 1..Len(Tail(t)) : Tail(t)[j] = d
          BY <1>3, <2>4, <4>2
        <4>4. QED
          BY <1>2, <4>3 DEF Pending, ToStart
      <3>4. QED
        BY <3>1, <3>2, <3>3
    <2>5. QED
      BY <2>3, <2>4
  <1>19. QED
    BY <1>12, <1>13, <1>14, <1>15, <1>17, <1>18

LEMMA LifeNext ==
  ASSUME TypeInv, LifeInv, [Next]_vars
  PROVE  LifeInv'
  <1>1. ASSUME NEW a \in Actors, NEW after \in {"devices", "idle"}, LoadAndStart(a, after), UNCHANGED rcVars
        PROVE  LifeInv'
    <2>1. request' = request
      BY <1>1 DEF rcVars
    <2>2. QED
      BY <1>1, <2>1, LoadKeepsLife, StartNextKeepsLife, StartConstructedKeepsLife, StartRaisesKeepsLife DEF LoadAndStart
  <1>2. CASE ConfiguratorStep
    <2>1. CASE LoadAndStart(Configurator, "devices") /\ UNCHANGED <<up, rcVars>>
      BY <1>1, <2>1
    <2>2. QED
      BY <1>2, <2>1, SimpleStepsKeepLife, ConnectorHandlersKeepLife, PoppedKeepsLife, DevicesKeepLife, ActiveKeepsLife
         DEF ConfiguratorStep, ConnectorUpdate
  <1>3. CASE WatcherRuns
    <2>1. request' = request /\ UNCHANGED rcVars
      BY <1>3 DEF WatcherRuns, rcVars
    <2>2. CASE LoadAndStart(Watcher, "idle")
      BY <1>1, <2>1, <2>2
    <2>3. QED
      BY <1>3, <2>1, <2>2, WatcherKeepsLife DEF WatcherRuns, WatcherStep
  <1>4. CASE Environment \/ UNCHANGED vars
    BY <1>4, EnvironmentKeepsLife
  <1>5. QED
    BY <1>2, <1>3, <1>4 DEF Next

-----------------------------------------------------------------------------
(* The gateway has started: the first connectors run, up to a gRPC one.     *)
LEMMA ReachedFirst == \E m \in Nat : m <= Len(Connectors) /\ Reached = 1..m
  <1> DEFINE P == {k \in 1..Len(Connectors) : Connectors[k] \in GrpcConnectors}
             R == OpToRel(<, Nat)
  <1>1. Len(Connectors) \in Nat
    OBVIOUS
  <1>2. CASE P = {}
    <2>1. Reached = 1..Len(Connectors)
      BY <1>1, <1>2 DEF Reached
    <2>2. QED
      BY <1>1, <2>1
  <1>3. CASE P # {}
    <2>1. IsWellFoundedOn(R, Nat) /\ \A x, y \in Nat : <<y, x>> \in R <=> y < x
      BY NatLessThanWellFounded DEF OpToRel
    <2>2. P \subseteq Nat
      BY <1>1
    <2> HIDE DEF R, P
    <2>3. PICK x \in P : \A y \in P : ~(<<y, x>> \in R)
      BY <1>3, <2>1, <2>2, WFMin
    <2>4. x \in Nat /\ \A y \in P : ~(y < x)
      BY <2>1, <2>2, <2>3, Zenon
    <2> USE DEF P
    <2>5. x \in 1..Len(Connectors) /\ Connectors[x] \in GrpcConnectors
      BY <2>3
    <2>6. \A j \in 1..Len(Connectors) : j < x => Connectors[j] \notin GrpcConnectors
      BY <1>1, <2>4
    <2>7. \A k \in Reached : k \in 1..(x - 1)
      BY <1>1, <2>5 DEF Reached
    <2>8. \A k \in 1..(x - 1) : k \in Reached
      BY <1>1, <2>5, <2>6 DEF Reached
    <2>9. x - 1 \in Nat /\ x - 1 <= Len(Connectors)
      BY <1>1, <2>5
    <2>10. Reached = 1..(x - 1)
      BY <2>7, <2>8, Zenon
    <2>11. QED
      BY <2>9, <2>10
  <1>4. QED
    BY <1>2, <1>3

LEMMA InitHolds == ASSUME Init PROVE IInv
  <1>1. PICK m \in Nat : m <= Len(Connectors) /\ Reached = 1..m
    BY ReachedFirst
  <1>2. \A k \in 1..m : k \in 1..Len(Connectors) /\ Connectors[k] \in Ids
    BY <1>1 DEF Ids
  <1>3. /\ instances = [k \in 1..m |-> [id |-> Connectors[k], ver |-> 1, st |-> "open"]]
        /\ byName = byId /\ configured = Ids /\ late = {}
        /\ files = [c \in Ids |-> 1] /\ loaded = [c \in Ids |-> 1] /\ devices = [c \in Ids |-> None]
        /\ actor = [a \in Actors |-> IdleActor]
        /\ unserved = {c \in Ids : byId[c] = None}
    BY <1>1 DEF Init, LifecycleInit
  <1>4. instances \in Seq(Instance) /\ Len(instances) = m
    <2>1. \A k \in 1..m : [id |-> Connectors[k], ver |-> 1, st |-> "open"] \in Instance
      BY <1>2 DEF Instance, InstanceStates
    <2>2. instances \in [1..m -> Instance]
      BY <1>3, <2>1
    <2>3. QED
      BY <2>2
  <1>5. byId \in [Ids -> 0..m] /\ \A c \in Ids : byId[c] # None => Connectors[byId[c]] = c
    <2>1. byId = [c \in Ids |-> IF \E k \in 1..m : Connectors[k] = c
                                THEN CHOOSE k \in 1..m : Connectors[k] = c ELSE None]
      BY <1>1 DEF Init, LifecycleInit
    <2>2. ASSUME NEW c \in Ids PROVE byId[c] \in 0..m /\ (byId[c] # None => Connectors[byId[c]] = c)
      <3>1. CASE \E k \in 1..m : Connectors[k] = c
        BY <2>1, <3>1
      <3>2. CASE ~\E k \in 1..m : Connectors[k] = c
        BY <2>1, <3>2
      <3>3. QED
        BY <3>1, <3>2
    <2>3. QED
      BY <2>1, <2>2
  <1>6. ASSUME NEW i \in 1..m PROVE byId[Connectors[i]] = i
    <2>1. \E k \in 1..m : Connectors[k] = Connectors[i]
      OBVIOUS
    <2>2. byId[Connectors[i]] = CHOOSE k \in 1..m : Connectors[k] = Connectors[i]
      BY <1>1, <1>2, <2>1 DEF Init, LifecycleInit
    <2>3. byId[Connectors[i]] \in 1..m /\ Connectors[byId[Connectors[i]]] = Connectors[i]
      BY <2>1, <2>2
    <2>4. QED
      BY <1>2, <2>3
  <1>7. LifeTypeOK
    BY <1>3, <1>4, <1>5 DEF LifeTypeOK
  <1>8. \A a \in Actors : actor[a] = [step |-> "idle", todo |-> <<>>, keys |-> 0]
    BY <1>3 DEF IdleActor
  <1>9. Step("idle") /\ \A s \in ConfiguratorSteps \ {"idle"} : ~Step(s)
    BY <1>8 DEF Step
  <1>10. ActorTypeOK
    BY <1>3 DEF ActorTypeOK, IdleActor, ConfiguratorSteps
  <1>11. RequestTypeOK /\ SettingsTypeOK /\ SettingsFollow /\ BusyWhileReplacing
    <2>1. RequestTypeOK
      <3>1. queue \in Seq(Requests) /\ request \in Requests \cup {NoRequest}
        BY DEF Init
      <3>2. /\ ~Step("modified") /\ ~Step("write") /\ ~Step("close") /\ ~Step("pop")
            /\ ~Step("active") /\ ~Step("connection") /\ ~Step("connect") /\ ~Step("apply")
        BY <1>9 DEF ConfiguratorSteps
      <3>3. QED
        BY <3>1, <3>2 DEF RequestTypeOK
    <2>2. SettingsTypeOK
      BY DEF Init, SettingsTypeOK
    <2>3. SettingsFollow
      BY <1>9 DEF Init, SettingsFollow, ConfiguratorSteps
    <2>4. BusyWhileReplacing
      BY <1>9 DEF Init, BusyWhileReplacing
    <2>5. QED
      BY <2>1, <2>2, <2>3, <2>4
  <1>12. \A i \in 1..m : instances[i].id = Connectors[i] /\ instances[i].st = "open" /\ instances[i].ver = 1
    BY <1>3
  <1>13. \A c \in Ids : byId[c] # None => byId[c] \in 1..m
    BY <1>5
  <1>14. Registered
    BY <1>3, <1>4, <1>5, <1>6, <1>12, <1>13 DEF Registered
  <1>15. StillFree /\ ClosedIsPopped
    <2>1. StillFree
      BY <1>8 DEF StillFree
    <2>2. ClosedIsPopped
      BY <1>9 DEF ClosedIsPopped, ConfiguratorSteps
    <2>3. QED
      BY <2>1, <2>2
  <1>16. DevicesFollow /\ Loaded
    BY <1>3 DEF DevicesFollow, Loaded
  <1>17. ServedOrPending
    BY <1>3, <1>12, <1>13 DEF ServedOrPending, Serves
  <1>18. QED
    BY <1>7, <1>10, <1>11, <1>14, <1>15, <1>16, <1>17 DEF IInv, TypeInv, LifeInv

-----------------------------------------------------------------------------
LEMMA IInvImplies ==
  ASSUME IInv
  PROVE  ConfiguredIsServed /\ SavedSettingsConnect /\ StorageRuns
  <1> USE DEF IInv, TypeInv, LifeInv
  <1>1. ConfiguratorTypeOK
    <2>1. \A i \in DOMAIN instances :
              instances[i] \in [id : Ids, ver : Nat, st : {"open", "unopened", "closing", "stopped"}]
      <3>1. instances \in Seq(Instance) /\ DOMAIN instances = 1..Len(instances)
        BY DEF LifeTypeOK
      <3>2. \A i \in 1..Len(instances) : instances[i] \in Instance
        BY <3>1
      <3>3. QED
        BY <3>1, <3>2, Zenon DEF Instance, InstanceStates
    <2>2. QED
      BY <2>1 DEF ConfiguratorTypeOK, LifeTypeOK, RequestTypeOK, SettingsTypeOK
  <1>2. DOMAIN instances = 1..Len(instances)
    BY DEF LifeTypeOK
  <1>3. ASSUME ~overlap, NEW i \in DOMAIN instances, instances[i].st = "open" PROVE byId[instances[i].id] = i
    BY <1>2, <1>3 DEF Registered
  <1>4. ASSUME Quiet, ~overlap, NEW c \in configured \ (unserved \cup GrpcConnectors)
        PROVE  Serves(c) /\ (c \notin late => devices[c] \in {None, byId[c]})
    <2>1. ~WillLoad /\ \A a \in Actors : actor[a].step = "idle"
      BY <1>4 DEF Quiet, WillLoad, Step
    <2>2. ~Pending(c)
      BY <2>1 DEF Pending, LeftClosed, ToStart
    <2>3. Serves(c)
      BY <1>4, <2>2 DEF ServedOrPending
    <2>4. c \in Ids
      BY <1>4 DEF LifeTypeOK
    <2>5. QED
      BY <2>3, <2>4 DEF DevicesFollow, Serves
  <1>5. ConfiguredIsServed
    BY <1>1, <1>3, <1>4 DEF ConfiguredIsServed, Serves
  <1>6. SavedSettingsConnect
    <2>1. Step("idle") => ~Step("apply")
      BY DEF Step
    <2>2. QED
      BY <2>1 DEF SavedSettingsConnect, SettingsFollow
  <1>7. StorageRuns
    <2>1. Step("idle") => ~Step("new storage")
      BY DEF Step
    <2>2. QED
      BY <2>1 DEF StorageRuns, BusyWhileReplacing
  <1>8. QED
    BY <1>5, <1>6, <1>7

LEMMA Inductive == Spec => []IInv
  <1>1. Init => IInv
    BY InitHolds
  <1>2. IInv /\ [Next]_vars => IInv'
    <2> SUFFICES ASSUME IInv, [Next]_vars PROVE IInv'
      OBVIOUS
    <2>1. TypeInv /\ LifeInv /\ StillFree /\ SettingsFollow /\ BusyWhileReplacing
      BY DEF IInv, LifeInv
    <2>2. TypeInv'
      BY <2>1, TypeNext
    <2>3. SettingsFollow' /\ BusyWhileReplacing'
      BY <2>1, SettingsNext
    <2>4. LifeInv'
      BY <2>1, LifeNext
    <2>5. QED
      BY <2>2, <2>3, <2>4 DEF IInv
  <1>3. QED
    BY <1>1, <1>2, PTL DEF Spec

\* For any order of the connectors, wherever the gRPC ones stand, and whatever
\* the two threads do between the steps of the other: an instance that has not
\* been closed is the one registered, and when nobody changes connectors, those
\* configured run with the configuration loaded and have their devices.
THEOREM ConfiguredConnectorsAreServed == Spec => []ConfiguredIsServed
  <1>1. IInv => ConfiguredIsServed
    BY IInvImplies
  <1>2. QED
    BY <1>1, Inductive, PTL

\* After _handle_general_configuration_update the file holds the settings of the
\* client in use, whichever section raised and whichever settings connected,
\* unless the old ones were fallen back on.
THEOREM SavedSettingsAreInUse == Spec => []SavedSettingsConnect
  <1>1. IInv => SavedSettingsConnect
    BY IInvImplies
  <1>2. QED
    BY <1>1, Inductive, PTL

\* While in_process is down, and the uplink may send, the event storage runs:
\* _handle_storage_configuration_update replaces it under the flag.
THEOREM StorageRunsWhileSending == Spec => []StorageRuns
  <1>1. IInv => StorageRuns
    BY IInvImplies
  <1>2. QED
    BY <1>1, Inductive, PTL
=============================================================================
