--------------------------- MODULE DeviceRegistry ---------------------------
(***************************************************************************)
(* The devices the gateway serves (gateway/tb_gateway_service.py): the     *)
(* dictionaries __connected_devices, __saved_devices, __added_devices,     *)
(* __renamed_devices and __disconnected_devices, the file they are saved   *)
(* in, and the threads that change them without a common lock: a           *)
(* connector's, the main loop (_watchers), the thread that handles         *)
(* notifications of the platform, and the idle checker.                    *)
(*                                                                         *)
(* All devices belong to one connector.  Types and details of devices and  *)
(* the cache of shared attributes are left out.  What the platform thinks  *)
(* is connected is external.                                               *)
(***************************************************************************)
EXTENDS Naturals, FiniteSets

CONSTANTS
    Devices,    \* names the connector gives
    NewNames,   \* names the platform gives
    MaxCalls,   \* add_device and del_device calls of the connector
    MaxNotices, \* notifications of the platform
    MaxFaults   \* losses of the link, and crashes

Names == Devices \cup NewNames
No == "no"
Absent == "absent"

ASSUME DeviceRegistryAssumption ==
    /\ Devices # {} /\ NewNames \cap Devices = {}
    /\ Names \cap {No, Absent, "truncated"} = {}
    /\ MaxCalls \in Nat /\ MaxNotices \in Nat /\ MaxFaults \in Nat

Connector == "connector"
Watcher == "watcher"
Platform == "platform"
Idle == "idle"
Threads == {Connector, Watcher, Platform, Idle}

\* The file between its opening and its writing: no byte.
Truncated == [d \in Devices |-> "truncated"]

VARIABLES
    up,         \* tb_client.is_connected()
    connected, saved, added,  \* the keys of the dictionaries
    renamed,    \* device -> its new name, or No
    parked,     \* __disconnected_devices: device -> "info", "None", or No
    file,       \* connected_devices.json: device -> new name, No or Absent
    lock,       \* __lock is held
    op,         \* what each thread is doing
    todo,       \* devices the watcher or the idle checker has still to do
    subscribed, \* __subscribed_to_rpc_topics
    watchPc,    \* the main loop is adding the saved devices again
    idlePc,     \* the idle checker: waiting, scanning, deleting or dead
    platform,   \* devices the platform was told are connected
    name,       \* the platform's name of each device, Absent if it has none
    unkept,     \* history: renamed devices that were in neither dictionary,
                \* or were deleted under a name the gateway did not know
    removed,    \* history: deleted by the platform, not added since
    raced,      \* history: added and deleted at the same time, or taken for another
    failed,     \* history: a save raised
    calls, notices, faults

memVars == <<connected, saved, added, renamed, parked>>
loopVars == <<subscribed, watchPc, idlePc>>
threadVars == <<lock, op, todo, loopVars>>
histVars == <<unkept, removed, raced, failed>>
countVars == <<calls, notices, faults>>
platformVars == <<platform, name>>
vars == <<up, memVars, file, threadVars, platformVars, histVars, countVars>>

NoOp == [step |-> "none"]
Op(step, d, next) == [step |-> step, dev |-> d, next |-> next]
Free(t) == op[t] = NoOp

\* Some add_device(d), or del_device(d), has still to tell the platform.
Announcing(d) == \E t \in Threads : ~Free(t) /\ op[t].dev = d /\ "announce" \in {op[t].step, op[t].next}
Unlinking(d) == \E t \in Threads : op[t].step = "unlink" /\ op[t].dev = d

\* get_dict_key_by_value(__renamed_devices, nm): one of the devices renamed to
\* nm; a name that is none's new name is taken for a device.
KeysOf(nm) == {k \in Names : renamed[k] = nm}
Meant(nm) == IF KeysOf(nm) # {} THEN KeysOf(nm) ELSE {nm}

\* __process_connected_devices and __process_disconnected_devices.
Snapshot(con, ren, par) ==
    [d \in Devices |-> IF d \in con \/ par[d] # No THEN ren[d] ELSE Absent]

\* The entry None has no .get(): every save raises while it is there.
SaveRaises(par) == \E d \in Devices : par[d] = "None"

EmptyFile == [d \in Devices |-> Absent]

Init ==
    /\ up = TRUE /\ subscribed = TRUE
    /\ connected = {} /\ saved = {} /\ added = {} /\ platform = {}
    /\ renamed = [n \in Names |-> No] /\ parked = [d \in Devices |-> No]
    /\ file = EmptyFile /\ lock = FALSE /\ name = [d \in Devices |-> Absent]
    /\ op = [t \in Threads |-> NoOp] /\ todo = [t \in {Watcher, Idle} |-> {}]
    /\ idlePc = "waiting" /\ watchPc = "idle"
    /\ unkept = {} /\ removed = {} /\ raced = {} /\ failed = FALSE
    /\ calls = 0 /\ notices = 0 /\ faults = 0

-----------------------------------------------------------------------------
(* add_device(), by a connector or by the main loop after a reconnection   *)

\* Mutant: the device is saved by the caller, after it was announced.
AddUnsaved(t, d) ==
    /\ up /\ renamed[d] = No /\ d \notin connected
    /\ connected' = connected \cup {d} /\ removed' = removed \ {d}
    /\ op' = [op EXCEPT ![t] = Op("save", d, "announce")]
    /\ UNCHANGED <<saved, added, renamed, parked, unkept, raced, failed>>
    /\ UNCHANGED <<up, file, lock, platformVars, loopVars>>

AddBegin(t, d) ==
    /\ \/ ~up /\ op' = op /\ UNCHANGED <<memVars, histVars>>
       \/ /\ up /\ renamed[d] # No
          /\ parked' = [parked EXCEPT ![d] = No]
          /\ unkept' = IF d \in connected THEN unkept ELSE unkept \cup {d}
          /\ op' = [op EXCEPT ![t] = Op("save", d, "done")]
          /\ UNCHANGED <<connected, saved, added, renamed, removed, raced, failed>>
       \/ /\ up /\ renamed[d] = No /\ (d \in connected \/ KeysOf(d) # {})
          /\ op' = op /\ UNCHANGED <<memVars, histVars>>
       \/ /\ up /\ renamed[d] = No /\ d \notin connected /\ KeysOf(d) = {}
          /\ connected' = connected \cup {d} /\ saved' = saved \cup {d}
          /\ removed' = removed \ {d}
          /\ raced' = IF Unlinking(d) THEN raced \cup {d} ELSE raced
          /\ op' = [op EXCEPT ![t] = Op("save", d, "announce")]
          /\ UNCHANGED <<added, renamed, parked, unkept, failed>>
    /\ UNCHANGED <<up, file, lock, platformVars, loopVars>>

\* gw_connect_device().get(), and the details of a device that is still saved.
Announce(t) ==
    /\ op[t].step = "announce"
    /\ platform' = platform \cup {op[t].dev}
    /\ name' = [name EXCEPT ![op[t].dev] = IF @ = Absent THEN op[t].dev ELSE @]
    /\ added' = IF op[t].dev \in saved THEN added \cup {op[t].dev} ELSE added
    /\ op' = [op EXCEPT ![t] = NoOp]
    /\ UNCHANGED <<up, connected, saved, renamed, parked, file, lock, todo, loopVars, histVars, countVars>>

-----------------------------------------------------------------------------
(* __save_persistent_devices(): under the lock the contents are computed,  *)
(* the file is opened, which truncates it, and written.                    *)

\* Mutant: the lock is not taken.
MaySaveUnlocked == TRUE

MaySave == ~lock

SaveOpen(t) ==
    /\ op[t].step = "save" /\ MaySave
    /\ \/ /\ SaveRaises(parked)
          /\ op' = [op EXCEPT ![t] = NoOp] /\ failed' = TRUE
          /\ UNCHANGED <<file, lock>>
       \/ /\ ~SaveRaises(parked)
          /\ file' = Truncated /\ lock' = TRUE /\ UNCHANGED failed
          /\ op' = [op EXCEPT ![t] = [step |-> "write", dev |-> op[t].dev, next |-> op[t].next,
                                      data |-> Snapshot(connected, renamed, parked)]]
    /\ UNCHANGED <<up, memVars, todo, loopVars, platformVars, unkept, removed, raced, countVars>>

SaveWrite(t) ==
    /\ op[t].step = "write"
    /\ file' = op[t].data /\ lock' = FALSE
    /\ op' = [op EXCEPT ![t] = IF op[t].next = "done" THEN NoOp ELSE Op(op[t].next, op[t].dev, "done")]
    /\ UNCHANGED <<up, memVars, todo, loopVars, platformVars, histVars, countVars>>

-----------------------------------------------------------------------------
(* del_device(), by a connector or by the idle checker                     *)

DelPop(t, d) ==
    /\ connected' = connected \ {d}
    /\ parked' = IF d \in connected THEN parked ELSE [parked EXCEPT ![d] = No]
    /\ op' = [op EXCEPT ![t] = Op("unlink", d, IF d \in connected \/ parked[d] = "info" THEN "info" ELSE "None")]
    /\ raced' = IF Announcing(d) \/ Unlinking(d) THEN raced \cup {d} ELSE raced
    /\ UNCHANGED <<up, saved, added, renamed, file, lock, platformVars, loopVars, unkept, removed, failed>>

DelUnlink(t) ==
    /\ op[t].step = "unlink"
    /\ LET d == op[t].dev IN
        /\ platform' = platform \ {d}
        /\ parked' = IF renamed[d] = No THEN parked ELSE [parked EXCEPT ![d] = op[t].next]
        /\ saved' = saved \ {d} /\ added' = added \ {d}
        /\ op' = [op EXCEPT ![t] = Op("save", d, "done")]
    /\ UNCHANGED <<up, name, connected, renamed, file, lock, todo, loopVars, histVars, countVars>>

-----------------------------------------------------------------------------
(* Notifications of the platform                                           *)

\* Mutant: the file is loaded without being saved first.
DeletedUnsaved(dev) ==
    /\ Free(Platform) /\ notices < MaxNotices /\ notices' = notices + 1
    /\ dev \in connected /\ renamed[dev] = No
    /\ connected' = connected \ {dev} /\ saved' = saved \ {dev} /\ added' = added \ {dev}
    /\ name' = [name EXCEPT ![dev] = Absent]
    /\ platform' = platform \ {dev} /\ removed' = removed \cup {dev}
    /\ op' = [op EXCEPT ![Platform] = Op("load", dev, "done")]
    /\ UNCHANGED <<up, renamed, parked, unkept, raced, failed, file, lock, todo, loopVars, calls, faults>>

\* __process_deleted_gateway_devices(nm), where nm is the platform's name of
\* the device; a name the gateway does not know deletes nothing.
DeletedDevice(dev) ==
    /\ Free(Platform) /\ notices < MaxNotices /\ notices' = notices + 1
    /\ name[dev] # Absent /\ name' = [name EXCEPT ![dev] = Absent]
    /\ platform' = platform \ {dev}
    /\ \E d \in Meant(name[dev]) :
        /\ renamed' = IF KeysOf(name[dev]) # {} THEN [renamed EXCEPT ![d] = No] ELSE renamed
        /\ connected' = connected \ {d} /\ saved' = saved \ {d} /\ added' = added \ {d}
        /\ parked' = [x \in Devices |-> IF x = d THEN No ELSE parked[x]]
        /\ removed' = removed \cup ({d} \cap Devices)
        /\ unkept' = IF renamed'[d] = No THEN unkept \ {d} ELSE unkept \cup ({d} \cap Devices)
        /\ raced' = IF Announcing(dev) \/ d # dev THEN raced \cup ({d, dev} \cap Devices) ELSE raced
        /\ op' = [op EXCEPT ![Platform] = Op("save", d, "load")]
    /\ UNCHANGED <<up, file, lock, todo, loopVars, failed, calls, faults>>

\* __process_renamed_gateway_devices({old: new}), old being the platform's
\* name of the device.  A name the gateway does not know is taken for a device.
RenamedDevice(dev, new) ==
    /\ Free(Platform) /\ notices < MaxNotices /\ notices' = notices + 1
    /\ name[dev] \notin {Absent, new} /\ name' = [name EXCEPT ![dev] = new]
    /\ \E d \in Meant(name[dev]) :
        /\ renamed' = [renamed EXCEPT ![d] = IF d = new THEN No ELSE new]
        /\ unkept' = unkept \cup {x \in {d} \cap Devices : x \notin connected /\ parked[x] = No}
        /\ op' = [op EXCEPT ![Platform] = Op("save", d, "load")]
    /\ UNCHANGED <<up, connected, saved, added, parked, file, lock, todo, loopVars, platform,
                   removed, raced, failed, calls, faults>>

\* __load_persistent_devices(): the devices of the file whose connector is
\* known are connected and the renamed ones parked.  add_device() unparks
\* those that are connected and saves, while the platform is connected; a save
\* that raises keeps some of the devices from __saved_devices.
Loaded(con0, ren0, par0, contents, known) ==
    LET data == IF contents = Truncated THEN EmptyFile ELSE contents
        names == {d \in Devices : data[d] # Absent}
        con == IF known THEN con0 \cup names ELSE con0
        ren == [n \in Names |-> IF n \in Devices /\ data[n] \in Names THEN data[n] ELSE ren0[n]]
        again == IF up /\ known /\ names # {} THEN {d \in con : ren[d] # No} ELSE {}
        par == [d \in Devices |-> CASE d \in again -> No
                                    [] d \notin again /\ data[d] \in Names -> "info"
                                    [] OTHER -> par0[d]]
    IN  [connected |-> con, renamed |-> ren, parked |-> par, names |-> con \cap names,
         saves |-> again # {}, raises |-> again # {} /\ SaveRaises(par),
         stumbles |-> \E d \in Devices : par0[d] = "None" /\ again \ {d} # {}]

\* A file that is being written is empty for the thread that loads it.
Load(t) ==
    /\ op[t].step = "load"
    /\ LET r == Loaded(connected, renamed, parked, file, TRUE)
       IN  /\ connected' = r.connected /\ renamed' = r.renamed /\ parked' = r.parked
           /\ r.saves => ~lock
           /\ file' = IF r.saves /\ ~r.raises THEN Snapshot(r.connected, r.renamed, r.parked) ELSE file
           /\ \E fails \in {r.raises, r.stumbles} :
                /\ IF fails THEN saved' \in {saved \cup s : s \in SUBSET r.names} ELSE saved' = saved \cup r.names
                /\ failed' = (failed \/ fails)
                /\ raced' = raced \cup {d \in r.names : fails \/ Unlinking(d)}
    /\ op' = [op EXCEPT ![t] = NoOp]
    /\ UNCHANGED <<up, added, lock, todo, loopVars, platformVars, unkept, removed, countVars>>

-----------------------------------------------------------------------------
(* The connector, the main loop and the idle checker                       *)

ConnectorCall ==
    /\ Free(Connector) /\ calls < MaxCalls /\ calls' = calls + 1
    /\ \E d \in Devices : AddBegin(Connector, d) \/ DelPop(Connector, d)
    /\ UNCHANGED <<todo, notices, faults>>

WatcherLosesLink ==
    /\ Free(Watcher) /\ watchPc = "idle" /\ ~up /\ subscribed
    /\ subscribed' = FALSE
    /\ UNCHANGED <<up, memVars, file, lock, op, todo, watchPc, idlePc, platformVars, histVars, countVars>>

WatcherStarts ==
    /\ Free(Watcher) /\ watchPc = "idle" /\ up /\ ~subscribed
    /\ watchPc' = "adding" /\ todo' = [todo EXCEPT ![Watcher] = saved]
    /\ UNCHANGED <<up, memVars, file, lock, op, subscribed, idlePc, platformVars, histVars, countVars>>

\* Mutant: a device deleted in the meantime is not expected.
WatcherAddsSaved ==
    /\ Free(Watcher) /\ watchPc = "adding"
    /\ \E d \in todo[Watcher] \cap saved :
        /\ AddBegin(Watcher, d)
        /\ todo' = [todo EXCEPT ![Watcher] = @ \ {d}]
    /\ UNCHANGED countVars

\* A device that is no longer saved raises KeyError, and the loop starts over.
WatcherAdds ==
    /\ Free(Watcher) /\ watchPc = "adding"
    /\ \E d \in todo[Watcher] :
        \/ /\ d \in saved /\ AddBegin(Watcher, d)
           /\ todo' = [todo EXCEPT ![Watcher] = @ \ {d}]
        \/ /\ d \notin saved
           /\ watchPc' = "idle" /\ todo' = [todo EXCEPT ![Watcher] = {}]
           /\ UNCHANGED <<up, memVars, file, lock, op, subscribed, idlePc, platformVars, histVars>>
    /\ UNCHANGED countVars

\* subscribe_to_required_topics() looks at the connection once more.
WatcherSubscribes ==
    /\ Free(Watcher) /\ watchPc = "adding" /\ todo[Watcher] = {}
    /\ subscribed' = up /\ watchPc' = "idle"
    /\ UNCHANGED <<up, memVars, file, lock, op, todo, idlePc, platformVars, histVars, countVars>>

\* __check_devices_idle_time() iterates over the dictionary itself.
IdleScan ==
    /\ Free(Idle) /\ idlePc = "waiting" /\ connected # {}
    /\ idlePc' = "scanning" /\ todo' = [todo EXCEPT ![Idle] = connected]
    /\ UNCHANGED <<up, memVars, file, lock, op, subscribed, watchPc, platformVars, histVars, countVars>>

\* A dictionary whose size changed under the iteration raises, and nothing
\* catches it.
IdleDies ==
    /\ idlePc = "scanning" /\ Cardinality(connected) # Cardinality(todo[Idle])
    /\ idlePc' = "dead" /\ todo' = [todo EXCEPT ![Idle] = {}]
    /\ UNCHANGED <<up, memVars, file, lock, op, subscribed, watchPc, platformVars, histVars, countVars>>

IdleCollects ==
    /\ idlePc = "scanning" /\ Cardinality(connected) = Cardinality(todo[Idle])
    /\ idlePc' = "deleting"
    /\ \E idle \in SUBSET connected : todo' = [todo EXCEPT ![Idle] = idle]
    /\ UNCHANGED <<up, memVars, file, lock, op, subscribed, watchPc, platformVars, histVars, countVars>>

IdleDeletes ==
    /\ Free(Idle) /\ idlePc = "deleting"
    /\ \E d \in todo[Idle] :
        /\ DelPop(Idle, d)
        /\ todo' = [todo EXCEPT ![Idle] = @ \ {d}]
    /\ UNCHANGED countVars

IdleWaits ==
    /\ Free(Idle) /\ idlePc = "deleting" /\ todo[Idle] = {}
    /\ idlePc' = "waiting"
    /\ UNCHANGED <<up, memVars, file, lock, op, todo, subscribed, watchPc, platformVars, histVars, countVars>>

-----------------------------------------------------------------------------
(* The environment                                                         *)

LinkChanges ==
    /\ up' = ~up
    /\ up => faults < MaxFaults
    /\ faults' = IF up THEN faults + 1 ELSE faults
    /\ UNCHANGED <<memVars, file, threadVars, platformVars, histVars, calls, notices>>

\* A crash, and the start of a process that loads what the file holds; the
\* connector may have been removed from the configuration.
Restart(known) ==
    /\ faults < MaxFaults /\ faults' = faults + 1
    /\ up' = TRUE /\ up
    /\ LET r == Loaded({}, [n \in Names |-> No], [d \in Devices |-> No], file, known)
       IN  /\ connected' = r.connected /\ renamed' = r.renamed /\ parked' = r.parked /\ saved' = r.names
           /\ file' = CASE r.saves -> Snapshot(r.connected, r.renamed, r.parked)
                         [] ~r.saves /\ file = Truncated -> EmptyFile
                         [] OTHER -> file
    /\ subscribed' = TRUE /\ watchPc' = "idle" /\ added' = {} /\ platform' = {}
    /\ lock' = FALSE /\ op' = [t \in Threads |-> NoOp] /\ todo' = [t \in {Watcher, Idle} |-> {}]
    /\ idlePc' = "waiting"
    /\ unkept' = {} /\ removed' = {} /\ raced' = {} /\ failed' = FALSE
    /\ UNCHANGED <<name, calls, notices>>

Step(t) == SaveOpen(t) \/ SaveWrite(t) \/ Announce(t) \/ DelUnlink(t) \/ Load(t)
WatcherStep == WatcherLosesLink \/ WatcherStarts \/ WatcherAdds \/ WatcherSubscribes
IdleStep == IdleScan \/ IdleDies \/ IdleCollects \/ IdleDeletes \/ IdleWaits
Notice ==
    \E dev \in Devices :
        \/ DeletedDevice(dev)
        \/ \E new \in NewNames \cup {dev} : (\A x \in Devices \ {dev} : name[x] # new) /\ RenamedDevice(dev, new)

Next ==
    \/ \E t \in Threads : Step(t)
    \/ ConnectorCall \/ WatcherStep \/ IdleStep \/ Notice \/ LinkChanges
    \/ \E known \in BOOLEAN : Restart(known)

Fairness == WF_vars(WatcherStep) /\ WF_vars(LinkChanges) /\ \A t \in Threads : WF_vars(Step(t))

Spec == Init /\ [][Next]_vars
FairSpec == Spec /\ Fairness

-----------------------------------------------------------------------------
\* Every variable is of its type; a name is never renamed to itself.
DeviceRegistryTypeOK ==
    /\ up \in BOOLEAN /\ lock \in BOOLEAN /\ subscribed \in BOOLEAN
    /\ connected \subseteq Devices /\ saved \subseteq Devices /\ added \subseteq Devices
    /\ platform \subseteq Devices
    /\ renamed \in [Names -> Names \cup {No}] /\ \A n \in Names : renamed[n] # n
    /\ parked \in [Devices -> {No, "info", "None"}]
    /\ file \in {Truncated} \cup [Devices -> Names \cup {No, Absent}]
    /\ idlePc \in {"waiting", "scanning", "deleting", "dead"} /\ watchPc \in {"idle", "adding"}

Quiet == \A t \in Threads : Free(t)

\* Every variable is of its type, and when no call is under way the file holds every
\* connected device, whatever threads saved at the same time: a crash then loses
\* none (__save_persistent_devices, under __lock).  It holds the names in force too,
\* unless the device was in neither dictionary when it was renamed, or add_device()
\* took it out of the second without putting it in the first (lines 1924-1930).
\* A save that raised is the exception.
FileHoldsConnected ==
    /\ DeviceRegistryTypeOK
    /\ Quiet /\ ~failed =>
        /\ file # Truncated
        /\ \A d \in connected : file[d] # Absent
        /\ \A d \in Devices \ unkept : renamed[d] # No => file[d] = renamed[d]

\* A device the platform deleted does not come back from the file: it is connected
\* again only if its connector adds it, was adding or deleting it at the same time,
\* or if its renaming outlived it because the platform called it by a name the
\* gateway did not know (lines 717-741).
DeletedStaysDeleted == removed \cap connected \subseteq raced \cup unkept

\* The dictionaries and the platform agree about a device that was not added
\* and deleted at the same time: what is connected is saved, and the platform
\* knows no device that is not connected (add_device, del_device).  An entry None,
\* with which every later save raises AttributeError, comes only from deleting such
\* a device, or one whose renaming was not kept (lines 2027-2036).
RegistriesAgree ==
    /\ Quiet => /\ connected \ raced \subseteq saved
                /\ platform \ raced \subseteq connected
    /\ \A d \in Devices : parked[d] = "None" => d \in unkept \cup raced

\* After a reconnection the gateway subscribes to its topics again, also when
\* devices are deleted while the saved ones are being added (lines 500-508).
SubscribedAgain == (up /\ ~subscribed) ~> (subscribed \/ ~up)
=============================================================================
