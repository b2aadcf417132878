---------------------------- MODULE UplinkSender ----------------------------
(***************************************************************************)
(* The sending thread of TBGatewayService, __read_data_from_storage: it    *)
(* takes a pack of events from the event storage, groups their data by     *)
(* device, publishes one message per device and kind of data, waits until  *)
(* the platform confirmed the messages and only then declares the pack     *)
(* processed.  Around it run the storing thread (put), the MQTT connection *)
(* that comes and goes, the remote configurator that pauses the uplink     *)
(* (in_process), the RPC reply thread it yields to (__rpc_reply_sent), and *)
(* the process itself, which may be killed and restarted on a durable      *)
(* storage.                                                                *)
(*                                                                         *)
(* The storage is the abstract one of EventStorage.  An event is one       *)
(* stored record; its data are pairs <<event, part>>, a part being its     *)
(* attributes or its telemetry.                                            *)
(***************************************************************************)
EXTENDS EventStorage

CONSTANTS
    Devices,
    DeviceOf,            \* the deviceName of an event
    PartsOf,             \* which of its sections are not empty
    Unparsable,          \* events loads() raises on
    QualityOfService,    \* client.quality_of_service
    PublishMayRaise,     \* whether a publish call may raise
    MaxCrashes           \* bound: how often the process is killed

Parts == {"attributes", "telemetry"}
Data == Events \X Parts

ASSUME UplinkAssumption ==
    /\ DeviceOf \in [Events -> Devices]
    /\ PartsOf \in [Events -> SUBSET Parts]
    /\ Unparsable \subseteq Events
    /\ QualityOfService \in {0, 1}
    /\ PublishMayRaise \in BOOLEAN
    /\ MaxCrashes \in Nat

VARIABLES
    pc,                  \* where the sending thread is
    keys,                \* the keys of devices_data_in_event_pack
    accumulated,         \* and the data under each of them
    todo,                \* devices the loop of __send_data has still to visit
    published,           \* _published_events
    confirming,          \* the events __handle_published_events drained
    orphans,             \* messages in the client whose future was dropped
    connected,           \* tb_client.is_connected()
    inProcess,           \* __remote_configurator.in_process
    rpcReplySent,        \* __rpc_reply_sent
    crashes,
    delivered,           \* history: data the platform received
    handedOver,          \* history: data passed to a publish call that returned
    cleared,             \* history: events declared processed
    risk,                \* history: what went wrong in this pass over the pack
    raisedFor,           \* history: events cleared after a publish call raised
    unconfirmed          \* history: events cleared with confirmation skipped

threadVars == <<pc, keys, accumulated, todo, published, confirming>>
clientVars == <<orphans, crashes>>
flagVars == <<connected, inProcess, rpcReplySent>>
historyVars == <<delivered, handedOver, cleared, risk, raisedFor, unconfirmed>>
vars == <<esVars, threadVars, flagVars, clientVars, historyVars>>

\* The futures the client returned: what was published and what became of it.
Messages == [data : SUBSET Data, status : {"pending", "confirmed", "failed"}]

EventsOf(s) == {s[i] : i \in DOMAIN s}
DataOf(events) == {x \in Data : x[1] \in events \ Unparsable /\ x[2] \in PartsOf[x[1]]}
DataIn(messages) == UNION {m.data : m \in messages}

TypeOK ==
    /\ EventStorageTypeOK
    /\ pc \in {"idle", "accumulated", "yielding", "sending", "sent", "draining", "drained",
               "confirming", "confirmed"}
    /\ keys \subseteq Devices
    /\ accumulated \in [Devices -> SUBSET Data]
    /\ todo \subseteq Devices
    /\ published \subseteq Messages
    /\ confirming \subseteq Messages
    /\ orphans \subseteq Messages
    /\ connected \in BOOLEAN
    /\ inProcess \in BOOLEAN
    /\ rpcReplySent \in BOOLEAN
    /\ crashes \in 0 .. MaxCrashes
    /\ delivered \subseteq Data
    /\ handedOver \subseteq Data
    /\ cleared \subseteq Events
    /\ risk \subseteq {"raised", "skipped"}
    /\ raisedFor \subseteq Events
    /\ unconfirmed \subseteq Events

Init ==
    /\ EventStorageInit
    /\ pc = "idle"
    /\ keys = {}
    /\ accumulated = [d \in Devices |-> {}]
    /\ todo = {}
    /\ published = {}
    /\ confirming = {}
    /\ orphans = {}
    /\ connected = FALSE
    /\ inProcess = FALSE
    /\ rpcReplySent = FALSE
    /\ crashes = 0
    /\ delivered = {}
    /\ handedOver = {}
    /\ cleared = {}
    /\ risk = {}
    /\ raisedFor = {}
    /\ unconfirmed = {}

-----------------------------------------------------------------------------
\* The storing thread stores an event, each one once.
Store(e) ==
    /\ e \notin cleared \cup EventsOf(stored)
    /\ Put(e)
    /\ UNCHANGED <<threadVars, flagVars, clientVars, historyVars>>

\* The top of the loop: get_event_pack() hands out the open pack or opens one,
\* and the data of its parsable events are added to what devices_data_in_event_pack
\* still holds from an earlier pass.
ReadPack ==
    /\ pc = "idle"
    /\ connected
    /\ ~inProcess
    /\ \/ packLen > 0 /\ UNCHANGED esVars
       \/ GetEventPack
    /\ LET events == EventsOf(SubSeq(stored, 1, packLen'))
       IN  /\ keys' = keys \cup {DeviceOf[e] : e \in events \ Unparsable}
           /\ accumulated' = [d \in Devices |-> accumulated[d] \cup
                                  {x \in DataOf(events) : DeviceOf[x[1]] = d}]
    /\ pc' = "accumulated"
    /\ risk' = {}
    /\ UNCHANGED <<todo, published, confirming, flagVars, clientVars,
                   delivered, handedOver, cleared, raisedFor, unconfirmed>>

\* Mutant: without a connection the thread goes on to the confirmations.
CheckConnectionSkipsSending ==
    /\ pc = "accumulated"
    /\ pc' = IF keys # {} /\ connected THEN "yielding" ELSE "sent"
    /\ UNCHANGED <<esVars, keys, accumulated, todo, published, confirming, flagVars,
                   clientVars, historyVars>>

\* With anything to send, a lost connection sends the thread back to the top.
CheckConnection ==
    /\ pc = "accumulated"
    /\ pc' = IF keys = {} THEN "sent" ELSE IF connected THEN "yielding" ELSE "idle"
    /\ UNCHANGED <<esVars, keys, accumulated, todo, published, confirming, flagVars,
                   clientVars, historyVars>>

\* while self.__rpc_reply_sent: wait
YieldToRpcReply ==
    /\ pc = "yielding"
    /\ ~rpcReplySent
    /\ pc' = "sending"
    /\ todo' = keys
    /\ UNCHANGED <<esVars, keys, accumulated, published, confirming, flagVars,
                   clientVars, historyVars>>

\* The messages __send_data publishes for a device: its attributes, then its
\* telemetry, none for an empty section.
MessageOf(d, part) == [data |-> {x \in accumulated[d] : x[2] = part}, status |-> "pending"]
MessagesOf(d, parts) == {MessageOf(d, p) : p \in {q \in parts : \E x \in accumulated[d] : x[2] = q}}

\* Mutant: telemetry is published only when there are no attributes.
PublishDeviceElif(d) ==
    /\ pc = "sending"
    /\ d \in todo
    /\ LET parts == IF \E x \in accumulated[d] : x[2] = "attributes"
                    THEN {"attributes"} ELSE {"telemetry"}
       IN  /\ published' = published \cup MessagesOf(d, parts)
           /\ handedOver' = handedOver \cup {x \in accumulated[d] : x[2] \in parts}
    /\ accumulated' = [accumulated EXCEPT ![d] = {}]
    /\ todo' = todo \ {d}
    /\ UNCHANGED <<esVars, pc, keys, confirming, flagVars, clientVars,
                   delivered, cleared, risk, raisedFor, unconfirmed>>

\* One turn of the loop of __send_data: both calls return, the entry is reset.
PublishDevice(d) ==
    /\ pc = "sending"
    /\ d \in todo
    /\ published' = published \cup MessagesOf(d, Parts)
    /\ handedOver' = handedOver \cup accumulated[d]
    /\ accumulated' = [accumulated EXCEPT ![d] = {}]
    /\ todo' = todo \ {d}
    /\ UNCHANGED <<esVars, pc, keys, confirming, flagVars, clientVars,
                   delivered, cleared, risk, raisedFor, unconfirmed>>

\* A publish call raises: the loop of __send_data is left, the entry of the
\* device is not reset, and a first message may have been published already.
PublishRaises(d) ==
    /\ PublishMayRaise
    /\ pc = "sending"
    /\ d \in todo
    /\ accumulated[d] # {}
    /\ \E parts \in {{}, {"attributes"}} :
          /\ published' = published \cup MessagesOf(d, parts)
          /\ handedOver' = handedOver \cup {x \in accumulated[d] : x[2] \in parts}
    /\ pc' = "sent"
    /\ todo' = {}
    /\ risk' = risk \cup {"raised"}
    /\ UNCHANGED <<esVars, keys, accumulated, confirming, flagVars, clientVars,
                   delivered, cleared, raisedFor, unconfirmed>>

FinishSending ==
    /\ pc = "sending"
    /\ todo = {}
    /\ pc' = "sent"
    /\ UNCHANGED <<esVars, keys, accumulated, todo, published, confirming, flagVars,
                   clientVars, historyVars>>

\* The gate before __handle_published_events.
Open == connected /\ ~inProcess

EnterConfirmation ==
    /\ pc = "sent"
    /\ pc' = IF Open THEN "draining" ELSE "idle"
    /\ UNCHANGED <<esVars, keys, accumulated, todo, published, confirming, flagVars,
                   clientVars, historyVars>>

\* Mutant: the futures of an earlier pass stay in the queue.
DrainKeepsPublished ==
    /\ pc = "draining"
    /\ confirming' = published
    /\ pc' = IF published = {} THEN "idle" ELSE "drained"
    /\ UNCHANGED <<esVars, keys, accumulated, todo, published, flagVars, clientVars, historyVars>>

\* __handle_published_events drains the queue; with nothing drained it answers
\* False and the pack is tried again.
DrainPublished ==
    /\ pc = "draining"
    /\ confirming' = published
    /\ published' = {}
    /\ pc' = IF published = {} THEN "idle" ELSE "drained"
    /\ UNCHANGED <<esVars, keys, accumulated, todo, flagVars, clientVars, historyVars>>

\* The gate is tested again: only if it is still open and the quality of service
\* is 1 are there futures to wait for.  Otherwise the answer is True, and the
\* futures are dropped with their messages still under way.
TestGateAgain ==
    /\ pc = "drained"
    /\ IF Open /\ QualityOfService = 1
       THEN /\ pc' = "confirming"
            /\ UNCHANGED <<confirming, orphans, risk>>
       ELSE /\ pc' = "confirmed"
            /\ confirming' = {}
            /\ orphans' = orphans \cup {m \in confirming : m.status = "pending"}
            /\ risk' = risk \cup {"skipped"}
    /\ UNCHANGED <<esVars, keys, accumulated, todo, published, flagVars, crashes,
                   delivered, handedOver, cleared, raisedFor, unconfirmed>>

\* Mutant: any confirmed message is enough.
WaitForAnyConfirmation ==
    /\ pc = "confirming"
    /\ \A m \in confirming : m.status # "pending"
    /\ pc' = IF \E m \in confirming : m.status = "confirmed" THEN "confirmed" ELSE "idle"
    /\ confirming' = {}
    /\ UNCHANGED <<esVars, keys, accumulated, todo, published, flagVars, clientVars,
                   historyVars>>

\* event.get() of every future: the pack is processed if all of them succeeded.
WaitForConfirmations ==
    /\ pc = "confirming"
    /\ \A m \in confirming : m.status # "pending"
    /\ pc' = IF \A m \in confirming : m.status = "confirmed" THEN "confirmed" ELSE "idle"
    /\ confirming' = {}
    /\ UNCHANGED <<esVars, keys, accumulated, todo, published, flagVars, clientVars,
                   historyVars>>

\* if success and is_connected(): the pack is declared processed.
FinishPack ==
    /\ pc = "confirmed"
    /\ pc' = "idle"
    /\ IF connected
       THEN /\ EventPackProcessingDone
            /\ keys' = {}
            /\ accumulated' = [d \in Devices |-> {}]
            /\ cleared' = cleared \cup EventsOf(EventPack)
            /\ raisedFor' = IF "raised" \in risk THEN raisedFor \cup EventsOf(EventPack) ELSE raisedFor
            /\ unconfirmed' = IF "skipped" \in risk THEN unconfirmed \cup EventsOf(EventPack) ELSE unconfirmed
       ELSE UNCHANGED <<esVars, keys, accumulated, cleared, raisedFor, unconfirmed>>
    /\ UNCHANGED <<todo, published, confirming, flagVars, clientVars, delivered, handedOver, risk>>

-----------------------------------------------------------------------------
\* The client: a published message is confirmed by the platform, or fails when the
\* connection is lost or its client replaced; then it may have arrived or not.
InClient == {m \in published \cup confirming \cup orphans : m.status = "pending"}

Settle(m, status) ==
    LET Settled(messages) == IF m \in messages
                             THEN (messages \ {m}) \cup {[m EXCEPT !.status = status]}
                             ELSE messages
    IN  /\ published' = Settled(published)
        /\ confirming' = Settled(confirming)
        /\ orphans' = orphans \ {m}
        /\ UNCHANGED <<esVars, pc, keys, accumulated, todo, flagVars, crashes,
                       handedOver, cleared, risk, raisedFor, unconfirmed>>

Deliver ==
    \E m \in InClient :
        /\ connected
        /\ delivered' = delivered \cup m.data
        /\ Settle(m, "confirmed")

Lose ==
    \E m \in InClient :
        /\ ~connected
        /\ delivered' \in {delivered, delivered \cup m.data}
        /\ Settle(m, "failed")

\* The other threads.
SetConnected(b) ==
    /\ connected' = b
    /\ UNCHANGED <<inProcess, rpcReplySent>>

\* The configurator raises in_process for every update and lowers it at the end
\* of the handler; a handler that raises anything but KeyError or AttributeError
\* leaves it raised until another update has been handled.
SetInProcess(b) ==
    /\ inProcess' = b
    /\ UNCHANGED <<connected, rpcReplySent>>

SetRpcReplySent(b) ==
    /\ rpcReplySent' = b
    /\ UNCHANGED <<connected, inProcess>>

Environment ==
    /\ \E b \in BOOLEAN : SetConnected(b) \/ SetInProcess(b) \/ SetRpcReplySent(b)
    /\ UNCHANGED <<esVars, threadVars, clientVars, historyVars>>

\* The process is killed and started again on the same durable storage; messages
\* under way may still arrive.
Crash ==
    /\ crashes < MaxCrashes
    /\ crashes' = crashes + 1
    /\ packLen' = 0
    /\ pc' = "idle"
    /\ keys' = {}
    /\ accumulated' = [d \in Devices |-> {}]
    /\ todo' = {}
    /\ published' = {}
    /\ confirming' = {}
    /\ orphans' = {}
    /\ connected' = FALSE
    /\ inProcess' = FALSE
    /\ rpcReplySent' = FALSE
    /\ \E arrived \in SUBSET InClient :
          delivered' = delivered \cup DataIn(arrived)
    /\ risk' = {}
    /\ UNCHANGED <<stored, handedOver, cleared, raisedFor, unconfirmed>>

SenderNext ==
    \/ ReadPack
    \/ CheckConnection
    \/ YieldToRpcReply
    \/ \E d \in Devices : PublishDevice(d) \/ PublishRaises(d)
    \/ FinishSending
    \/ EnterConfirmation
    \/ DrainPublished
    \/ TestGateAgain
    \/ WaitForConfirmations
    \/ FinishPack

Next ==
    \/ \E e \in Events : Store(e)
    \/ SenderNext
    \/ Deliver
    \/ Lose
    \/ Environment
    \/ Crash

Spec == Init /\ [][Next]_vars

\* The sending thread and the MQTT network loop keep running; nothing is assumed of
\* the connection, the configurator, the RPC threads or the storing thread.
Fairness ==
    /\ WF_vars(SenderNext)
    /\ WF_vars(Deliver)

FairSpec == Spec /\ Fairness

-----------------------------------------------------------------------------
PackData == DataOf(EventsOf(EventPack))

\* A future tells the truth about its message.
FuturesSound ==
    \A m \in published \cup confirming :
        /\ m.data \subseteq handedOver
        /\ m.status = "confirmed" => m.data \subseteq delivered

\* Where the data of the open pack are while the thread works on it: whatever passes
\* were abandoned before, none is missing from the dictionary, the futures or the
\* list being confirmed (__read_data_from_storage, lines 1437-1547).
PackCovered ==
    /\ pc \in {"accumulated", "yielding"} =>
          \A x \in PackData : DeviceOf[x[1]] \in keys /\ x \in accumulated[DeviceOf[x[1]]]
    /\ pc = "sending" =>
          \A x \in PackData : \/ DeviceOf[x[1]] \in todo /\ x \in accumulated[DeviceOf[x[1]]]
                              \/ x \in DataIn(published)
    /\ pc \in {"sent", "draining"} => "raised" \in risk \/ PackData \subseteq DataIn(published)
    /\ pc \in {"drained", "confirming"} => "raised" \in risk \/ PackData \subseteq DataIn(confirming)
    /\ pc = "confirmed" =>
          \/ "raised" \in risk
          \/ PackData \subseteq handedOver /\ ("skipped" \in risk \/ PackData \subseteq delivered)

\* Whatever the connection, the configurator and crashes do: the data of an event
\* that is declared processed were passed to the client, unless a publish call
\* raised in the pass that cleared it.
ClearedWasHandedOver == DataOf(cleared \ raisedFor) \subseteq handedOver

\* With quality of service 1 they also reached the platform, with one more
\* exception: events cleared in a pass in which the second test of the gate failed.
ClearedWasDelivered == DataOf(cleared \ (raisedFor \cup unconfirmed)) \subseteq delivered

\* Once the connection holds, no update is being handled and no RPC reply is being
\* sent, every stored event is processed, however often sending was interrupted
\* before.
EverythingIsSent ==
    <>[](Open /\ ~rpcReplySent) =>
        \A e \in Events : e \in EventsOf(stored) ~> e \in cleared
=============================================================================
