--------------------------- MODULE RpcProcessing ----------------------------
(***************************************************************************)
(* Server-side RPC to devices and to the gateway itself.  Five threads     *)
(* share the tables of TBGatewayService: the MQTT callback queues requests *)
(* to devices and handles the others, the RPC thread hands the queued ones *)
(* to connectors, the watcher makes the scheduled calls, moves two-way     *)
(* requests into __rpc_requests_in_progress and cancels those overdue, the *)
(* message thread of a connector forwards the device's answer, and the     *)
(* reply thread sends replies to the platform.  The connector is the MQTT  *)
(* one, the only one that uses two-way requests.                           *)
(*                                                                         *)
(* A request stands for its response topic too.  The dictionary of         *)
(* requests in progress is the sequence of its keys in insertion order;    *)
(* marked holds the keys whose value is "del".                             *)
(***************************************************************************)
EXTENDS Sequences, Naturals, FiniteSets

CONSTANTS
    Requests,
    Devices,
    DeviceOf,               \* the device of a request
    TwoWay,                 \* requests that may meet a two-way RPC configuration
    NoRequest,              \* a thread is at no request
    MaxChanges              \* bound on connects and disconnects, and on device changes

ASSUME RpcAssumption ==
    /\ DeviceOf \in [Requests -> Devices]
    /\ TwoWay \subseteq Requests
    /\ MaxChanges \in Nat
    /\ NoRequest \notin Requests

VARIABLES
    queue,                  \* __rpc_to_devices_queue
    late,                   \* requests queued for longer than their timeout
    rpcThread,              \* where __rpc_to_devices_processing is
    request,                \* the request it is at
    registerQueue,          \* __rpc_register_queue
    table,                  \* keys of __rpc_requests_in_progress
    marked,                 \* keys with value "del"
    overdue,                \* two-way requests past their response timeout
    watcher,                \* where the watcher is
    scanned,                \* how many entries its loop has passed
    scanSize,               \* size of the dictionary when the loop began
    copy,                   \* new_rpc_request_in_progress
    messageThread,          \* where the connector's message thread is
    answering,              \* the request it is at
    published,              \* two-way requests sent to their device
    answered,               \* devices' answers arrived
    replies,                \* __rpc_processing_queue
    rpcReplySent,           \* __rpc_reply_sent
    devices,                \* get_devices(): absent, bare (no connector) or served
    connected,              \* tb_client.is_connected()
    changes,                \* environment changes so far
    scheduled,              \* __scheduled_rpc_calls
    received,               \* history: requests received
    replied                 \* history: <<request, kind>> of replies queued, in order

rpcVars == <<queue, late, rpcThread, request>>
tableVars == <<registerQueue, table, marked>>
watcherVars == <<watcher, scanned, scanSize, copy>>
messageVars == <<messageThread, answering>>
deviceVars == <<published, answered>>
replyVars == <<replies, rpcReplySent, replied>>
envVars == <<overdue, devices, connected, changes>>
platformVars == <<received, scheduled>>
vars == <<rpcVars, tableVars, watcherVars, messageVars, deviceVars, replyVars, envVars, platformVars>>

ElementsOf(s) == {s[k] : k \in DOMAIN s}
Distinct(s) == \A k, l \in DOMAIN s : s[k] = s[l] => k = l

\* t is s without the entries in S, in the same order.
IsWithout(t, s, S) ==
    /\ ElementsOf(t) = ElementsOf(s) \ S
    /\ \A i, j \in DOMAIN t : i < j => \E k, l \in DOMAIN s : k < l /\ t[i] = s[k] /\ t[j] = s[l]
Shortened(s) == UNION {[1..n -> ElementsOf(s)] : n \in 0..Len(s)}

Kinds == {"timeout", "ack", "cancel", "answer", "gateway"}

RpcTypeOK ==
    /\ queue \in Seq(Requests) /\ late \subseteq Requests
    /\ rpcThread \in {"idle", "found", "waiting", "dead"}
    /\ request \in Requests \cup {NoRequest}
    /\ registerQueue \in Seq(TwoWay) /\ table \in Seq(TwoWay) /\ copy \in Seq(TwoWay)
    /\ marked \subseteq ElementsOf(table)
    /\ Distinct(table)
    /\ overdue \subseteq TwoWay
    /\ watcher \in {"idle", "calls", "scan", "cancelled", "copied"}
    /\ scheduled \in Seq(Requests)
    /\ scanned \in Nat /\ scanSize \in Nat
    /\ messageThread \in {"idle", "popping", "dead"}
    /\ answering \in TwoWay \cup {NoRequest}
    /\ answered \subseteq published /\ published \subseteq TwoWay
    /\ replies \in Seq(Requests \X Kinds) /\ replied \in Seq(Requests \X Kinds)
    /\ rpcReplySent \in BOOLEAN
    /\ devices \in [Devices -> {"absent", "bare", "served"}]
    /\ connected \in BOOLEAN
    /\ changes \in 0 .. MaxChanges
    /\ received \subseteq Requests

Init ==
    /\ queue = <<>> /\ late = {}
    /\ rpcThread = "idle" /\ request = NoRequest
    /\ registerQueue = <<>> /\ table = <<>> /\ marked = {} /\ copy = <<>>
    /\ overdue = {}
    /\ watcher = "idle" /\ scanned = 0 /\ scanSize = 0
    /\ messageThread = "idle" /\ answering = NoRequest
    /\ published = {} /\ answered = {}
    /\ replies = <<>> /\ replied = <<>> /\ rpcReplySent = FALSE
    /\ devices \in [Devices -> {"absent", "bare", "served"}]
    /\ connected = TRUE
    /\ changes = 0
    /\ received = {} /\ scheduled = <<>>

-----------------------------------------------------------------------------
\* send_rpc_reply only queues.
SendRpcReply(r, kind) ==
    /\ replies' = Append(replies, <<r, kind>>)
    /\ replied' = Append(replied, <<r, kind>>)
    /\ UNCHANGED rpcReplySent

\* _rpc_request_handler for a request to a device.
RpcRequestHandler(r) ==
    /\ connected
    /\ r \notin received
    /\ received' = received \cup {r}
    /\ queue' = Append(queue, r)
    /\ UNCHANGED <<late, rpcThread, request, tableVars, watcherVars, messageVars, deviceVars,
                   replyVars, envVars, scheduled>>

\* _rpc_request_handler for a request without a device, handled at once: by the
\* gateway, by a connector, which may have replied itself, or by nobody.  Whatever
\* comes of it, the gateway replies.
GatewayRpcHandler(r) ==
    /\ connected
    /\ r \notin received
    /\ received' = received \cup {r}
    /\ \E own \in {<<>>, <<<<r, "ack">>>>} :
         LET all == Append(own, <<r, "gateway">>)
         IN  replies' = replies \o all /\ replied' = replied \o all
    /\ UNCHANGED <<rpcVars, tableVars, watcherVars, messageVars, deviceVars, rpcReplySent, envVars,
                   scheduled>>

\* __rpc_gateway_processing of reboot and restart: to be called in a second or later.
ScheduleRpcCall(r) ==
    /\ connected
    /\ r \notin received
    /\ received' = received \cup {r}
    /\ scheduled' = Append(scheduled, r)
    /\ SendRpcReply(r, "gateway")
    /\ UNCHANGED <<rpcVars, tableVars, watcherVars, messageVars, deviceVars, envVars>>

\* Putting a late request back like any other.
RequeueLate ==
    /\ rpcThread = "idle"
    /\ queue # <<>>
    /\ Head(queue) \in late
    /\ queue' = Append(Tail(queue), Head(queue))
    /\ UNCHANGED <<late, rpcThread, request, tableVars, watcherVars, messageVars, deviceVars,
                   replyVars, envVars, platformVars>>

\* __rpc_to_devices_processing.  Too late: answered with 408.
AnswerLate ==
    /\ rpcThread = "idle"
    /\ queue # <<>>
    /\ Head(queue) \in late
    /\ queue' = Tail(queue)
    /\ SendRpcReply(Head(queue), "timeout")
    /\ UNCHANGED <<late, rpcThread, request, tableVars, watcherVars, messageVars, deviceVars,
                   envVars, platformVars>>

\* Unknown device: to the end of the queue.
Requeue ==
    /\ rpcThread = "idle"
    /\ queue # <<>>
    /\ Head(queue) \notin late
    /\ devices[DeviceOf[Head(queue)]] = "absent"
    /\ queue' = Append(Tail(queue), Head(queue))
    /\ UNCHANGED <<late, rpcThread, request, tableVars, watcherVars, messageVars, deviceVars,
                   replyVars, envVars, platformVars>>

\* The device is in get_devices(),
FindDevice ==
    /\ rpcThread = "idle"
    /\ queue # <<>>
    /\ Head(queue) \notin late
    /\ devices[DeviceOf[Head(queue)]] # "absent"
    /\ queue' = Tail(queue)
    /\ request' = Head(queue)
    /\ rpcThread' = "found"
    /\ UNCHANGED <<late, tableVars, watcherVars, messageVars, deviceVars, replyVars, envVars, platformVars>>

\* and is looked up there again.  Deleted in between, it raises KeyError, which
\* nothing catches: the thread ends.
LookUpFails ==
    /\ rpcThread = "found"
    /\ devices[DeviceOf[request]] = "absent"
    /\ rpcThread' = "dead"
    /\ UNCHANGED <<queue, late, request, tableVars, watcherVars, messageVars, deviceVars,
                   replyVars, envVars, platformVars>>

\* No connector, or none of its RPC handlers matches, or the handler fails: a
\* line in the log, no reply.
Unhandled ==
    /\ rpcThread = "found"
    /\ devices[DeviceOf[request]] # "absent"
    /\ rpcThread' = "idle" /\ request' = NoRequest
    /\ UNCHANGED <<queue, late, tableVars, watcherVars, messageVars, deviceVars, replyVars,
                   envVars, platformVars>>

\* server_side_rpc_handler of the MQTT connector.  Which RPC configuration the
\* request meets, one-way or two-way, depends on the list in force just then.
\* One-way: published and acknowledged at once, with or without success.
HandleOneWay ==
    /\ rpcThread = "found"
    /\ devices[DeviceOf[request]] = "served"
    /\ SendRpcReply(request, "ack")
    /\ rpcThread' = "idle" /\ request' = NoRequest
    /\ UNCHANGED <<queue, late, tableVars, watcherVars, messageVars, deviceVars, envVars, platformVars>>

\* Two-way: register, then wait in the RPC thread until is_rpc_in_progress,
HandleTwoWay ==
    /\ rpcThread = "found"
    /\ devices[DeviceOf[request]] = "served"
    /\ request \in TwoWay
    /\ registerQueue' = Append(registerQueue, request)
    /\ rpcThread' = "waiting"
    /\ UNCHANGED <<queue, late, request, table, marked, watcherVars, messageVars, deviceVars,
                   replyVars, envVars, platformVars>>

\* and only then publish the request to the device.
PublishTwoWay ==
    /\ rpcThread = "waiting"
    /\ request \in ElementsOf(table)
    /\ published' = published \cup {request}
    /\ rpcThread' = "idle" /\ request' = NoRequest
    /\ UNCHANGED <<queue, late, tableVars, watcherVars, messageVars, answered, replyVars,
                   envVars, platformVars>>

-----------------------------------------------------------------------------
CallsVars == <<rpcVars, tableVars, scanSize, copy, messageVars, deviceVars, replyVars, envVars, received>>

\* Looking at the calls only while connected.
CallsBeginConnected ==
    /\ watcher = "idle"
    /\ scheduled # <<>>
    /\ connected
    /\ watcher' = "calls"
    /\ scanned' = 0
    /\ scanSize' = Len(scheduled)
    /\ UNCHANGED <<rpcVars, tableVars, copy, messageVars, deviceVars, replyVars, envVars, platformVars>>

\* A turn of _watchers with calls on the list.
CallsBegin ==
    /\ watcher = "idle"
    /\ scheduled # <<>>
    /\ watcher' = "calls"
    /\ scanned' = 0
    /\ scanSize' = Len(scheduled)
    /\ UNCHANGED <<rpcVars, tableVars, copy, messageVars, deviceVars, replyVars, envVars, platformVars>>

\* The call at the index, if it is time for it, is popped and called.  (One that
\* replaces the process ends the behaviour.)
CallScheduled ==
    /\ watcher = "calls"
    /\ scanned < scanSize /\ scanned < Len(scheduled)
    /\ scanned' = scanned + 1
    /\ scheduled' = IF scheduled[scanned + 1] \in late
                    THEN SubSeq(scheduled, 1, scanned) \o SubSeq(scheduled, scanned + 2, Len(scheduled))
                    ELSE scheduled
    /\ UNCHANGED <<watcher, CallsVars>>

\* The range was made before: behind a call that was popped the index is past the
\* end, and the IndexError ends the turn.
CallsRaise ==
    /\ watcher = "calls"
    /\ scanned < scanSize /\ scanned >= Len(scheduled)
    /\ watcher' = "idle"
    /\ UNCHANGED <<scanned, scheduled, CallsVars>>

CallsDone == (watcher = "calls" /\ scanned = scanSize) \/ (watcher = "idle" /\ scheduled = <<>>)

\* Nothing else to do in this turn.
TurnEnds ==
    /\ watcher = "calls" /\ CallsDone
    /\ ~connected \/ (table = <<>> /\ registerQueue = <<>>)
    /\ watcher' = "idle"
    /\ UNCHANGED <<scanned, scheduled, CallsVars>>

\* The part of _watchers that looks after two-way requests, once per turn.
WatchBegin ==
    /\ CallsDone
    /\ connected
    /\ table # <<>> \/ registerQueue # <<>>
    /\ watcher' = "scan"
    /\ scanned' = 0
    /\ scanSize' = Len(table)
    /\ UNCHANGED <<rpcVars, tableVars, copy, messageVars, deviceVars, replyVars, envVars, platformVars>>

Scanning == watcher = "scan" /\ Len(table) = scanSize
AtEntry == Scanning /\ scanned < Len(table)
Entry == table[scanned + 1]

PassEntry ==
    /\ AtEntry
    /\ Entry \notin marked \cup overdue
    /\ scanned' = scanned + 1
    /\ UNCHANGED <<rpcVars, tableVars, watcher, scanSize, copy, messageVars, deviceVars,
                   replyVars, envVars, platformVars>>

\* Past its time: unsubscribe and cancel_rpc_request.
CancelEntry ==
    /\ AtEntry
    /\ Entry \in overdue \ marked
    /\ SendRpcReply(Entry, "cancel")
    /\ copy' = <<Entry>>
    /\ watcher' = "cancelled"
    /\ UNCHANGED <<rpcVars, tableVars, scanned, scanSize, messageVars, deviceVars, envVars, platformVars>>

\* Cancelling without the value "del".
MarkNothing ==
    /\ watcher = "cancelled"
    /\ watcher' = "scan"
    /\ scanned' = scanned + 1
    /\ UNCHANGED <<rpcVars, tableVars, scanSize, copy, messageVars, deviceVars, replyVars,
                   envVars, platformVars>>

\* The cancelled entry gets the value "del".  The key is there again, at the
\* end, if the message thread has just removed it.
MarkEntry ==
    LET r == copy[1]
    IN  /\ watcher = "cancelled"
        /\ marked' = marked \cup {r}
        /\ watcher' = "scan"
        /\ IF r \in ElementsOf(table)
           THEN scanned' = scanned + 1 /\ UNCHANGED table
           ELSE table' = Append(table, r) /\ UNCHANGED scanned
        /\ UNCHANGED <<rpcVars, registerQueue, scanSize, copy, messageVars, deviceVars,
                       replyVars, envVars, platformVars>>

\* "del"[1] is no number, and a dictionary that changed its size ends its
\* iteration: either exception is logged, and the turn is over.
WatchRaises ==
    /\ watcher = "scan"
    /\ \/ Len(table) # scanSize
       \/ AtEntry /\ Entry \in marked
    /\ watcher' = "idle"
    /\ UNCHANGED <<rpcVars, tableVars, scanned, scanSize, copy, messageVars, deviceVars,
                   replyVars, envVars, platformVars>>

\* The dictionary without its "del" entries.
CopyTable ==
    /\ Scanning
    /\ scanned >= Len(table)
    /\ copy' \in {t \in Shortened(table) : IsWithout(t, table, marked)}
    /\ watcher' = "copied"
    /\ UNCHANGED <<rpcVars, tableVars, scanned, scanSize, messageVars, deviceVars, replyVars,
                   envVars, platformVars>>

\* A new dictionary for the new request.
AssignNewest ==
    /\ watcher = "copied"
    /\ IF registerQueue = <<>>
       THEN /\ table' = copy
            /\ marked' = {}
            /\ UNCHANGED registerQueue
       ELSE /\ registerQueue' = Tail(registerQueue)
            /\ table' = <<Head(registerQueue)>>
            /\ marked' = {}
    /\ watcher' = "idle"
    /\ UNCHANGED <<rpcVars, scanned, scanSize, copy, messageVars, deviceVars, replyVars,
                   envVars, platformVars>>

\* The copy is used when nothing waits to be registered; otherwise the dictionary stays,
\* with its "del" entries, and gets one request more.
AssignTable ==
    /\ watcher = "copied"
    /\ IF registerQueue = <<>>
       THEN /\ table' = copy
            /\ marked' = {}
            /\ UNCHANGED registerQueue
       ELSE /\ registerQueue' = Tail(registerQueue)
            /\ table' = Append(table, Head(registerQueue))
            /\ UNCHANGED marked
    /\ watcher' = "idle"
    /\ UNCHANGED <<rpcVars, scanned, scanSize, copy, messageVars, deviceVars, replyVars,
                   envVars, platformVars>>

-----------------------------------------------------------------------------
\* _process_on_message of the connector: the answer of the device.  It is not
\* forwarded when nobody waits for it;
IgnoreAnswer(r) ==
    /\ messageThread = "idle"
    /\ r \in published \ answered
    /\ r \notin ElementsOf(table)
    /\ answered' = answered \cup {r}
    /\ UNCHANGED <<rpcVars, tableVars, watcherVars, messageVars, published, replyVars, envVars,
                   platformVars>>

\* rpc_with_reply_processing sends the reply first
ForwardAnswer(r) ==
    /\ messageThread = "idle"
    /\ r \in published \ answered
    /\ r \in ElementsOf(table) \ marked
    /\ answered' = answered \cup {r}
    /\ SendRpcReply(r, "answer")
    /\ messageThread' = "popping" /\ answering' = r
    /\ UNCHANGED <<rpcVars, tableVars, watcherVars, published, envVars, platformVars>>

\* and then removes the request;
PopAnswered ==
    /\ messageThread = "popping"
    /\ table' \in {t \in Shortened(table) : IsWithout(t, table, {answering})}
    /\ marked' = marked \ {answering}
    /\ messageThread' = "idle" /\ answering' = NoRequest
    /\ UNCHANGED <<rpcVars, registerQueue, watcherVars, deviceVars, replyVars, envVars, platformVars>>

\* with "del" in its place it raises TypeError, and the message thread ends.
AnswerRaises(r) ==
    /\ messageThread = "idle"
    /\ r \in published \ answered
    /\ r \in marked
    /\ answered' = answered \cup {r}
    /\ messageThread' = "dead"
    /\ UNCHANGED <<rpcVars, tableVars, watcherVars, answering, published, replyVars, envVars,
                   platformVars>>

-----------------------------------------------------------------------------
\* __send_rpc_reply_processing; rpcReplySent holds the uplink back meanwhile,
\* and is reset whether or not the client raises.
TakeReply ==
    /\ ~rpcReplySent
    /\ replies # <<>>
    /\ rpcReplySent' = TRUE
    /\ UNCHANGED <<rpcVars, tableVars, watcherVars, messageVars, deviceVars, replies, replied,
                   envVars, platformVars>>

FinishReply ==
    /\ rpcReplySent
    /\ rpcReplySent' = FALSE
    /\ replies' = Tail(replies)
    /\ UNCHANGED <<rpcVars, tableVars, watcherVars, messageVars, deviceVars, replied, envVars,
                   platformVars>>

-----------------------------------------------------------------------------
\* Time passes, devices and the connection come and go.
BecomeLate(r) ==
    /\ r \in (ElementsOf(queue) \cup ElementsOf(scheduled)) \ late
    /\ late' = late \cup {r}
    /\ UNCHANGED <<queue, rpcThread, request, tableVars, watcherVars, messageVars, deviceVars,
                   replyVars, envVars, platformVars>>

BecomeOverdue(r) ==
    /\ r \in (ElementsOf(registerQueue) \cup ElementsOf(table)) \ overdue
    /\ overdue' = overdue \cup {r}
    /\ UNCHANGED <<rpcVars, tableVars, watcherVars, messageVars, deviceVars, replyVars, devices,
                   connected, changes, platformVars>>

ChangeDevice(d) ==
    /\ changes < MaxChanges
    /\ changes' = changes + 1
    /\ \E s \in {"absent", "bare", "served"} \ {devices[d]} : devices' = [devices EXCEPT ![d] = s]
    /\ UNCHANGED <<rpcVars, tableVars, watcherVars, messageVars, deviceVars, replyVars, overdue,
                   connected, platformVars>>

ChangeConnection ==
    /\ changes < MaxChanges
    /\ changes' = changes + 1
    /\ connected' = ~connected
    /\ UNCHANGED <<rpcVars, tableVars, watcherVars, messageVars, deviceVars, replyVars, overdue,
                   devices, platformVars>>

RpcThreadNext ==
    \/ AnswerLate \/ Requeue \/ FindDevice \/ LookUpFails \/ Unhandled
    \/ HandleOneWay \/ HandleTwoWay \/ PublishTwoWay

WatcherNext ==
    \/ CallsBegin \/ CallScheduled \/ CallsRaise \/ TurnEnds
    \/ WatchBegin \/ PassEntry \/ CancelEntry \/ MarkEntry \/ WatchRaises
    \/ CopyTable \/ AssignTable

Next ==
    \/ \E r \in Requests :
        \/ RpcRequestHandler(r) \/ GatewayRpcHandler(r) \/ ScheduleRpcCall(r)
        \/ BecomeLate(r) \/ BecomeOverdue(r)
    \/ \E r \in TwoWay : IgnoreAnswer(r) \/ ForwardAnswer(r) \/ AnswerRaises(r)
    \/ RpcThreadNext
    \/ WatcherNext
    \/ PopAnswered
    \/ TakeReply \/ FinishReply
    \/ \E d \in Devices : ChangeDevice(d)
    \/ ChangeConnection

Spec == Init /\ [][Next]_vars

\* Threads run and time passes; devices and the platform owe us nothing.
FairSpec ==
    /\ Spec
    /\ WF_vars(RpcThreadNext)
    /\ WF_vars(WatcherNext)
    /\ WF_vars(PopAnswered)
    /\ WF_vars(TakeReply \/ FinishReply)
    /\ \A r \in Requests : WF_vars(BecomeLate(r)) /\ WF_vars(BecomeOverdue(r))

-----------------------------------------------------------------------------
RepliesTo(r, kind) == Cardinality({k \in DOMAIN replied : replied[k] = <<r, kind>>})

\* Every variable is of its type, and however the watcher and the message thread interleave, a request is never
\* cancelled twice nor answered twice, and one answered 408 or acknowledged at
\* once gets no other reply.  A cancel beside an answer is possible: the answer
\* comes while the watcher cancels.
RepliesBounded ==
    /\ RpcTypeOK
    /\ \A r \in Requests :
        /\ \A kind \in Kinds : RepliesTo(r, kind) <= 1
        /\ RepliesTo(r, "timeout") + RepliesTo(r, "ack") = 1
              => RepliesTo(r, "cancel") + RepliesTo(r, "answer") = 0

\* As long as its time is not over, a request published to its device is in
\* progress, so that the answer will be forwarded: the copies the watcher makes
\* of the dictionary never lose one.  Nor do they lose the request the MQTT connector
\* waits to see enqueued ("which never fails"), unless its time was over before
\* the wait saw it: the RPC thread then waits for ever.
AnswerIsExpected ==
    /\ \A r \in published \ (overdue \cup answered) : r \in ElementsOf(table)
    /\ rpcThread = "waiting" => request \in UNION {ElementsOf(registerQueue), ElementsOf(table), overdue}

\* A request to a device leaves the queue, at the latest when it times out,
\* unless the RPC thread has ended or waits in a connector.
QueuedIsTaken ==
    \A r \in Requests : r \in ElementsOf(queue) ~> r \notin ElementsOf(queue) \/ rpcThread \in {"dead", "waiting"}

\* A scheduled call is called when its time has come, whatever becomes of the calls
\* before it, of the connection and of the two-way requests (lines 511-523): the
\* IndexError costs the calls behind a popped one no more than a turn.
ScheduledIsCalled ==
    \A r \in Requests : r \in ElementsOf(scheduled) ~> r \notin ElementsOf(scheduled)
=============================================================================
