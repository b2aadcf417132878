--------------------------- MODULE RestConnector ----------------------------
(***************************************************************************)
(* connectors/rest: an HTTP server on an event loop.  Its handlers block   *)
(* the loop: one that waits for the answer of the platform keeps all other *)
(* requests waiting.  Answers come through one queue for all endpoints.    *)
(*                                                                         *)
(* own: expects, responseExpected of the endpoints; waits, the request     *)
(* whose handler waits; asked, the requests the platform has yet to        *)
(* answer; answers, responses_queue (an answer is the number of its        *)
(* request); answered, history: request and answer given, 0 for none;      *)
(* overdue, history: requests whose wait was over; ends, close() found an  *)
(* event loop to stop.                                                     *)
(***************************************************************************)
EXTENDS FieldConnector

RestInit ==
    /\ FieldInit("rest", {"main"})
    /\ own \in [expects : BOOLEAN, waits : {<<>>}, asked : {{}}, answers : {<<>>}, answered : {{}},
                overdue : {{}}, ends : {FALSE}]

\* run: an event loop, and the server on it; a port in use ends the thread.
RestBegins ==
    /\ At("main", "idle") /\ To("main", "scan")
    /\ UNCHANGED <<life, hand, data, conn, env, rpc>>
RestStarts ==
    /\ At("main", "scan") /\ ~own.ends
    /\ \E p \in {"loop", "ended"} : To("main", p) /\ session' = (IF p = "loop" THEN Devices ELSE {})
    /\ UNCHANGED <<life, hand, data, known, own, env, rpc>>

\* A handler up to get_response: the data of the request are sent, or its conversion
\* raises.
Converted(d, bad) ==
    LET x == <<Reading(d, 1, bad)>> IN
    /\ Reads(1) /\ Deliver(Own(Good(x))) /\ Lose(Bad(x), "converter")
    /\ own' = IF own.expects /\ ~bad
              THEN [own EXCEPT !.waits = Append(@, made + 1), !.asked = @ \cup {made + 1}] ELSE own
    /\ UNCHANGED <<life, work, queue, session, env, rpc>>

\* Handlers that give the loop up while they wait.
RestHandlesConcurrently(d) == At("main", "loop") /\ link[d] /\ \E bad \in BOOLEAN : Converted(d, bad)
RestHandles(d) ==
    /\ At("main", "loop") /\ own.waits = <<>> /\ link[d]
    /\ \E bad \in BOOLEAN : Converted(d, bad)

\* on_attributes_update: the platform answers, if at all, at any time.
RestUpdated ==
    /\ \E n \in own.asked : own' = [own EXCEPT !.asked = @ \ {n}, !.answers = Append(@, n)]
    /\ UNCHANGED <<life, work, data, session, known, env, rpc>>

\* get_response: the next answer in the queue, or the wait is over.
RestAnswers ==
    /\ At("main", "loop") /\ own.waits # <<>>
    /\ LET n == Head(own.waits)
           given(a) == [own EXCEPT !.waits = Tail(@), !.answered = @ \cup {[req |-> n, ans |-> a]}]
       IN  \/ own.answers # <<>> /\ own' = [given(Head(own.answers)) EXCEPT !.answers = Tail(@)]
           \/ own' = [given(0) EXCEPT !.overdue = @ \cup {n}]
    /\ UNCHANGED <<life, work, data, session, known, env, rpc>>

\* close(): before run() has made an event loop it raises an AttributeError, and the
\* server will be started; the loop stops when no handler blocks it.
RestClose ==
    /\ ~stopped /\ stopped' = TRUE /\ own' = [own EXCEPT !.ends = ~At("main", "idle")]
    /\ UNCHANGED <<kind, work, data, session, known, env, rpc>>

\* __send_request: what comes of a request to the device, and of several.
RestSent(d) == IF link[d] THEN {Returns(1, "none", "value"), Returns(2, "none", "twice")} ELSE {}

\* server_side_rpc_handler: a request is sent and waited for, for each configuration
\* that matches; what is raised is logged only.
RestRpc(d) ==
    {Returns(1, "none", "error"), Returns(0, "none", "silent")}
        \cup RestSent(d)

\* on_attributes_update, where the value is for a device: a thread is started and not
\* waited for.
RestUpdate(d) == Written(link[d])

IsRest == kind = "rest"
RestMain ==
    /\ IsRest
    /\ \/ RestBegins \/ RestStarts \/ RestAnswers
       \/ own.ends /\ own.waits = <<>> /\ Ends("main", {"scan", "loop"})
RestField(d) == IsRest /\ RestHandles(d)
RestOutside == IsRest /\ RestUpdated
RestGateway == IsRest /\ RestClose
RestHandler == IsRest /\ (RpcReturns(RestRpc(rpc.st)) \/ UpdateReturns(RestUpdate(rpc.st)))
=============================================================================
