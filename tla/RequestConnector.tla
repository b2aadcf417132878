-------------------------- MODULE RequestConnector --------------------------
(***************************************************************************)
(* connectors/request: the loop starts a thread for every HTTP request     *)
(* that is due, and gives what the threads converted to the gateway, one   *)
(* piece per round.  The thread itself says when its request is next due,  *)
(* so the loop may start two of them.                                      *)
(*                                                                         *)
(* own: due, the requests whose next_time has come; threads, the threads   *)
(* of each request: how far they are, what they received.                  *)
(***************************************************************************)
EXTENDS FieldConnector

RequestInit ==
    /\ FieldInit("request", {"main"})
    /\ own = [due |-> Devices, threads |-> [d \in Devices |-> <<>>]]

\* run: a thread per request that is due (MaxPending threads of the first request and
\* one of each other are followed).
RequestStarts(d) ==
    /\ At("main", "idle") /\ ~stopped /\ d \in own.due
    /\ Len(own.threads[d]) < (IF d = Order[1] THEN MaxPending ELSE 1)
    /\ own' = [own EXCEPT !.threads[d] = Append(@, [at |-> "start", x |-> <<>>])]
    /\ UNCHANGED <<life, work, data, session, known, env, rpc>>
RequestDue(d) ==
    /\ d \notin own.due /\ own' = [own EXCEPT !.due = @ \cup {d}]
    /\ UNCHANGED <<life, work, data, session, known, env, rpc>>

\* __send_request: next_time is set, then the answer awaited; an error ends the thread.
RequestSent(d, i) ==
    /\ own.threads[d][i].at = "start"
    /\ own' = [own EXCEPT !.due = @ \ {d}, !.threads[d][i].at = "wait"]
    /\ UNCHANGED <<life, work, data, session, known, env, rpc>>
RequestAnswered(d, i) ==
    /\ own.threads[d][i].at = "wait"
    /\ \/ /\ link[d] /\ Reads(1)
          /\ \E bad \in BOOLEAN :
               own' = [own EXCEPT !.threads[d][i] = [at |-> "convert", x |-> <<Reading(d, 1, bad)>>]]
       \/ /\ ~(link[d] /\ made < MaxSamples)
          /\ own' = [own EXCEPT !.threads[d] = Without(@, i)] /\ UNCHANGED made
    /\ UNCHANGED <<life, work, queue, sent, lost, session, known, env, rpc>>

\* __convert_data, still in the thread.
RequestConverts(d, i) ==
    /\ own.threads[d][i].at = "convert"
    /\ LET x == own.threads[d][i].x IN
       queue' = [queue EXCEPT !.save = @ \o Good(x)] /\ Lose(Bad(x), "converter")
    /\ own' = [own EXCEPT !.threads[d] = Without(@, i)]
    /\ UNCHANGED <<life, work, made, sent, session, known, env, rpc>>

\* __process_data, in the loop.
RequestProcesses == SavesHead("main", "idle")

\* close() only sets the flag.
RequestClose ==
    /\ ~stopped /\ stopped' = TRUE
    /\ UNCHANGED <<kind, work, data, conn, env, rpc>>

\* __execute_rpc: a thread is waited for, at most responseTimeout.
RequestExecuted(d) ==
    {Returns(1, "none", "timeout"), Returns(1, "none", "error")}
        \cup (IF link[d] THEN {Returns(1, "none", "value")} ELSE {})

\* server_side_rpc_handler for a device or a reserved method.
RequestRpc(d) ==
    RequestExecuted(d) \cup {Returns(1, "none", "refused"), Returns(0, "error", "refused")}

\* on_attributes_update: a thread is waited for, which has a timeout.
RequestUpdate(d) == Written(link[d])

IsRequest == kind = "request"
RequestMain == IsRequest /\ (RequestProcesses \/ Ends("main", {"idle"}))
RequestThread(d) ==
    \E i \in 1..Len(own.threads[d]) : RequestSent(d, i) \/ RequestAnswered(d, i) \/ RequestConverts(d, i)
RequestDevice(d) == IsRequest /\ (RequestStarts(d) \/ RequestThread(d))
RequestTimer(d) == IsRequest /\ RequestDue(d)
RequestGateway == IsRequest /\ RequestClose
RequestHandler == IsRequest /\ (RpcReturns(RequestRpc(rpc.st)) \/ UpdateReturns(RequestUpdate(rpc.st)))
=============================================================================
