-------------------------- MODULE SocketConnector ---------------------------
(***************************************************************************)
(* connectors/socket: a thread accepts TCP connections, each read by a     *)
(* thread of its own, or receives UDP datagrams; another thread (convert)  *)
(* converts and sends.  TCP data have no boundaries: one recv() returns    *)
(* any number of a device's messages, of which the converter takes the     *)
(* first only.                                                             *)
(*                                                                         *)
(* own: tcp, the socket's type; attrs, attributeRequests are configured;   *)
(* buffer, what was sent and not received.  session: the connections with  *)
(* a thread.  queue.convert is __converting_requests, in chunks.           *)
(***************************************************************************)
EXTENDS FieldConnector

SocketInit ==
    /\ FieldInit("socket", {"main", "convert"})
    /\ own \in [tcp : BOOLEAN, attrs : BOOLEAN, buffer : {[d \in Devices |-> <<>>]}]

\* run: bind, again and again until it succeeds.
SocketBinds ==
    /\ At("main", "idle") /\ ~stopped /\ To("main", "loop")
    /\ UNCHANGED <<life, hand, data, conn, env, rpc>>
SocketAccepts(d) ==
    /\ At("main", "loop") /\ ~stopped /\ own.tcp /\ link[d] /\ d \notin session
    /\ session' = session \cup {d}
    /\ UNCHANGED <<life, work, data, known, own, env, rpc>>

\* A device sends.
SocketSent(d) ==
    /\ At("main", "loop") /\ link[d] /\ (own.tcp => d \in session) /\ Reads(1)
    /\ \E bad \in BOOLEAN : own' = [own EXCEPT !.buffer[d] = Append(@, Reading(d, 1, bad))]
    /\ UNCHANGED <<life, work, queue, sent, lost, session, known, env, rpc>>

\* __process_tcp_connection, or recvfrom() in run.
Received(d) == IF own.tcp THEN 1..Len(own.buffer[d]) ELSE {1}
SocketReceives(d) ==
    /\ At("main", "loop") /\ ~stopped /\ own.buffer[d] # <<>>
    /\ \E n \in Received(d) :
         /\ Put("convert", SubSeq(own.buffer[d], 1, n))
         /\ own' = [own EXCEPT !.buffer[d] = SubSeq(@, n + 1, Len(@))]
    /\ UNCHANGED <<life, work, made, sent, lost, session, known, env, rpc>>

\* A connection ends, and with it what was not received.
SocketBreaks(d) ==
    /\ own.tcp /\ d \in session /\ ~link[d] /\ session' = session \ {d}
    /\ Lose(Range(own.buffer[d]), "connection") /\ own' = [own EXCEPT !.buffer[d] = <<>>]
    /\ UNCHANGED <<life, work, queue, made, sent, known, env, rpc>>

\* __process_data: what raises while data are compared with attribute requests ends
\* the thread.
SocketConverts ==
    /\ At("convert", "idle") /\ ~stopped /\ queue.convert # <<>>
    /\ LET chunk == Head(queue.convert)
           first == <<Head(chunk)>>
       IN  /\ queue' = [queue EXCEPT !.convert = Tail(@)]
           /\ Deliver(Own(Good(first)))
           /\ lost' = lost \cup {[s |-> x, why |-> "converter"] : x \in Bad(first)}
                           \cup {[s |-> x, why |-> "merged"] : x \in Range(Tail(chunk))}
           /\ \/ UNCHANGED pc
              \/ own.attrs /\ Bad(first) # {} /\ To("convert", "ended")
    /\ UNCHANGED <<life, hand, made, session, own, env, rpc>>

\* close(): the socket is shut down, the connections are forgotten.
SocketClose ==
    /\ ~stopped /\ stopped' = TRUE
    /\ UNCHANGED <<kind, work, data, conn, env, rpc>>

\* server_side_rpc_handler: replied to for reserved methods, and if the configuration
\* wants it; a device without an address yet is a KeyError, which is logged only.
SocketRpc(d) ==
    {Returns(0, "none", "silent"), Returns(1, "none", "refused")}
        \cup (IF own.tcp THEN {Returns(1, "none", "value")} ELSE {})

\* on_attributes_update: for a connection that is open the value is encoded twice, a
\* TypeError; otherwise a new one is made.
SocketUpdate(d) == Written(link[d] /\ d \notin session)

IsSocket == kind = "socket"
SocketMain == IsSocket /\ (SocketBinds \/ Ends("main", {"idle", "loop"}))
SocketConvert == IsSocket /\ (SocketConverts \/ Ends("convert", {"idle"}))
SocketDevice(d) == IsSocket /\ (SocketAccepts(d) \/ SocketReceives(d) \/ SocketBreaks(d))
SocketField(d) == IsSocket /\ SocketSent(d)
SocketGateway == IsSocket /\ SocketClose
SocketHandler == IsSocket /\ (RpcReturns(SocketRpc(rpc.st)) \/ UpdateReturns(SocketUpdate(rpc.st)))
=============================================================================
