--------------------------- MODULE XmppConnector ----------------------------
(***************************************************************************)
(* connectors/xmpp: the client's event loop (main) puts messages into a    *)
(* queue; one thread converts them, another sends them.                    *)
(*                                                                         *)
(* own: available, _available_device.  queue.convert is INCOMING_MESSAGES, *)
(* queue.save DATA_TO_SEND.                                                *)
(***************************************************************************)
EXTENDS FieldConnector

XmppInit == FieldInit("xmpp", Workers) /\ own = [available |-> {}]

\* create_client; the client reconnects by itself.
XmppStarts ==
    /\ At("main", "idle") /\ To("main", "loop")
    /\ UNCHANGED <<life, hand, data, conn, env, rpc>>

\* message.
XmppMessage(d) ==
    /\ At("main", "loop") /\ link[d] /\ made < MaxSamples /\ Produce(d, "convert")
    /\ UNCHANGED <<life, work, conn, env, rpc>>

\* _process_messages: the device of a message that was converted becomes available.
XmppProcesses ==
    /\ At("convert", "idle") /\ ~stopped /\ queue.convert # <<>>
    /\ LET x == <<Head(queue.convert)>> IN
       /\ queue' = [queue EXCEPT !.convert = Tail(@), !.save = @ \o Good(x)]
       /\ Lose(Bad(x), "converter")
       /\ own' = [available |-> own.available \cup {y.dev : y \in Range(Good(x))}]
    /\ UNCHANGED <<life, work, made, sent, session, known, env, rpc>>

\* _send_data.
XmppSends == SavesHead("save", "idle")

\* close() sets the flag; the client stays connected, and its loop goes on.
XmppClose ==
    /\ ~stopped /\ stopped' = TRUE
    /\ UNCHANGED <<kind, work, data, conn, env, rpc>>

\* __process_reserved_rpc.
XmppReservedRpc(d) ==
    {Returns(1, "none", "refused")}
        \cup (IF d \in own.available THEN {Returns(1, "none", "value"), Returns(1, "none", "error")}
              ELSE {Returns(0, "none", "silent")})

\* server_side_rpc_handler: nobody replies for a device that has sent nothing yet.
XmppRpc(d) ==
    XmppReservedRpc(d) \cup {Returns(0, "none", "silent")}
        \cup (IF d \in own.available THEN {Returns(1, "none", "value")} ELSE {})

\* on_attributes_update: a device that has sent nothing yet is a KeyError.
XmppUpdate(d) == Written(d \in own.available)

IsXmpp == kind = "xmpp"
XmppMain == IsXmpp /\ XmppStarts
XmppConvert == IsXmpp /\ (XmppProcesses \/ Ends("convert", {"idle"}))
XmppSave == IsXmpp /\ (XmppSends \/ Ends("save", {"idle"}))
XmppField(d) == IsXmpp /\ XmppMessage(d)
XmppGateway == IsXmpp /\ XmppClose
XmppHandler == IsXmpp /\ (RpcReturns(XmppRpc(rpc.st)) \/ UpdateReturns(XmppUpdate(rpc.st)))
=============================================================================
