---------------------------- MODULE FtpConnector ----------------------------
(***************************************************************************)
(* connectors/ftp: one thread connects to the server, and then goes        *)
(* through the paths that are due (hand.main: those to go).  A path stands *)
(* for one file of one device; its lines are samples.  A file whose hash   *)
(* has changed is read from its first line, whatever the read mode.        *)
(*                                                                         *)
(* own: json, the files are JSON; lines, the lines of each file; seen, how *)
(* many there were when the hash was taken; again, history: lines sent     *)
(* already when their file was read anew.                                  *)
(***************************************************************************)
EXTENDS FieldConnector

FtpInit ==
    /\ FieldInit("ftp", {"main"})
    /\ own \in [json : BOOLEAN, lines : {[d \in Devices |-> <<>>]}, seen : {[d \in Devices |-> 0]},
                again : {{}}]

Server == \A d \in Devices : link[d]

\* A line is appended to a file.
FtpLine(d) ==
    /\ Reads(1)
    /\ \E bad \in BOOLEAN : own' = [own EXCEPT !.lines[d] = Append(@, Reading(d, 1, bad))]
    /\ UNCHANGED <<life, work, queue, sent, lost, session, known, env, rpc>>

\* __connect, again and again until it succeeds; then the files are looked up.
FtpConnects ==
    /\ At("main", "idle") /\ ~stopped /\ Server
    /\ session' = Devices /\ To("main", "loop")
    /\ UNCHANGED <<life, hand, data, known, own, env, rpc>>

\* run: the next pass; the flag is tested between two passes.
FtpBegins ==
    /\ At("main", "loop") /\ ~stopped /\ hand.main = <<>> /\ Hold("main", Order)
    /\ UNCHANGED <<life, pc, data, conn, env, rpc>>

\* __process_paths for one path.
Unreadable(d) == own.json /\ Bad(own.lines[d]) # {}
FtpReads ==
    /\ At("main", "loop") /\ hand.main # <<>> /\ Server
    /\ LET d == Head(hand.main)
           lines == own.lines[d]
           changed == Len(lines) # own.seen[d]
       IN  /\ ~(changed /\ Unreadable(d))
           /\ Hold("main", Tail(hand.main))
           /\ Deliver(IF changed THEN Own(Good(lines)) ELSE <<>>)
           /\ Lose(IF changed THEN Bad(lines) ELSE {}, "converter")
           /\ own' = [own EXCEPT !.seen[d] = Len(lines),
                                 !.again = IF changed THEN @ \cup Range(SubSeq(lines, 1, own.seen[d]))
                                           ELSE @]
    /\ UNCHANGED <<life, pc, queue, made, session, env, rpc>>

\* An exception, be it a lost connection or JSON that cannot be parsed, makes run()
\* close the connector itself.
FtpBreaks ==
    /\ At("main", "loop") /\ hand.main # <<>>
    /\ LET d == Head(hand.main) IN ~Server \/ (Len(own.lines[d]) # own.seen[d] /\ Unreadable(d))
    /\ To("main", "ended") /\ Hold("main", <<>>) /\ stopped' = TRUE /\ session' = {}
    /\ UNCHANGED <<kind, data, known, own, env, rpc>>

\* close() sets the flag and forgets the hashes.
FtpClose ==
    /\ ~stopped /\ stopped' = TRUE
    /\ own' = [own EXCEPT !.seen = [d \in Devices |-> 0],
                          !.again = @ \cup UNION {Range(SubSeq(own.lines[d], 1, own.seen[d])) : d \in Devices}]
    /\ UNCHANGED <<kind, work, data, session, known, env, rpc>>

\* __process_rpc on a connection of its own: a failed write is replied to, a failed
\* read raises.
FtpProcessed == {Returns(1, "none", "error"), Returns(0, "none", "silent")}
                    \cup (IF Server THEN {Returns(1, "none", "value")} ELSE {})

\* server_side_rpc_handler: every configuration that matches is processed and
\* replied to; without one, and when anything is raised, nothing is.
FtpRpc(d) == FtpProcessed \cup (IF Server THEN {Returns(2, "none", "twice")} ELSE {})

\* on_attributes_update on a connection of its own (to files that are not polled).
FtpUpdate(d) == Written(Server)

IsFtp == kind = "ftp"
FtpEnds == hand.main = <<>> /\ Ends("main", {"idle", "loop"})
FtpMain == IsFtp /\ (FtpConnects \/ FtpBegins \/ FtpReads \/ FtpBreaks \/ FtpEnds)
FtpField(d) == IsFtp /\ FtpLine(d)
FtpGateway == IsFtp /\ FtpClose
FtpHandler == IsFtp /\ (RpcReturns(FtpRpc(rpc.st)) \/ UpdateReturns(FtpUpdate(rpc.st)))
=============================================================================
