--------------------------- MODULE OdbcConnector ----------------------------
(***************************************************************************)
(* connectors/odbc: one thread connects to the database and polls it: a    *)
(* query returns the rows after the iterator (hand.main: those to go).     *)
(* Rows are samples that stay in the database.                             *)
(*                                                                         *)
(* own: rows, the rows of the table; it, the iterator's value; file, the   *)
(* saved one, if there is one (persistent: it is saved at all); query, the *)
(* first value comes from a query; fetched, rows were fetched by this      *)
(* poll; again, history: rows sent already that lie after a restored       *)
(* iterator.                                                               *)
(***************************************************************************)
EXTENDS FieldConnector

OdbcInit ==
    /\ FieldInit("odbc", {"main"})
    /\ own \in [rows : {<<>>}, it : {0}, file : {<<>>}, persistent : BOOLEAN, query : BOOLEAN,
                fetched : {FALSE}, again : {{}}]

Database == \A d \in Devices : link[d]

\* A row is added to the table.
OdbcRow(d) ==
    /\ Reads(1)
    /\ \E bad \in BOOLEAN : own' = [own EXCEPT !.rows = Append(@, Reading(d, 1, bad))]
    /\ UNCHANGED <<life, work, queue, sent, lost, session, known, env, rpc>>

\* run: __init_connection, again and again until it succeeds.
OdbcConnects ==
    /\ At("main", "idle") /\ ~stopped /\ session = {} /\ Database
    /\ session' = Devices /\ To("main", "scan")
    /\ UNCHANGED <<life, hand, data, known, own, env, rpc>>

\* __load_iterator_config finds a saved value.
IteratorSaved == own.persistent /\ own.file # <<>>

\* __init_iterator: from the file, from the configuration, or by a query, whose
\* failure ends the thread.
OdbcIterator ==
    /\ At("main", "scan")
    /\ \/ /\ IteratorSaved /\ To("main", "idle")
          /\ own' = [own EXCEPT !.it = Head(own.file),
                                !.again = @ \cup {e.s : e \in {x \in Range(sent) : x.s.n > Head(own.file)}}]
          /\ UNCHANGED session
       \/ /\ ~IteratorSaved /\ (own.query => Database) /\ To("main", "idle")
          /\ own' = [own EXCEPT !.it = 0, !.again = @ \cup {e.s : e \in Range(sent)}]
          /\ UNCHANGED session
       \/ /\ ~IteratorSaved /\ own.query /\ ~Database /\ To("main", "ended")
          /\ session' = {} /\ UNCHANGED own
    /\ UNCHANGED <<life, hand, data, known, env, rpc>>

\* __poll: the query, and then row by row; a database error closes the connection.
OdbcQueries ==
    /\ At("main", "idle") /\ ~stopped /\ session # {}
    /\ IF Database
       THEN /\ To("main", "loop") /\ Hold("main", Chosen(own.rows, {k \in DOMAIN own.rows : own.rows[k].n > own.it}))
            /\ own' = [own EXCEPT !.fetched = FALSE] /\ UNCHANGED session
       ELSE session' = {} /\ UNCHANGED <<pc, hand, own>>
    /\ UNCHANGED <<life, data, known, env, rpc>>

\* __process_row: the iterator follows the rows that could be converted.
Iterated(x) == IF x.bad THEN own.it ELSE x.n
OdbcRowSent ==
    /\ At("main", "loop") /\ hand.main # <<>> /\ Database
    /\ LET x == Head(hand.main) IN
       /\ Hold("main", Tail(hand.main))
       /\ own' = [own EXCEPT !.fetched = TRUE, !.it = Iterated(x)]
       /\ Deliver(Own(Good(<<x>>))) /\ Lose(Bad(<<x>>), "converter")
    /\ UNCHANGED <<life, pc, queue, made, session, env, rpc>>
OdbcBreaks ==
    /\ At("main", "loop") /\ hand.main # <<>> /\ ~Database
    /\ To("main", "idle") /\ Hold("main", <<>>) /\ session' = {}
    /\ UNCHANGED <<life, data, known, own, env, rpc>>

\* The end of __poll: __save_iterator_config.
OdbcPolled ==
    /\ At("main", "loop") /\ hand.main = <<>> /\ To("main", "idle")
    /\ own' = [own EXCEPT !.file = IF own.persistent /\ own.fetched THEN <<own.it>> ELSE @]
    /\ UNCHANGED <<life, hand, data, session, known, env, rpc>>

\* The end of run(): the connection is closed and the flag reset.
OdbcEnds ==
    /\ stopped /\ At("main", "idle") /\ To("main", "ended") /\ stopped' = FALSE /\ session' = {}
    /\ UNCHANGED <<kind, hand, data, known, own, env, rpc>>

\* close() only sets the flag.
OdbcClose ==
    /\ ~stopped /\ stopped' = TRUE
    /\ UNCHANGED <<kind, work, data, conn, env, rpc>>

\* __process_reverved_rpc replies, and then the handler's finally clause does; without
\* parameters it raises an AttributeError before its own reply.
OdbcReservedRpc == {Returns(2, "none", "reserved"), Returns(1, "none", "refused")}

\* server_side_rpc_handler: the result of a query that returned no row, or whose
\* cursor the polling thread has closed, raises in the finally clause.
OdbcRpc(d) ==
    IF session = {} THEN {Returns(1, "none", "refused")}
    ELSE {Returns(1, "none", "error"), Returns(1, "none", "value"), Returns(0, "raises", "no row")}
           \cup OdbcReservedRpc

\* on_attributes_update does nothing.
OdbcUpdate(d) == {"unknown"}

IsOdbc == kind = "odbc"
OdbcMain ==
    /\ IsOdbc
    /\ \/ OdbcConnects \/ OdbcIterator \/ OdbcQueries \/ OdbcRowSent \/ OdbcBreaks \/ OdbcPolled
       \/ OdbcEnds
OdbcField(d) == IsOdbc /\ OdbcRow(d)
OdbcGateway == IsOdbc /\ OdbcClose
OdbcHandler == IsOdbc /\ (RpcReturns(OdbcRpc(rpc.st)) \/ UpdateReturns(OdbcUpdate(rpc.st)))
=============================================================================
