--------------------------- MODULE FieldConnector ---------------------------
(***************************************************************************)
(* What the connectors have in common (connectors/connector.py): devices   *)
(* in the field that answer or not, threads and queues that carry what was *)
(* read to the gateway, close() and is_stopped(), and the handler of RPCs. *)
(* One module per connector describes its threads with these variables;    *)
(* module Connectors puts them together, one connector (kind) at a time.   *)
(*                                                                         *)
(* A sample is one reading of a device, bad when the converter cannot      *)
(* convert it, late when it was read after close().  A worker is a thread  *)
(* or a task; hand is what it has begun and not finished.  own is the      *)
(* state that only one connector has.                                      *)
(***************************************************************************)
EXTENDS Integers, Sequences, FiniteSets, Functions

CONSTANTS
    Kinds,      \* the connectors of the run
    Order,      \* the devices of the connector, in the order of its configuration
    MaxSamples, \* samples read
    MaxEvents,  \* changes of the field and RPCs
    MaxPending, \* entries of a queue that the code bounds
    ReadLimit   \* nodes read by one OPC-UA request (max_nodes_per_read)

Devices == Range(Order)

\* What rpc.st says of an RPC that no device is dealing with.
NoDevice == {"off", "none", "done", "thread ended", "updated"}

ASSUME FieldConnectorAssumption ==
    /\ Order \in Seq(Range(Order)) /\ Devices \cap NoDevice = {}
    /\ \A i, j \in 1..Len(Order) : i # j => Order[i] # Order[j]
    /\ {MaxSamples, MaxEvents, MaxPending} \subseteq Nat /\ ReadLimit \in Nat \ {0}

Workers == {"main", "convert", "save"}
Queues == {"poll", "convert", "save"}

VARIABLES
    kind,       \* the connector
    stopped,    \* the flag set by close()
    pc, hand,   \* what each worker is doing, and what it holds
    queue,      \* the queues between the workers
    link,       \* whether a device answers
    session,    \* the devices whose connection the connector holds open
    known,      \* the devices the gateway was told of
    made,       \* history: the number of samples read
    sent,       \* history: the samples given to send_to_storage(), and as whose
    lost,       \* history: the samples thrown away, and why
    rpc,        \* the RPC to a device: its progress, its replies, how it went
    events,     \* history: changes of link and RPCs
    own         \* the state of the connector at hand

life == <<kind, stopped>>
work == <<pc, hand>>
data == <<queue, made, sent, lost>>
conn == <<session, known, own>>
env == <<link, events>>
vars == <<life, work, data, conn, env, rpc>>

NoRpc(st) == [st |-> st, replies |-> 0, how |-> "none"]

\* A behaviour follows samples, or an RPC to a device that the gateway has from its
\* file; neither touches the state of the other.
FieldInit(k, workers) ==
    /\ kind = k /\ stopped = FALSE
    /\ pc = [w \in Workers |-> IF w \in workers THEN "idle" ELSE "ended"]
    /\ hand = [w \in Workers |-> <<>>]
    /\ queue = [q \in Queues |-> <<>>]
    /\ link = [d \in Devices |-> TRUE] /\ session = {}
    /\ sent = <<>> /\ lost = {} /\ events = 0
    /\ \/ made = 0 /\ known = {} /\ rpc = NoRpc("off")
       \/ made = MaxSamples /\ known = Devices /\ rpc = NoRpc("none")

-----------------------------------------------------------------------------
(* Steps of a worker                                                       *)

At(w, p) == pc[w] = p
To(w, p) == pc' = [pc EXCEPT ![w] = p]
Hold(w, s) == hand' = [hand EXCEPT ![w] = s]
Without(s, i) == SubSeq(s, 1, i - 1) \o SubSeq(s, i + 1, Len(s))
Put(q, x) == queue' = [queue EXCEPT ![q] = Append(@, x)]

\* A reading of d, the k-th of this step.
Reading(d, k, bad) == [dev |-> d, n |-> made + k, bad |-> bad, late |-> stopped]
Reads(k) == made + k <= MaxSamples /\ made' = made + k

\* A reading of d is put into a queue; beyond the bound readings are not followed.
Produce(d, q) ==
    \/ /\ Reads(1) /\ \E bad \in BOOLEAN : Put(q, Reading(d, 1, bad))
       /\ UNCHANGED <<sent, lost>>
    \/ made = MaxSamples /\ UNCHANGED data

\* Samples are given to send_to_storage() under the name of a device, which the
\* gateway's storing thread registers if it does not know it.
Own(s) == [k \in 1..Len(s) |-> [s |-> s[k], as |-> s[k].dev]]
Deliver(entries) ==
    /\ sent' = sent \o entries
    /\ known' = known \cup {e.as : e \in Range(entries)}
Lose(ss, why) == lost' = lost \cup {[s |-> x, why |-> why] : x \in ss}

\* The entries of s at the places in I, in their order.
Ascending(I, e) == Range(e) = I /\ \A j, k \in DOMAIN e : j < k => e[j] < e[k]
Chosen(s, I) ==
    LET e == CHOOSE e \in [1..Cardinality(I) -> I] : Ascending(I, e) IN [k \in DOMAIN e |-> s[e[k]]]
Good(s) == Chosen(s, {k \in DOMAIN s : ~s[k].bad})
Bad(s) == {x \in Range(s) : x.bad}

\* A reading of d is converted and given to the gateway in one go.
ReadAndSent(d) ==
    \/ /\ Reads(1) /\ UNCHANGED queue
       /\ \E bad \in BOOLEAN :
            LET x == <<Reading(d, 1, bad)>> IN Deliver(Own(Good(x))) /\ Lose(Bad(x), "converter")
    \/ made = MaxSamples /\ UNCHANGED <<data, known>>

\* A loop that tests the flag ends.
Ends(w, at) ==
    /\ stopped /\ pc[w] \in at /\ To(w, "ended")
    /\ UNCHANGED <<life, hand, data, conn, env, rpc>>

\* A loop that converts one reading after another; one that raises is given up.
\* (Of several at once any may be done first.)
ConvertsAny ==
    /\ ~stopped /\ At("convert", "idle")
    /\ \E i \in 1..Len(queue.convert) :
         LET x == queue.convert[i] IN
         /\ queue' = [queue EXCEPT !.convert = Without(@, i), !.save = @ \o Good(<<x>>)]
         /\ Lose(Bad(<<x>>), "converter")
    /\ UNCHANGED <<life, work, made, sent, conn, env, rpc>>
ConvertsHead ==
    /\ ~stopped /\ At("convert", "idle") /\ queue.convert # <<>>
    /\ LET x == Head(queue.convert) IN
       /\ queue' = [queue EXCEPT !.convert = Tail(@), !.save = @ \o Good(<<x>>)]
       /\ Lose(Bad(<<x>>), "converter")
    /\ UNCHANGED <<life, work, made, sent, conn, env, rpc>>

\* A loop of worker w that converts what is still to be converted and gives it to
\* the gateway, in two steps: close() may come between its test of the flag and the
\* sending.
TakesHead(w, at) ==
    /\ At(w, at) /\ queue.save # <<>>
    /\ To(w, "busy") /\ Hold(w, <<Head(queue.save)>>)
    /\ queue' = [queue EXCEPT !.save = Tail(@)]
    /\ UNCHANGED <<life, made, sent, lost, conn, env, rpc>>
SavesTaken(w, at) ==
    /\ At(w, "busy") /\ To(w, at) /\ Hold(w, <<>>)
    /\ Deliver(Own(Good(hand[w]))) /\ Lose(Bad(hand[w]), "converter")
    /\ UNCHANGED <<life, queue, made, session, own, env, rpc>>

\* The flag is not tested between two readings.
SavesAll(w, at) == TakesHead(w, at) \/ SavesTaken(w, at)
SavesHead(w, at) == (~stopped /\ TakesHead(w, at)) \/ SavesTaken(w, at)

-----------------------------------------------------------------------------
(* The devices and the gateway                                             *)

Happens == events < MaxEvents /\ events' = events + 1

\* Devices stop answering, or answer again; the client libraries of some connectors
\* may notice that a connection broke.
Noticing == {"modbus", "ble"}
LinkChanges(ds) ==
    /\ Happens
    /\ link' = [d \in Devices |-> IF d \in ds THEN ~link[d] ELSE link[d]]
    /\ \/ UNCHANGED session
       \/ kind \in Noticing /\ session' = {d \in session : link'[d]}
    /\ UNCHANGED <<life, work, data, known, own, rpc>>

\* __rpc_to_devices_processing calls server_side_rpc_handler() for a device it knows.
RpcCalled ==
    /\ rpc.st = "none" /\ Happens
    /\ \E d \in known : rpc' = [st |-> d, replies |-> 0, how |-> "none"]
    /\ UNCHANGED <<life, work, data, conn, link>>

\* The handler has sent replies itself and returns nothing, a value, or a
\* dictionary with "error", to which the gateway replies once more; or it
\* raises, which ends the gateway's RPC thread.
Returns(replies, result, how) ==
    [st |-> IF result = "raises" THEN "thread ended" ELSE "done",
     replies |-> replies + (IF result = "error" THEN 1 ELSE 0), how |-> how]
RpcEnds(outcomes) ==
    /\ rpc.st \in Devices /\ rpc.how = "none" /\ rpc' \in outcomes
    /\ UNCHANGED <<life, work, data, env>>
RpcReturns(outcomes) == RpcEnds(outcomes) /\ UNCHANGED conn

\* _attribute_update_callback calls on_attributes_update() on the client's thread.
UpdateCalled ==
    /\ rpc.st = "none" /\ Happens
    /\ \E d \in known : rpc' = [st |-> d, replies |-> 0, how |-> "update"]
    /\ UNCHANGED <<life, work, data, conn, link>>

\* It returns, or raises to no effect, after the value was written, after writing it
\* failed, or for want of a configuration (unknown).
UpdateEnds(outcomes) ==
    /\ rpc.st \in Devices /\ rpc.how = "update"
    /\ \E o \in outcomes : rpc' = [st |-> "updated", replies |-> 0, how |-> o]
    /\ UNCHANGED <<life, work, data, env>>
UpdateReturns(outcomes) == UpdateEnds(outcomes) /\ UNCHANGED conn

\* What writing a value comes to: it may fail although it could succeed.
Written(possible) == {"unknown", "failed"} \cup (IF possible THEN {"written"} ELSE {})
=============================================================================
