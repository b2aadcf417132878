----------------------------- MODULE Connectors -----------------------------
(***************************************************************************)
(* A gateway with one connector of any kind in Kinds: the threads of the   *)
(* connector, the field it talks to, the gateway that closes it and calls  *)
(* its RPC handler.  The properties are those the gateway relies on,       *)
(* whatever the connector; where a connector does not keep one, the        *)
(* property names the window in which it does not.                         *)
(***************************************************************************)
EXTENDS ModbusConnector, OpcUaConnector, BacnetConnector, S7Connector, SnmpConnector,
        OdbcConnector, RequestConnector, FtpConnector, BleConnector, CanConnector,
        MqttConnector, RestConnector, SocketConnector, XmppConnector, OcppConnector,
        KnxConnector

Init ==
    /\ kind \in Kinds
    /\ \/ ModbusInit \/ UaInit \/ BacInit \/ S7Init \/ SnmpInit
       \/ OdbcInit \/ RequestInit \/ FtpInit \/ BleInit \/ CanInit
       \/ MqttInit \/ RestInit \/ SocketInit \/ XmppInit \/ OcppInit \/ KnxInit

Main ==
    \/ ModbusMain \/ UaMain \/ BacMain \/ S7Main \/ SnmpMain
    \/ OdbcMain \/ RequestMain \/ FtpMain \/ BleMain \/ CanMain
    \/ MqttMain \/ RestMain \/ SocketMain \/ XmppMain \/ OcppMain \/ KnxMain
Convert ==
    \/ ModbusConvert \/ UaConvert \/ BacConvert \/ S7Convert
    \/ MqttConvert \/ SocketConvert \/ XmppConvert \/ OcppConvert \/ KnxConvert
Save ==
    \/ ModbusSave \/ UaSave \/ BacSave \/ S7Save \/ BleSave
    \/ MqttSave \/ XmppSave \/ OcppSave \/ KnxSave
\* What else the event loop or a background thread does.
Aside == UaAside \/ BacAside \/ CanAside \/ MqttAside
\* The i-th job or task of a worker that runs several.
Task(i) == UaTask(i) \/ MqttTask(i)
\* The polling of a device, and a wait that is over.
Device(d) ==
    \/ ModbusDevice(d) \/ BacDevice(d) \/ S7Device(d) \/ RequestDevice(d) \/ BleDevice(d)
    \/ SocketDevice(d) \/ OcppDevice(d) \/ KnxDevice(d)
Timer(d) == ModbusTimer(d) \/ RequestTimer(d)
\* What the field does of its own accord.
Field(d) ==
    \/ UaField(d) \/ OdbcField(d) \/ FtpField(d) \/ BleField(d) \/ CanField(d)
    \/ MqttField(d) \/ RestField(d) \/ SocketField(d) \/ XmppField(d) \/ OcppField(d)
Outside == BacOutside \/ RestOutside
\* The handlers of RPCs and of attribute updates, on threads of the gateway.
Handler ==
    \/ ModbusHandler \/ UaHandler \/ BacHandler \/ S7Handler \/ SnmpHandler \/ OdbcHandler
    \/ RequestHandler \/ FtpHandler \/ BleHandler \/ CanHandler \/ MqttHandler
    \/ RestHandler \/ SocketHandler \/ XmppHandler \/ OcppHandler \/ KnxHandler
\* close().
Gateway ==
    \/ ModbusGateway \/ UaGateway \/ BacGateway \/ S7Gateway \/ SnmpGateway
    \/ OdbcGateway \/ RequestGateway \/ FtpGateway \/ BleGateway \/ CanGateway
    \/ MqttGateway \/ RestGateway \/ SocketGateway \/ XmppGateway \/ OcppGateway \/ KnxGateway

\* The connectors whose devices are behind one server.
OneServer == {"opcua", "odbc", "ftp", "can", "mqtt", "knx"}

Next ==
    \/ Main \/ Convert \/ Save \/ Aside \/ Outside \/ Gateway
    \/ \E i \in 1..MaxSamples + MaxPending : Task(i)
    \/ \E d \in Devices : Device(d) \/ Timer(d) \/ Field(d)
    \/ kind \in OneServer /\ LinkChanges(Devices)
    \/ kind \notin OneServer /\ \E d \in Devices : LinkChanges({d})
    \/ RpcCalled \/ UpdateCalled \/ Handler

Spec == Init /\ [][Next]_vars

\* Threads and event loops are scheduled; a loop gets to its oldest job.  Nothing
\* is said of the field, of close() and of what the platform sends.  What a loop does
\* once per period it does again and again.
Scheduled ==
    /\ WF_vars(Main) /\ WF_vars(Convert) /\ WF_vars(Save) /\ WF_vars(Aside) /\ WF_vars(Handler)
    /\ \A d \in Devices : WF_vars(Device(d))
FairSpec ==
    /\ Spec /\ Scheduled
    /\ SF_vars(BacPeriod) /\ WF_vars(Task(1)) /\ \A d \in Devices : WF_vars(Timer(d))

-----------------------------------------------------------------------------
IsSample(x) == x.dev \in Devices /\ x.n \in 1..made /\ x.bad \in BOOLEAN

\* Every variable is of its type.
ConnectorTypeOK ==
    /\ kind \in Kinds /\ stopped \in BOOLEAN
    /\ \A w \in Workers : pc[w] \in {"idle", "busy", "scan", "look", "loop", "ended"}
    /\ link \in [Devices -> BOOLEAN] /\ session \subseteq Devices
    /\ known \subseteq Devices \cup {Nobody}
    /\ made \in 0..MaxSamples /\ events \in 0..MaxEvents
    /\ \A e \in Range(sent) : IsSample(e.s) /\ e.as \in Devices \cup {Nobody}
    /\ \A l \in lost : IsSample(l.s)
    /\ rpc.replies \in 0..2

\* The connectors whose readings may overtake each other.
Overtaken == kind = "request" \/ (kind = "opcua" /\ ~own.subs) \/ (kind = "mqtt" /\ own.grown)

\* The samples a connector reads again from a source that keeps them: ODBC after it
\* restored its iterator, FTP when a file has changed.
Again == IF kind \in {"odbc", "ftp"} THEN own.again ELSE {}

\* Readings reach the gateway under the name of the device they were read from,
\* but for OPC-UA polls that take several requests or that are converted while
\* the nodes are scanned, and for charge points that have no name yet.  A REST
\* request is answered with the answer to it, until one has waited in vain: its late
\* answer goes to the next request, and all later ones may be one answer behind.
AttributedRight ==
    /\ \A e \in Range(sent) :
         \/ e.as = e.s.dev
         \/ kind = "opcua" /\ ~own.subs
         \/ kind = "ocpp" /\ e.as = Nobody
    /\ kind = "rest" => \A a \in own.answered : a.ans \in {0, a.req} \/ \E o \in own.overdue : o < a.req

\* Every variable is of its type.  Readings of a device reach the gateway once and in
\* the order they were read, and none that reached it was given up; but for the threads
\* of a request that overtake each other, the jobs of the OPC-UA pool, MQTT workers
\* when there was more than one, and what ODBC and FTP read again.
SentOnceInOrder ==
    /\ ConnectorTypeOK
    /\ \A i, j \in 1..Len(sent) :
         i < j /\ sent[i].s.dev = sent[j].s.dev /\ sent[i].s.n >= sent[j].s.n
            => \/ sent[j].s \in Again
               \/ sent[i].s # sent[j].s /\ Overtaken
    /\ \A l \in lost : \A e \in Range(sent) : e.s # l.s

\* What is read after close() does not reach the gateway, but for the pass that SNMP,
\* FTP and ODBC have begun, and what a REST server receives before it is down.
NothingLateIsSent == \A e \in Range(sent) : e.s.late => kind \in {"snmp", "ftp", "odbc", "rest"}

\* A reading is given up only for a reason: it cannot be converted; it is in one
\* batch with such a one (Modbus, MQTT); its node or topic is not known at the moment
\* (OPC-UA, MQTT); a queue is full (MQTT); it was received together with another, or
\* its connection broke (socket); the bus failed (CAN).
LossHasCause ==
    \A l \in lost : CASE l.why = "converter" -> l.s.bad
                      [] l.why = "batch" -> kind \in {"modbus", "mqtt"} /\ \E m \in lost : m.s.bad
                      [] l.why \in {"uncached", "undealt"} -> kind = "opcua"
                      [] l.why \in {"unmapped", "full"} -> kind = "mqtt"
                      [] l.why \in {"merged", "connection"} -> kind = "socket" /\ own.tcp
                      [] l.why = "buffer" -> kind = "can"

\* Threads and tasks end once close() was called, but for the event loops of BLE, REST
\* and OCPP when close() came before they ran, and of XMPP.
Unstoppable == kind = "xmpp" \/ (kind \in {"ble", "rest", "ocpp"} /\ ~own.ends)
ThreadsEnd ==
    stopped ~> \A w \in Workers : At(w, "ended") \/ (w = "main" /\ Unstoppable)

\* The connector deals with device d.
Served(d) ==
    CASE kind = "modbus" -> d \in known
      [] kind = "opcua" -> own.connected /\ d \in own.loaded
      [] kind = "bacnet" -> d \in own.reading
      [] kind = "s7" -> d \in Range(queue.poll)
      [] kind \in {"snmp", "ftp"} -> hand.main # <<>> /\ Head(hand.main) = d
      [] kind = "request" -> own.threads[d] # <<>>
      [] kind = "ble" -> d \in session /\ (own.notify => d \in own.live)
      [] kind = "socket" -> IF own.tcp THEN d \in session ELSE At("main", "loop")
      [] kind = "ocpp" -> d \in session
      [] kind \in {"odbc", "xmpp"} -> At("main", "loop")
      [] kind = "knx" -> d \in Range(queue.poll)
      [] kind = "mqtt" -> d \in own.mapped /\ session # {}
      [] kind \in {"can", "rest"} -> session # {}

\* The connector will not deal with device d any more, although it runs: BACnet's
\* confirmation_handler has returned, or the objects of the device were not found;
\* S7 could not connect to it at first; BLE has noted its characteristics on an
\* earlier connection; the thread of ODBC, CAN or REST has ended, or the one that
\* looks at the messages (MQTT, socket).
GivenUp(d) ==
    CASE kind = "bacnet" -> ~own.confirms \/ d \in own.barren
      [] kind = "s7" -> own.loaded /\ d \notin own.connected
      [] kind = "ble" -> d \in own.noted
      [] kind \in {"odbc", "can", "rest"} -> At("main", "ended")
      [] kind \in {"mqtt", "socket"} -> At("convert", "ended")
      [] OTHER -> FALSE

\* A device that answers is dealt with again and again, until the connector is
\* stopped or has given it up.
DevicesServed == \A d \in Devices : []<>(stopped \/ ~link[d] \/ Served(d) \/ GivenUp(d))

\* An RPC that was handled is replied to once.  It is replied to twice when a handler
\* replies to its own error, to a reserved method, or per configuration; not at all
\* when the handler raises or finds no configuration.
RpcReplied ==
    rpc.st \in {"done", "thread ended"} =>
        CASE rpc.replies = 0 -> rpc.how = "silent" \/ rpc.st = "thread ended"
          [] rpc.replies = 1 -> TRUE
          [] rpc.replies = 2 -> rpc.how \in {"error", "timeout", "refused", "twice", "reserved"}

\* The handlers of RPCs and updates return, so that the gateway's threads go on; but
\* OCPP waits for ever once its event loop is stopped.
HandlerReturns ==
    rpc.st \in Devices ~> rpc.st \notin Devices \/ (kind = "ocpp" /\ At("main", "ended"))
=============================================================================
