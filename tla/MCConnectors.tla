---------------------------- MODULE MCConnectors ----------------------------
(* All sixteen connectors, one in each behaviour, with two devices.         *)
EXTENDS Connectors
TwoDevices == <<"d1", "d2">>
AllKinds ==
    {"modbus", "opcua", "bacnet", "s7", "snmp", "odbc", "request", "ftp", "ble", "can", "mqtt",
     "rest", "socket", "xmpp", "ocpp", "knx"}

\* Two readings are enough where threads of the same kind overtake each other; the
\* connectors that have many such threads are not followed behind the third.
FewerReadings == kind \in {"mqtt", "ocpp", "request"} => made <= 2
=============================================================================
