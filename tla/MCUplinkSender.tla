--------------------------- MODULE MCUplinkSender ---------------------------
(* Events of two devices, one of them with both kinds of data: a pack makes  *)
(* up to three messages, and an event may be stored while another is sent.   *)
EXTENDS UplinkSender

CONSTANTS e1, e2, e3, d1, d2

MCDeviceOf == [e \in Events |-> IF e = e2 THEN d2 ELSE d1]
MCPartsOf == [e \in Events |-> IF e = e2 THEN {"attributes", "telemetry"} ELSE {"telemetry"}]
=============================================================================
