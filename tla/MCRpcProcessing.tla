-------------------------- MODULE MCRpcProcessing ---------------------------
(* Two requests, enough for one to time out while the other is being         *)
(* registered or answered.                                                   *)
EXTENDS RpcProcessing

CONSTANTS r1, r2, d1

MCDeviceOf == [r \in Requests |-> d1]
=============================================================================
