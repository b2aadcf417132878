-------------------------- MODULE MCDeviceRegistry --------------------------
(* TLC instance of DeviceRegistry. *)
EXTENDS DeviceRegistry
=============================================================================
