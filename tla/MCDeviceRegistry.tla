-------------------------- MODULE MCDeviceRegistry --------------------------
(* Two groups, two concurrent heartbeats, two configurations.               *)
EXTENDS DeviceRegistry
=============================================================================
